-------------------------- MODULE UndoLedgerProofs --------------------------
(***************************************************************************)
(* Proofs about UndoLedger, for any number of scenes, histories, runs and   *)
(* steps, any two disjoint sets of names and any capacity.                  *)
(*                                                                         *)
(* A place of a history and the version it had there move together until   *)
(* the history is cleared, so every action of Didi's still in a history is  *)
(* at the place and the version of its own reference (ActsInv, PlaceInv).   *)
(* Another reference with the same place, version and name is of an action  *)
(* that was replaced there (ReplacedInv), and of the two the one that is    *)
(* there is the later.  The ledger holds the last commits without a gap     *)
(* (CommitsInv), so it holds the later one whenever it holds the earlier,   *)
(* or when no more than Capacity came since.                                *)
(***************************************************************************)
EXTENDS UndoLedger, SequenceTheorems, WellFoundedInduction, TLAPS

-----------------------------------------------------------------------------
(* The inductive invariant.                                                *)

\* r is the reference of the action at place i of history h.
PlacedAt(r, h, i) ==
  /\ r.run = run
  /\ r.history = h /\ r.index = i
  /\ r.version + hist[h].current = hist[h].version + i
  /\ r.id = hist[h].acts[i].id /\ r.action = hist[h].acts[i].name

\* An action of Didi's that is in a history has its reference.
ActsInv ==
  \A h \in Histories :
    /\ hist[h].current <= hist[h].version
    /\ \A i \in 1..Len(hist[h].acts) :
         /\ hist[h].acts[i].id <= 2 * steps
         /\ hist[h].acts[i].name \in DidiNames => \E r \in refs : PlacedAt(r, h, i)

RefsInv ==
  \A r \in refs :
    /\ r.index >= 1 /\ r.action \in DidiNames
    /\ r.id <= 2 * steps
    /\ r.run <= run
    /\ r.run = run => r.serial < serial

\* An action a reference of this run names is where the reference says, and its
\* scene is open.
PlaceInv ==
  \A r \in refs, h \in Histories :
    r.run = run =>
      \A i \in 1..Len(hist[h].acts) :
        hist[h].acts[i].id = r.id =>
          /\ PlacedAt(r, h, i)
          /\ h # kGlobalUndoHistory => r.scene \in Scenes /\ shown[r.scene] = h

\* What was committed before something at a version no higher is gone.
ReplacedInv ==
  \A c, d \in refs :
    c.run = run /\ d.run = run /\ c.history = d.history
      /\ c.serial < d.serial /\ d.version <= c.version =>
      \A i \in 1..Len(hist[c.history].acts) : hist[c.history].acts[i].id # c.id

\* Serial numbers are in the order of the commits.
OrderInv ==
  \A c, d \in refs :
    c.run = d.run =>
      /\ c.serial < d.serial => c.id < d.id
      /\ c.serial = d.serial => c = d

\* s is the last commits of this run, out of R, before the one numbered next: all of
\* them, or at least as many as the ledger remembers.
LastOf(s, next, R) ==
  /\ Len(s) < next
  /\ Len(s) + 1 = next \/ Len(s) >= Capacity
  /\ \A i \in 1..Len(s) :
       s[i] \in R /\ s[i].run = run /\ s[i].serial + Len(s) + 1 = next + i

CommitsInv == LastOf(commits, serial, refs)

PlacesInv == ActsInv /\ RefsInv /\ PlaceInv /\ ReplacedInv /\ OrderInv

IndInv == TypeOK /\ PlacesInv /\ CommitsInv

-----------------------------------------------------------------------------
(* What a step does to the histories and the references.                   *)

\* The action at place i of history h was there before, and place and version have
\* moved together.
Kept(h, i) ==
  /\ i \in 1..Len(hist[h].acts)
  /\ hist'[h].acts[i] = hist[h].acts[i]
  /\ hist'[h].version + hist[h].current = hist[h].version + hist'[h].current

\* An identity no action had before.
Fresh(id) == 2 * steps < id /\ id <= 2 * steps'

\* A reference this step made: it is of a fresh action, numbered above the others,
\* and above what was left in its history.
NewRef(r) ==
  /\ r.run = run /\ r.index >= 1 /\ r.action \in DidiNames
  /\ serial <= r.serial /\ r.serial < serial'
  /\ Fresh(r.id)
  /\ \A h \in Histories : \A i \in 1..Len(hist'[h].acts) :
       hist'[h].acts[i].id = r.id =>
         /\ PlacedAt(r, h, i)'
         /\ h # kGlobalUndoHistory => r.scene \in Scenes /\ shown'[r.scene] = h
  /\ \A i \in 1..Len(hist'[r.history].acts) :
       Kept(r.history, i) =>
         hist'[r.history].version + i < r.version + hist'[r.history].current

\* Within a run of the editor, every action there is was kept or is fresh, and what
\* Didi committed has its reference.
Evolves ==
  /\ run' = run /\ refs \subseteq refs' /\ refs' \subseteq UndoCommit
  /\ serial' \in Nat /\ serial <= serial'
  /\ steps' \in Nat /\ steps <= steps'
  /\ hist' \in [Histories -> History]
  /\ \A h \in Histories : hist'[h].current <= hist'[h].version
  /\ \A h \in Histories : \A i \in 1..Len(hist'[h].acts) :
       \/ Kept(h, i)
       \/ /\ Fresh(hist'[h].acts[i].id)
          /\ hist'[h].acts[i].name \in DidiNames => \E r \in refs' : PlacedAt(r, h, i)'
  /\ \A h \in Histories \ {kGlobalUndoHistory}, s \in Scenes :
       shown[s] = h /\ Len(hist'[h].acts) # 0 => shown'[s] = h
  /\ \A r \in refs' \ refs : NewRef(r)
  /\ \A c, d \in refs' \ refs :
       /\ c.serial < d.serial => c.id < d.id /\ c.version < d.version
       /\ c.serial = d.serial => c = d

\* A reference to an action that was kept still says where it is.
LEMMA KeptPlace ==
  ASSUME TypeOK, run' = run, hist' \in [Histories -> History],
         NEW r \in UndoCommit, NEW h \in Histories, NEW i, Kept(h, i), PlacedAt(r, h, i)
  PROVE  PlacedAt(r, h, i)'
<1>1. hist[h] \in History /\ hist'[h] \in History
  BY DEF TypeOK
<1>2. PICK v \in Nat, c \in Nat, v1 \in Nat, c1 \in Nat, w \in Nat, j \in Nat :
        /\ v = hist[h].version /\ c = hist[h].current
        /\ v1 = hist'[h].version /\ c1 = hist'[h].current /\ w = r.version /\ j = i
  <2>1. r.version \in Nat /\ i \in Nat
    BY DEF UndoCommit, Kept
  <2> QED
    BY <1>1, <2>1 DEF History
<1>3. v1 + c = v + c1 /\ w + c = v + j
  BY <1>2 DEF Kept, PlacedAt
<1>4. w + c1 = v1 + j
  BY <1>3
<1> QED
  BY <1>2, <1>4 DEF PlacedAt, Kept

\* Such a step keeps what is said of places and references.
LEMMA EvolvesKeeps ==
  ASSUME TypeOK, PlacesInv, Evolves
  PROVE  PlacesInv'
<1>1. /\ \A r \in refs' : r \in UndoCommit /\ r.serial \in Nat /\ r.id \in Nat /\ r.version \in Nat
      /\ run' = run /\ run \in Nat /\ serial \in Nat /\ serial' \in Nat
      /\ steps \in Nat /\ steps' \in Nat /\ steps <= steps' /\ serial <= serial'
  BY UndoLedgerAssumption DEF Evolves, TypeOK, UndoCommit
<1>2. \A h \in Histories : hist[h] \in History /\ hist'[h] \in History
  BY DEF TypeOK, Evolves
<1>3. \A h \in Histories : \A i \in 1..Len(hist'[h].acts) :
        hist'[h].acts[i].id \in Nat
  <2> SUFFICES ASSUME NEW h \in Histories, NEW i \in 1..Len(hist'[h].acts)
               PROVE  hist'[h].acts[i].id \in Nat
    OBVIOUS
  <2>1. hist'[h].acts \in Seq(Action)
    BY <1>2 DEF History
  <2>2. hist'[h].acts[i] \in Action
    BY <2>1, ElementOfSeq
  <2> QED
    BY <2>2 DEF Action
<1>4. ASSUME NEW h \in Histories, NEW i \in 1..Len(hist'[h].acts),
             hist'[h].acts[i].id <= 2 * steps
      PROVE  Kept(h, i)
  <2>1. hist'[h].acts[i].id \in Nat
    BY <1>3
  <2>2. ~Fresh(hist'[h].acts[i].id)
    BY <1>1, <1>4, <2>1 DEF Fresh
  <2> QED
    BY <2>2 DEF Evolves
<1>5. ActsInv'
  <2> SUFFICES ASSUME NEW h \in Histories
               PROVE  /\ hist'[h].current <= hist'[h].version
                      /\ \A i \in 1..Len(hist'[h].acts) :
                           /\ hist'[h].acts[i].id <= 2 * steps'
                           /\ hist'[h].acts[i].name \in DidiNames =>
                                \E r \in refs' : PlacedAt(r, h, i)'
    BY DEF ActsInv
  <2>1. hist'[h].current <= hist'[h].version
    BY DEF Evolves
  <2>2. ASSUME NEW i \in 1..Len(hist'[h].acts), Kept(h, i)
        PROVE  /\ hist'[h].acts[i].id <= 2 * steps'
               /\ hist'[h].acts[i].name \in DidiNames => \E r \in refs' : PlacedAt(r, h, i)'
    <3>1. /\ i \in 1..Len(hist[h].acts) /\ hist'[h].acts[i] = hist[h].acts[i]
      BY <2>2 DEF Kept
    <3>2. /\ hist[h].acts[i].id <= 2 * steps
          /\ hist[h].acts[i].name \in DidiNames => \E r \in refs : PlacedAt(r, h, i)
      BY <3>1 DEF PlacesInv, ActsInv
    <3>3. hist'[h].acts[i].id <= 2 * steps'
      <4>1. PICK x \in Nat : x = hist'[h].acts[i].id /\ x <= 2 * steps
        BY <1>3, <3>1, <3>2
      <4>2. x <= 2 * steps'
        BY <1>1, <4>1
      <4> QED
        BY <4>1, <4>2
    <3>4. ASSUME hist'[h].acts[i].name \in DidiNames
          PROVE  \E r \in refs' : PlacedAt(r, h, i)'
      <4>1. PICK r \in refs : PlacedAt(r, h, i)
        BY <3>1, <3>2, <3>4
      <4>2. r \in refs' /\ r \in UndoCommit
        BY <1>1 DEF Evolves
      <4>3. PlacedAt(r, h, i)'
        BY <2>2, <4>1, <4>2, KeptPlace DEF Evolves
      <4> QED
        BY <4>2, <4>3
    <3> QED
      BY <3>3, <3>4
  <2>3. ASSUME NEW i \in 1..Len(hist'[h].acts), ~Kept(h, i)
        PROVE  /\ hist'[h].acts[i].id <= 2 * steps'
               /\ hist'[h].acts[i].name \in DidiNames => \E r \in refs' : PlacedAt(r, h, i)'
    BY <2>3 DEF Evolves, Fresh
  <2> QED
    BY <2>1, <2>2, <2>3
<1>6. RefsInv'
  <2> SUFFICES ASSUME NEW r \in refs'
               PROVE  /\ r.index >= 1 /\ r.action \in DidiNames
                      /\ r.id <= 2 * steps'
                      /\ r.run <= run
                      /\ r.run = run => r.serial < serial'
    BY <1>1 DEF RefsInv
  <2>1. CASE r \in refs
    BY <1>1, <2>1 DEF PlacesInv, RefsInv
  <2>2. CASE r \notin refs
    <3>1. NewRef(r)
      BY <2>2 DEF Evolves
    <3> QED
      BY <1>1, <3>1 DEF NewRef, Fresh
  <2> QED
    BY <2>1, <2>2
<1>7. PlaceInv'
  <2> SUFFICES ASSUME NEW r \in refs', NEW h \in Histories, r.run = run,
                      NEW i \in 1..Len(hist'[h].acts), hist'[h].acts[i].id = r.id
               PROVE  /\ PlacedAt(r, h, i)'
                      /\ h # kGlobalUndoHistory => r.scene \in Scenes /\ shown'[r.scene] = h
    BY <1>1 DEF PlaceInv
  <2>1. CASE r \in refs
    <3>1. r.id <= 2 * steps
      BY <2>1 DEF PlacesInv, RefsInv
    <3>2. Kept(h, i)
      BY <1>4, <3>1
    <3>3. /\ PlacedAt(r, h, i)
          /\ h # kGlobalUndoHistory => r.scene \in Scenes /\ shown[r.scene] = h
      BY <2>1, <3>2 DEF PlacesInv, PlaceInv, Kept
    <3>4. PlacedAt(r, h, i)'
      BY <1>1, <3>2, <3>3, KeptPlace DEF Evolves
    <3>5. Len(hist'[h].acts) # 0
      BY <1>2 DEF History
    <3> QED
      BY <3>3, <3>4, <3>5 DEF Evolves
  <2>2. CASE r \notin refs
    BY <2>2 DEF Evolves, NewRef
  <2> QED
    BY <2>1, <2>2
<1>8. ReplacedInv'
  <2> SUFFICES ASSUME NEW c \in refs', NEW d \in refs', c.run = run, d.run = run,
                      c.history = d.history, c.serial < d.serial, d.version <= c.version,
                      NEW i \in 1..Len(hist'[c.history].acts),
                      hist'[c.history].acts[i].id = c.id
               PROVE  FALSE
    BY <1>1 DEF ReplacedInv
  <2> DEFINE h == c.history
  <2>1. h \in Histories
    BY <1>1 DEF UndoCommit
  <2>2. PlacedAt(c, h, i)'
    BY <1>1, <1>7, <2>1 DEF PlaceInv
  <2> HIDE DEF h
  <2>3. CASE c \in refs
    <3>1. c.id <= 2 * steps
      BY <2>3 DEF PlacesInv, RefsInv
    <3>2. Kept(h, i)
      BY <1>4, <2>1, <3>1 DEF h
    <3>3. CASE d \in refs
      BY <2>3, <3>2, <3>3 DEF PlacesInv, ReplacedInv, Kept, h
    <3>4. CASE d \notin refs
      <4>1. hist'[h].version + i < d.version + hist'[h].current
        BY <3>2, <3>4 DEF Evolves, NewRef, h
      <4>2. c.version + hist'[h].current = hist'[h].version + i
        BY <2>2 DEF PlacedAt
      <4>3. PICK u \in Nat, v \in Nat, w \in Nat : u = hist'[h].version + i /\ v = hist'[h].current
                                                 /\ w = d.version
        <5>1. hist'[h].version \in Nat /\ hist'[h].current \in Nat /\ i \in Nat
          BY <1>2, <2>1 DEF History
        <5> QED
          BY <1>1, <5>1
      <4> QED
        BY <1>1, <4>1, <4>2, <4>3
    <3> QED
      BY <3>3, <3>4
  <2>4. CASE c \notin refs /\ d \in refs
    <3>1. serial <= c.serial
      BY <2>4 DEF Evolves, NewRef
    <3>2. d.serial < serial
      BY <2>4 DEF PlacesInv, RefsInv
    <3> QED
      BY <1>1, <3>1, <3>2
  <2>5. CASE c \notin refs /\ d \notin refs
    BY <1>1, <2>5 DEF Evolves
  <2> QED
    BY <2>3, <2>4, <2>5
<1>9. OrderInv'
  <2> SUFFICES ASSUME NEW c \in refs', NEW d \in refs', c.run = d.run
               PROVE  /\ c.serial < d.serial => c.id < d.id
                      /\ c.serial = d.serial => c = d
    BY DEF OrderInv
  <2>1. ASSUME NEW x \in refs', x \notin refs
        PROVE  x.run = run /\ serial <= x.serial /\ 2 * steps < x.id
    BY <2>1 DEF Evolves, NewRef, Fresh
  <2>2. ASSUME NEW x \in refs, x.run = run
        PROVE  x.serial < serial /\ x.id <= 2 * steps /\ x.serial \in Nat /\ x.id \in Nat
    BY <1>1, <2>2 DEF PlacesInv, RefsInv, Evolves
  <2>3. CASE c \in refs /\ d \in refs
    BY <2>3 DEF PlacesInv, OrderInv
  <2>4. CASE c \notin refs /\ d \in refs
    BY <1>1, <2>1, <2>2, <2>4
  <2>5. CASE c \in refs /\ d \notin refs
    BY <1>1, <2>1, <2>2, <2>5
  <2>6. CASE c \notin refs /\ d \notin refs
    BY <2>6 DEF Evolves
  <2> QED
    BY <2>3, <2>4, <2>5, <2>6
<1> QED
  BY <1>5, <1>6, <1>7, <1>8, <1>9 DEF PlacesInv

-----------------------------------------------------------------------------
(* Steps that give the ledger nothing.                                     *)

\* What a commit does to a history.
LEMMA CommittedFacts ==
  ASSUME NEW own \in History, own.current <= Len(own.acts),
         NEW name \in Names, NEW id \in Nat
  PROVE  /\ Committed(own, name, id) \in History
         /\ Committed(own, name, id).current = own.current + 1
         /\ Committed(own, name, id).version = own.version + 1
         /\ Len(Committed(own, name, id).acts) = own.current + 1
         /\ \A i \in 1..own.current : Committed(own, name, id).acts[i] = own.acts[i]
         /\ Committed(own, name, id).acts[own.current + 1].name = name
         /\ Committed(own, name, id).acts[own.current + 1].id = id
<1> DEFINE below == SubSeq(own.acts, 1, own.current)
           act == [id |-> id, name |-> name]
<1>1. own.acts \in Seq(Action) /\ own.current \in Nat /\ own.version \in Nat
  BY DEF History
<1>2. act \in Action /\ act.id = id /\ act.name = name
  BY DEF Action
<1>3. /\ below \in Seq(Action) /\ Len(below) = own.current
      /\ \A i \in 1..own.current : below[i] = own.acts[i]
  <2>1. \A i \in 1..own.current : own.acts[i] \in Action
    BY <1>1, ElementOfSeq
  <2>2. 1 \in Int /\ own.current \in Int /\ own.current - 1 + 1 = own.current
    BY <1>1
  <2>3. CASE own.current = 0
    BY <1>1, <2>3
  <2>4. CASE own.current # 0
    BY <1>1, <2>1, <2>2, <2>4, SubSeqProperties
  <2> QED
    BY <2>3, <2>4
<1> HIDE DEF below, act
<1>4. /\ Append(below, act) \in Seq(Action) /\ Len(Append(below, act)) = own.current + 1
      /\ \A i \in 1..own.current : Append(below, act)[i] = below[i]
      /\ Append(below, act)[own.current + 1] = act
  BY <1>2, <1>3, AppendProperties
<1>5. own.current + 1 \in Nat /\ own.version + 1 \in Nat
  BY <1>1
<1>6. /\ Committed(own, name, id).acts = Append(below, act)
      /\ Committed(own, name, id).current = own.current + 1
      /\ Committed(own, name, id).version = own.version + 1
      /\ Committed(own, name, id) \in History
  BY <1>4, <1>5 DEF Committed, below, act, History
<1> QED
  BY <1>2, <1>3, <1>4, <1>6

\* A history that is cleared, opened or never used.
LEMMA ClearedFacts ==
  ASSUME NEW own \in History
  PROVE  /\ Cleared(own) \in History
         /\ Cleared(own).current = 0 /\ Cleared(own).acts = <<>>
         /\ Cleared(own).version = own.version + 1
<1>1. own.version + 1 \in Nat
  BY DEF History
<1> QED
  BY <1>1 DEF Cleared, History

\* A history before anything is committed to it, and the one of a scene just opened.
LEMMA EmptyFacts ==
  /\ Empty \in History /\ Empty.current = 0 /\ Empty.acts = <<>> /\ Empty.version = 0
  /\ Opened \in History /\ Opened.current = 0 /\ Opened.acts = <<>> /\ Opened.version = 1
<1>1. Empty \in History /\ Empty.current = 0 /\ Empty.acts = <<>> /\ Empty.version = 0
  BY DEF Empty, History
<1> HIDE DEF Empty
<1>2. /\ Opened \in History /\ Opened.current = Empty.current /\ Opened.acts = Empty.acts
      /\ Opened.version = 1
  BY <1>1 DEF Opened, History
<1> QED
  BY <1>1, <1>2

\* Both candidates are histories, and the top of one that can be undone is an action.
LEMMA CandidatesAre ==
  ASSUME TypeOK
  PROVE  /\ Candidates \subseteq Histories
         /\ \A h \in Candidates : h = kGlobalUndoHistory \/ (tab # NoScene /\ h = shown[tab])
         /\ \A h \in Histories : hist[h] \in History
         /\ \A h \in Undoable :
              /\ h \in Histories /\ hist[h].current \in 1..Len(hist[h].acts)
              /\ TopId(h) \in Nat
         /\ \A h \in Redoable :
              /\ h \in Histories /\ hist[h].current + 1 \in 1..Len(hist[h].acts)
              /\ NextRedoId(h) \in Nat
<1>1. /\ Candidates \subseteq Histories
      /\ \A h \in Candidates : h = kGlobalUndoHistory \/ (tab # NoScene /\ h = shown[tab])
  BY UndoLedgerAssumption DEF TypeOK, Candidates, Histories, kGlobalUndoHistory
<1>2. \A h \in Histories : hist[h] \in History
  BY DEF TypeOK
<1>3. ASSUME NEW h \in Undoable
      PROVE  /\ h \in Histories /\ hist[h].current \in 1..Len(hist[h].acts)
             /\ TopId(h) \in Nat
  <2>1. h \in Histories /\ hist[h].current > 0 /\ hist[h].current <= Len(hist[h].acts)
    BY <1>1 DEF Undoable, TypeOK
  <2>2. hist[h].acts \in Seq(Action) /\ hist[h].current \in Nat
    BY <1>2, <2>1 DEF History
  <2>3. hist[h].current \in 1..Len(hist[h].acts)
    BY <2>1, <2>2
  <2>4. hist[h].acts[hist[h].current] \in Action
    BY <2>2, <2>3, ElementOfSeq
  <2> QED
    BY <2>1, <2>3, <2>4 DEF TopId, Action
<1>4. ASSUME NEW h \in Redoable
      PROVE  /\ h \in Histories /\ hist[h].current + 1 \in 1..Len(hist[h].acts)
             /\ NextRedoId(h) \in Nat
  <2>1. h \in Histories /\ hist[h].current < Len(hist[h].acts)
    BY <1>1 DEF Redoable
  <2>2. hist[h].acts \in Seq(Action) /\ hist[h].current \in Nat
    BY <1>2, <2>1 DEF History
  <2>3. hist[h].current + 1 \in 1..Len(hist[h].acts)
    BY <2>1, <2>2
  <2>4. hist[h].acts[hist[h].current + 1] \in Action
    BY <2>2, <2>3, ElementOfSeq
  <2> QED
    BY <2>1, <2>3, <2>4 DEF NextRedoId, Action
<1> QED
  BY <1>1, <1>2, <1>3, <1>4

\* The editor's Undo takes the newer of the last actions, its Redo the older of the
\* next.
LEMMA NewestIs ==
  ASSUME TypeOK, Undoable # {}
  PROVE  Newest \in Undoable /\ \A g \in Undoable : TopId(Newest) >= TopId(g)
<1>1. \E h \in Undoable : \A g \in Undoable : TopId(h) >= TopId(g)
  <2>1. PICK a, b : Undoable \subseteq {a, b}
    BY DEF Undoable, Candidates
  <2>2. \A h \in Undoable : TopId(h) \in Nat
    BY CandidatesAre
  <2>3. CASE a \in Undoable /\ b \in Undoable
    <3>1. CASE TopId(a) >= TopId(b)
      BY <2>1, <2>2, <2>3, <3>1
    <3>2. CASE ~(TopId(a) >= TopId(b))
      BY <2>1, <2>2, <2>3, <3>2
    <3> QED
      BY <3>1, <3>2
  <2>4. CASE a \notin Undoable \/ b \notin Undoable
    BY <2>1, <2>2, <2>4
  <2> QED
    BY <2>3, <2>4
<1> QED
  BY <1>1 DEF Newest

\* Redo finds the oldest next action among the histories it may take.
LEMMA OldestIs ==
  ASSUME TypeOK, Redoable # {}
  PROVE  OldestRedo \in Redoable
<1>1. \E h \in Redoable : \A g \in Redoable : NextRedoId(h) <= NextRedoId(g)
  <2>1. PICK a, b : Redoable \subseteq {a, b}
    BY DEF Redoable, Candidates
  <2>2. \A h \in Redoable : NextRedoId(h) \in Nat
    BY CandidatesAre
  <2>3. CASE a \in Redoable /\ b \in Redoable
    <3>1. CASE NextRedoId(a) <= NextRedoId(b)
      BY <2>1, <2>2, <2>3, <3>1
    <3>2. CASE ~(NextRedoId(a) <= NextRedoId(b))
      BY <2>1, <2>2, <2>3, <3>2
    <3> QED
      BY <3>1, <3>2
  <2>4. CASE a \notin Redoable \/ b \notin Redoable
    BY <2>1, <2>2, <2>4
  <2> QED
    BY <2>3, <2>4
<1> QED
  BY <1>1 DEF OldestRedo

\* One history changes, what is not kept in it is a person's, and the ledger is
\* not told.
Quiet(h, after) ==
  /\ Happens
  /\ UNCHANGED <<run, commits, serial, refs>>
  /\ after \in History
  /\ hist' = [hist EXCEPT ![h] = after]
  /\ after.current <= Len(after.acts) /\ after.current <= after.version
  /\ \A i \in 1..Len(after.acts) :
       \/ /\ i \in 1..Len(hist[h].acts) /\ after.acts[i] = hist[h].acts[i]
          /\ after.version + hist[h].current = hist[h].version + after.current
       \/ after.acts[i].id = 2 * steps + 1 /\ after.acts[i].name \in PersonNames
  /\ shown' \in [Scenes -> Histories]
  /\ tab' # NoScene => tab' \in Scenes /\ shown'[tab'] # Closed
  /\ \A g \in Histories \ {kGlobalUndoHistory}, s \in Scenes :
       shown[s] = g /\ Len(hist'[g].acts) # 0 => shown'[s] = g

\* Such a step keeps the invariant.
LEMMA QuietKeeps ==
  ASSUME IndInv, NEW h \in Histories, NEW after, Quiet(h, after)
  PROVE  IndInv'
<1>1. /\ hist \in [Histories -> History] /\ hist' \in [Histories -> History]
      /\ hist'[h] = after
      /\ \A g \in Histories \ {h} : hist'[g] = hist[g]
  BY DEF IndInv, TypeOK, Quiet
<1>2. steps \in 0..MaxSteps /\ steps' \in 0..MaxSteps /\ steps' = steps + 1 /\ MaxSteps \in Nat
  BY UndoLedgerAssumption DEF IndInv, TypeOK, Quiet, Happens
<1>3. ASSUME NEW g \in Histories
      PROVE  /\ hist'[g].current <= Len(hist'[g].acts)
             /\ hist'[g].current <= hist'[g].version
             /\ \A i \in 1..Len(hist'[g].acts) :
                  \/ Kept(g, i)
                  \/ Fresh(hist'[g].acts[i].id) /\ hist'[g].acts[i].name \notin DidiNames
  <2>1. CASE g = h
    <3>1. \A i \in 1..Len(after.acts) :
            after.acts[i].id = 2 * steps + 1 => Fresh(after.acts[i].id)
      BY <1>2 DEF Fresh
    <3>2. \A x \in PersonNames : x \notin DidiNames
      BY UndoLedgerAssumption
    <3> QED
      BY <1>1, <2>1, <3>1, <3>2 DEF Quiet, Kept
  <2>2. CASE g # h
    <3>1. hist'[g] = hist[g] /\ hist[g] \in History
      BY <1>1, <2>2
    <3>2. hist[g].version \in Nat /\ hist[g].current \in Nat
      BY <3>1 DEF History
    <3> QED
      BY <3>1, <3>2 DEF IndInv, TypeOK, PlacesInv, ActsInv, Kept
  <2> QED
    BY <2>1, <2>2
<1>4. TypeOK'
  BY <1>1, <1>2, <1>3 DEF TypeOK, IndInv, Quiet
<1>5. Evolves
  <2>1. /\ refs \subseteq refs' /\ refs' \subseteq UndoCommit /\ refs' \ refs = {}
        /\ run' = run /\ serial' = serial /\ serial \in Nat
    BY DEF IndInv, TypeOK, Quiet
  <2>2. serial <= serial' /\ steps <= steps' /\ steps' \in Nat
    BY <1>2, <2>1
  <2> QED
    BY <1>1, <1>3, <2>1, <2>2 DEF Evolves, Quiet
<1>6. PlacesInv'
  BY <1>5, EvolvesKeeps DEF IndInv
<1>7. CommitsInv'
  BY DEF IndInv, CommitsInv, LastOf, Quiet
<1> QED
  BY <1>4, <1>6, <1>7 DEF IndInv

\* The tabs are left alone.
LEMMA SameTabs ==
  ASSUME TypeOK, UNCHANGED <<shown, tab>>
  PROVE  /\ shown' \in [Scenes -> Histories]
         /\ tab' # NoScene => tab' \in Scenes /\ shown'[tab'] # Closed
         /\ \A g \in Histories \ {kGlobalUndoHistory}, s \in Scenes :
              shown[s] = g /\ Len(hist'[g].acts) # 0 => shown'[s] = g
  BY DEF TypeOK

\* An undo and a redo move through the actions and change none.
LEMMA MovesKeeps ==
  ASSUME IndInv, Happens, NEW h \in Histories, NEW after \in History,
         hist' = [hist EXCEPT ![h] = after],
         after.acts = hist[h].acts,
         after.version + hist[h].current = hist[h].version + after.current,
         after.current <= Len(after.acts), after.current <= after.version,
         UNCHANGED <<shown, tab, run, commits, serial, refs>>
  PROVE  IndInv'
<1>1. TypeOK
  BY DEF IndInv
<1>2. Quiet(h, after)
  BY <1>1, SameTabs DEF Quiet
<1> QED
  BY <1>2, QuietKeeps

\* An undo, the person's or Didi's, takes the newest action back.
LEMMA UndoKeeps ==
  ASSUME IndInv, Happens, Undoable # {},
         hist' = [hist EXCEPT ![Newest] = Undone(@)],
         UNCHANGED <<shown, tab, run, commits, serial, refs>>
  PROVE  IndInv'
<1>1. PICK h \in Histories : /\ h = Newest /\ hist[h].current \in 1..Len(hist[h].acts)
                             /\ hist[h] \in History
  BY NewestIs, CandidatesAre DEF IndInv
<1>2. PICK own \in History : own = hist[h] /\ hist' = [hist EXCEPT ![h] = Undone(own)]
  BY <1>1
<1>3. /\ own.current \in Nat /\ own.version \in Nat /\ own.acts \in Seq(Action)
      /\ own.current >= 1 /\ own.current <= own.version /\ own.current <= Len(own.acts)
      /\ Len(own.acts) \in Nat
  BY <1>1, <1>2 DEF History, IndInv, PlacesInv, ActsInv
<1>4. own.current - 1 \in Nat /\ own.version - 1 \in Nat
  BY <1>3
<1>5. /\ Undone(own) \in History /\ Undone(own).acts = own.acts
      /\ Undone(own).current = own.current - 1 /\ Undone(own).version = own.version - 1
  BY <1>4 DEF Undone, History
<1>6. /\ Undone(own).version + own.current = own.version + Undone(own).current
      /\ Undone(own).current <= Len(own.acts) /\ Undone(own).current <= Undone(own).version
  BY <1>3, <1>5
<1> HIDE DEF Undone
<1> QED
  BY <1>2, <1>5, <1>6, MovesKeeps

\* A redo puts the oldest one taken back in place again.
LEMMA RedoKeeps ==
  ASSUME IndInv, EditorRedoes
  PROVE  IndInv'
<1>1. PICK h \in Histories : /\ h = OldestRedo /\ hist[h].current + 1 \in 1..Len(hist[h].acts)
                             /\ hist[h] \in History
  BY OldestIs, CandidatesAre DEF IndInv, EditorRedoes
<1>2. PICK own \in History : own = hist[h] /\ hist' = [hist EXCEPT ![h] = Redone(own)]
  BY <1>1 DEF EditorRedoes
<1>3. /\ own.current \in Nat /\ own.version \in Nat /\ own.acts \in Seq(Action)
      /\ own.current <= own.version /\ own.current + 1 <= Len(own.acts)
      /\ Len(own.acts) \in Nat
  BY <1>1, <1>2 DEF History, IndInv, PlacesInv, ActsInv
<1>4. own.current + 1 \in Nat /\ own.version + 1 \in Nat
  BY <1>3
<1>5. /\ Redone(own) \in History /\ Redone(own).acts = own.acts
      /\ Redone(own).current = own.current + 1 /\ Redone(own).version = own.version + 1
  BY <1>4 DEF Redone, History
<1>6. /\ Redone(own).version + own.current = own.version + Redone(own).current
      /\ Redone(own).current <= Len(own.acts) /\ Redone(own).current <= Redone(own).version
  BY <1>3, <1>5
<1>7. Happens /\ UNCHANGED <<shown, tab, run, commits, serial, refs>>
  BY DEF EditorRedoes
<1> HIDE DEF Redone
<1> QED
  BY <1>2, <1>5, <1>6, <1>7, MovesKeeps

\* A person's commit, a reload, and what happens to scenes.
LEMMA PersonCommitsKeeps ==
  ASSUME IndInv, PersonCommits
  PROVE  IndInv'
<1>1. PICK h \in Candidates, name \in PersonNames :
        /\ Happens
        /\ hist' = [hist EXCEPT ![h] = Committed(@, name, 2 * steps + 1)]
        /\ UNCHANGED <<shown, tab, run, commits, serial, refs>>
  BY DEF PersonCommits
<1>2. h \in Histories /\ hist[h] \in History
  BY CandidatesAre DEF IndInv
<1>11. PICK own \in History : /\ own = hist[h]
                             /\ hist' = [hist EXCEPT ![h] = Committed(own, name, 2 * steps + 1)]
  BY <1>1, <1>2
<1>12. PICK id \in Nat : id = 2 * steps + 1
  BY UndoLedgerAssumption DEF IndInv, TypeOK
<1>3. PICK after : after = Committed(own, name, id) /\ hist' = [hist EXCEPT ![h] = after]
  BY <1>11, <1>12
<1>4. /\ own.current \in Nat /\ own.version \in Nat
      /\ own.current <= Len(own.acts) /\ own.current <= own.version
      /\ own.acts \in Seq(Action) /\ Len(own.acts) \in Nat
  BY <1>2, <1>11 DEF History, IndInv, TypeOK, PlacesInv, ActsInv
<1>5. name \in Names
  BY DEF Names
<1>13. own.current <= Len(own.acts)
  BY <1>4
<1>14. /\ Committed(own, name, id) \in History
       /\ Committed(own, name, id).current = own.current + 1
       /\ Committed(own, name, id).version = own.version + 1
       /\ Len(Committed(own, name, id).acts) = own.current + 1
       /\ \A i \in 1..own.current : Committed(own, name, id).acts[i] = own.acts[i]
       /\ Committed(own, name, id).acts[own.current + 1].name = name
       /\ Committed(own, name, id).acts[own.current + 1].id = id
  BY <1>5, <1>13, CommittedFacts
<1>6. /\ after \in History /\ after.current = own.current + 1
      /\ after.version = own.version + 1 /\ Len(after.acts) = own.current + 1
      /\ \A i \in 1..own.current : after.acts[i] = own.acts[i]
      /\ after.acts[own.current + 1].name = name
      /\ after.acts[own.current + 1].id = 2 * steps + 1
  BY <1>12, <1>3, <1>14
<1>7. ASSUME NEW i \in 1..Len(after.acts)
      PROVE  \/ /\ i \in 1..Len(own.acts) /\ after.acts[i] = own.acts[i]
                /\ after.version + own.current = own.version + after.current
             \/ after.acts[i].id = 2 * steps + 1 /\ after.acts[i].name \in PersonNames
  <2>1. CASE i \in 1..own.current
    BY <1>4, <1>6, <2>1
  <2>2. CASE i = own.current + 1
    BY <1>6, <2>2
  <2> QED
    BY <1>4, <1>6, <2>1, <2>2
<1>8. after.current <= Len(after.acts) /\ after.current <= after.version
  BY <1>4, <1>6
<1>9. TypeOK
  BY DEF IndInv
<1>10. Quiet(h, after)
  BY <1>1, <1>11, <1>3, <1>6, <1>7, <1>8, <1>9, SameTabs DEF Quiet
<1> QED
  BY <1>2, <1>10, QuietKeeps

\* Reloading a scene clears its history.
LEMMA PersonReloadsKeeps ==
  ASSUME IndInv, PersonReloads
  PROVE  IndInv'
<1>1. PICK h \in Histories : /\ h = shown[tab] /\ hist[h] \in History
                             /\ hist' = [hist EXCEPT ![h] = Cleared(hist[h])]
  BY DEF IndInv, TypeOK, PersonReloads
<1>2. PICK after \in History : /\ after = Cleared(hist[h]) /\ after.current = 0
                               /\ after.acts = <<>> /\ Len(after.acts) = 0
  BY <1>1, ClearedFacts
<1>3. after.current <= Len(after.acts) /\ after.current <= after.version
      /\ \A i : i \notin 1..Len(after.acts)
  BY <1>2 DEF History
<1>4. Happens /\ UNCHANGED <<shown, tab, run, commits, serial, refs>> /\ TypeOK
  BY DEF PersonReloads, IndInv
<1>5. Quiet(h, after)
  BY <1>1, <1>2, <1>3, <1>4, SameTabs DEF Quiet
<1> QED
  BY <1>5, QuietKeeps

\* A scene opens with a history of its own that nothing refers to.
LEMMA SceneOpensKeeps ==
  ASSUME IndInv, NEW s \in Scenes, SceneOpens(s)
  PROVE  IndInv'
<1>1. PICK h \in Histories \ {kGlobalUndoHistory} :
        /\ shown' = [shown EXCEPT ![s] = h]
        /\ hist' = [hist EXCEPT ![h] = Opened]
  BY DEF SceneOpens
<1>2. Opened \in History /\ Opened.current = 0 /\ Len(Opened.acts) = 0 /\ Opened.version = 1
  BY EmptyFacts
<1> HIDE DEF Opened
<1>3. Opened.current <= Len(Opened.acts) /\ Opened.current <= Opened.version
      /\ \A i : i \notin 1..Len(Opened.acts)
  BY <1>2
<1>4. shown \in [Scenes -> Histories] /\ shown[s] = Closed
  BY DEF IndInv, TypeOK, SceneOpens
<1>5. shown' \in [Scenes -> Histories]
  BY <1>1, <1>4
<1>6. tab' = s /\ shown'[tab'] # Closed
  BY <1>1, <1>4 DEF SceneOpens, Closed, kGlobalUndoHistory
<1>7. ASSUME NEW g \in Histories \ {kGlobalUndoHistory}, NEW t \in Scenes, shown[t] = g
      PROVE  shown'[t] = g
  BY <1>1, <1>4, <1>7 DEF Closed, kGlobalUndoHistory
<1>8. Happens /\ UNCHANGED <<run, commits, serial, refs>>
  BY DEF SceneOpens
<1>9. Quiet(h, Opened)
  BY <1>1, <1>2, <1>3, <1>5, <1>6, <1>7, <1>8 DEF Quiet
<1> QED
  BY <1>9, QuietKeeps

\* A step that only moves between tabs.
LEMMA SameHistories ==
  ASSUME IndInv, Happens, UNCHANGED <<hist, shown, run, commits, serial, refs>>,
         tab' # NoScene => tab' \in Scenes /\ shown[tab'] # Closed
  PROVE  IndInv'
<1>1. kGlobalUndoHistory \in Histories
  BY UndoLedgerAssumption DEF Histories, kGlobalUndoHistory
<1>2. PICK own \in History : own = hist[kGlobalUndoHistory]
  BY <1>1 DEF IndInv, TypeOK
<1>3. /\ hist' = [hist EXCEPT ![kGlobalUndoHistory] = own]
      /\ own.current <= Len(own.acts) /\ own.current <= own.version
      /\ own.version + own.current = own.version + own.current
  BY <1>1, <1>2 DEF IndInv, TypeOK, PlacesInv, ActsInv
<1>4. Quiet(kGlobalUndoHistory, own)
  BY <1>2, <1>3 DEF Quiet, IndInv, TypeOK
<1> QED
  BY <1>1, <1>4, QuietKeeps

\* Closing a scene clears its history, so nothing in one names a closed scene.
LEMMA SceneClosesKeeps ==
  ASSUME IndInv, SceneCloses
  PROVE  IndInv'
<1>1. PICK h \in Histories : /\ h = shown[tab] /\ hist[h] \in History
                             /\ hist' = [hist EXCEPT ![h] = Cleared(hist[h])]
  BY DEF IndInv, TypeOK, SceneCloses
<1>2. PICK after \in History : /\ after = Cleared(hist[h]) /\ after.current = 0
                               /\ after.acts = <<>> /\ Len(after.acts) = 0
  BY <1>1, ClearedFacts
<1>3. after.current <= Len(after.acts) /\ after.current <= after.version
      /\ \A i : i \notin 1..Len(after.acts)
  BY <1>2 DEF History
<1>4. /\ shown \in [Scenes -> Histories] /\ tab \in Scenes /\ Closed \in Histories
      /\ shown' = [shown EXCEPT ![tab] = Closed]
  BY UndoLedgerAssumption DEF IndInv, TypeOK, SceneCloses, Closed, Histories
<1>5. shown' \in [Scenes -> Histories]
  BY <1>4
<1>6. tab' # NoScene => tab' \in Scenes /\ shown'[tab'] # Closed
  BY DEF SceneCloses
<1>7. hist \in [Histories -> History] /\ hist'[h] = after
  BY <1>1, <1>2 DEF IndInv, TypeOK
<1>8. ASSUME NEW g \in Histories \ {kGlobalUndoHistory}, NEW t \in Scenes,
             shown[t] = g, Len(hist'[g].acts) # 0
      PROVE  shown'[t] = g
  <2>1. g # h
    BY <1>2, <1>7, <1>8
  <2>2. t # tab
    BY <1>1, <1>8, <2>1
  <2> QED
    BY <1>4, <1>8, <2>2
<1>9. Happens /\ UNCHANGED <<run, commits, serial, refs>>
  BY DEF SceneCloses
<1>10. Quiet(h, after)
  BY <1>1, <1>2, <1>3, <1>5, <1>6, <1>8, <1>9 DEF Quiet
<1> QED
  BY <1>10, QuietKeeps

\* A new editor begins with no history and no commit, under a number no reference
\* has.
LEMMA EditorRestartsKeeps ==
  ASSUME IndInv, EditorRestarts
  PROVE  IndInv'
<1>1. /\ run \in Nat /\ run' \in 1..MaxRuns /\ run' = run + 1
      /\ \A r \in refs : r.run \in Nat /\ r.run <= run /\ r.run # run' /\ r.run <= run'
  <2>1. run \in Nat /\ run < MaxRuns /\ run' = run + 1 /\ MaxRuns \in Nat /\ run >= 1
    BY UndoLedgerAssumption DEF IndInv, TypeOK, EditorRestarts
  <2>2. \A r \in refs : r.run \in Nat /\ r.run <= run
    BY DEF IndInv, TypeOK, UndoCommit, PlacesInv, RefsInv
  <2> QED
    BY <2>1, <2>2
<1>2. /\ steps \in Nat /\ steps' = steps + 1 /\ steps' \in 0..MaxSteps
  BY UndoLedgerAssumption DEF IndInv, TypeOK, EditorRestarts, Happens
<1>3. /\ hist' \in [Histories -> History]
      /\ \A h \in Histories : hist'[h].current = 0 /\ Len(hist'[h].acts) = 0 /\ hist'[h].version = 0
  BY EmptyFacts DEF EditorRestarts
<1>4. commits' = <<>> /\ serial' = 1 /\ refs' = refs /\ tab' = NoScene
  BY DEF EditorRestarts
<1>5. TypeOK'
  <2>1. \A h \in Histories : hist'[h].current <= Len(hist'[h].acts)
    BY <1>3
  <2>2. shown' \in [Scenes -> Histories]
    BY UndoLedgerAssumption DEF EditorRestarts, Closed, Histories
  <2>3. commits' \in Seq(UndoCommit) /\ Len(commits') <= Capacity
    BY <1>4, UndoLedgerAssumption
  <2>4. refs' \subseteq UndoCommit /\ serial' \in Nat
    BY <1>4 DEF IndInv, TypeOK
  <2> QED
    BY <1>1, <1>2, <1>3, <1>4, <2>1, <2>2, <2>3, <2>4 DEF TypeOK
<1>6. \A h \in Histories : \A i : i \notin 1..Len(hist'[h].acts)
  BY <1>3
<1>7. ActsInv'
  BY <1>3, <1>6 DEF ActsInv
<1>8. RefsInv'
  <2>1. \A r \in refs : r.id \in Nat /\ r.id <= 2 * steps /\ r.index >= 1 /\ r.action \in DidiNames
    BY DEF IndInv, TypeOK, UndoCommit, PlacesInv, RefsInv
  <2> QED
    BY <1>1, <1>2, <1>4, <2>1 DEF RefsInv
<1>9. PlaceInv' /\ ReplacedInv'
  BY <1>1, <1>4 DEF PlaceInv, ReplacedInv
<1>10. OrderInv'
  BY <1>4 DEF OrderInv, IndInv, PlacesInv
<1>11. CommitsInv'
  BY <1>4 DEF CommitsInv, LastOf
<1> QED
  BY <1>5, <1>7, <1>8, <1>9, <1>10, <1>11 DEF IndInv, PlacesInv

-----------------------------------------------------------------------------
(* Didi's commits.                                                         *)

\* What a command of Didi's does to a history: n new actions on top of what it left
\* of the old ones, which is nothing when it reloaded the scene.
GrownBy(own, after, base, n) ==
  /\ after \in History
  /\ base \in Nat /\ n \in 1..2
  /\ after.current = base + n /\ Len(after.acts) = base + n
  /\ base <= own.current /\ after.current <= after.version
  /\ \A i \in 1..base : after.acts[i] = own.acts[i]
  /\ base # 0 => after.version + own.current = own.version + after.current
  /\ \/ own.version + n = after.version
     \/ own.version + n < after.version /\ base = 0
  /\ \A k \in 1..n :
       after.acts[base + k].name \in DidiNames /\ after.acts[base + k].id = 2 * steps + k

\* The references made of them.
MadeOf(made, h, after, base, n) ==
  /\ made \in Seq(UndoCommit) /\ Len(made) = n
  /\ \A k \in 1..n :
       /\ made[k].run = run /\ made[k].serial = (serial + k) - 1
       /\ made[k].history = h /\ made[k].scene = SceneOf(h)
       /\ made[k].index = base + k /\ made[k].version + n = after.version + k
       /\ made[k].action = after.acts[base + k].name /\ made[k].id = 2 * steps + k

\* observe finds just those commits.
LEMMA ObserveFacts ==
  ASSUME IndInv, NEW h \in Candidates, NEW after, NEW base, NEW n,
         GrownBy(hist[h], after, base, n)
  PROVE  MadeOf(observe(h, hist[h], after), h, after, base, n)
<1> DEFINE up == after.version - hist[h].version
           count == IF after.version <= hist[h].version \/ after.current = 0 THEN 0
                    ELSE IF up < after.current THEN up ELSE after.current
           Ref(k) == [run |-> run, serial |-> serial + k - 1, history |-> h,
                      scene |-> SceneOf(h), index |-> after.current - count + k,
                      version |-> after.version - count + k,
                      action |-> after.acts[after.current - count + k].name,
                      id |-> after.acts[after.current - count + k].id]
<1>1. observe(h, hist[h], after) = [k \in 1..count |-> Ref(k)]
  BY DEF observe
<1>2. /\ h \in Histories /\ hist[h] \in History
      /\ h = kGlobalUndoHistory \/ (tab # NoScene /\ h = shown[tab])
  BY CandidatesAre DEF IndInv
<1>3. /\ after.version \in Nat /\ after.current \in Nat /\ after.acts \in Seq(Action)
      /\ hist[h].version \in Nat /\ base \in Nat /\ n \in Nat /\ n >= 1
  BY <1>2 DEF History, GrownBy
<1>4. count = n
  <2>1. PICK v \in Nat, w \in Nat, c \in Nat :
          v = hist[h].version /\ w = after.version /\ c = after.current
    BY <1>3
  <2>2. c = base + n /\ (v + n = w \/ (v + n < w /\ base = 0))
    BY <2>1 DEF GrownBy
  <2>3. ~(w <= v) /\ c # 0 /\ (IF w - v < c THEN w - v ELSE c) = n
    BY <1>3, <2>1, <2>2
  <2> QED
    BY <2>1, <2>3
<1>5. after.current - count = base /\ after.current = base + n
  BY <1>3, <1>4 DEF GrownBy
<1>6. run \in Nat /\ serial \in Nat /\ steps \in Nat
  BY DEF IndInv, TypeOK
<1>7. SceneOf(h) \in Scenes \union {NoScene}
  BY <1>2 DEF SceneOf, IndInv, TypeOK
<1>8. ASSUME NEW k \in 1..n
      PROVE  /\ Ref(k) \in UndoCommit
             /\ Ref(k).run = run /\ Ref(k).serial = (serial + k) - 1
             /\ Ref(k).history = h /\ Ref(k).scene = SceneOf(h)
             /\ Ref(k).index = base + k /\ Ref(k).version + n = after.version + k
             /\ Ref(k).action = after.acts[base + k].name /\ Ref(k).id = 2 * steps + k
  <2>1. base + k \in 1..Len(after.acts)
    BY <1>3 DEF GrownBy
  <2>2. after.acts[base + k] \in Action /\ after.acts[base + k].id = 2 * steps + k
    BY <1>3, <2>1, ElementOfSeq DEF GrownBy
  <2>3. /\ serial + k - 1 \in Nat /\ base + k \in Nat
        /\ after.version - n + k \in Nat /\ (after.version - n + k) + n = after.version + k
    <3>1. n <= after.version
      BY <1>3, <1>5 DEF GrownBy
    <3> QED
      BY <1>3, <1>6, <3>1
  <2>4. PICK w, x, a, y, z :
          /\ w = serial + k - 1 /\ x = base + k /\ y = after.version - n + k
          /\ a = after.acts[base + k].name /\ z = after.acts[base + k].id
    OBVIOUS
  <2>5. Ref(k) = [run |-> run, serial |-> w, history |-> h, scene |-> SceneOf(h),
                  index |-> x, version |-> y, action |-> a, id |-> z]
    BY <1>4, <1>5, <2>4
  <2>6. /\ w \in Nat /\ x \in Nat /\ y \in Nat /\ a \in Names /\ z \in Nat
        /\ z = 2 * steps + k /\ y + n = after.version + k
    BY <2>2, <2>3, <2>4 DEF Action
  <2> HIDE DEF Ref
  <2>7. /\ Ref(k) \in UndoCommit
        /\ Ref(k).run = run /\ Ref(k).serial = w
        /\ Ref(k).history = h /\ Ref(k).scene = SceneOf(h)
        /\ Ref(k).index = x /\ Ref(k).version = y
        /\ Ref(k).action = a /\ Ref(k).id = z
    BY <1>2, <1>6, <1>7, <2>5, <2>6 DEF UndoCommit
  <2>8. w = (serial + k) - 1
    BY <1>6, <2>4
  <2> QED
    BY <2>4, <2>6, <2>7, <2>8
<1> HIDE DEF Ref, count, up
<1>9. PICK made : made = observe(h, hist[h], after) /\ made = [k \in 1..n |-> Ref(k)]
  BY <1>1, <1>4
<1>10. made \in Seq(UndoCommit)
  <2>1. made \in [1..n -> UndoCommit]
    BY <1>8, <1>9
  <2> QED
    BY <1>3, <2>1, SeqDef
<1>11. Len(made) = n
  <2>1. DOMAIN made = 1..n /\ DOMAIN made = 1..Len(made) /\ Len(made) \in Nat
    BY <1>9, <1>10, LenProperties
  <2>2. n \in 1..Len(made) /\ (Len(made) # 0 => Len(made) \in 1..n)
    BY <1>3, <2>1
  <2> QED
    BY <1>3, <2>1, <2>2
<1>12. \A k \in 1..n : made[k] = Ref(k)
  BY <1>9
<1>13. MadeOf(made, h, after, base, n)
  BY <1>8, <1>10, <1>11, <1>12 DEF MadeOf
<1> QED
  BY <1>9, <1>13

\* The commits observed go on the ledger.
LEMMA JoinedLast ==
  ASSUME IndInv, NEW made, NEW h, NEW after, NEW base, NEW n \in 1..2,
         MadeOf(made, h, after, base, n)
  PROVE  /\ commits \o made \in Seq(UndoCommit)
         /\ LastOf(commits \o made, serial + n, refs \union ToSet(made))
<1>1. /\ commits \in Seq(UndoCommit) /\ made \in Seq(UndoCommit) /\ Len(made) = n
      /\ Len(commits) \in Nat /\ n \in Nat /\ serial \in Nat
      /\ Capacity \in Nat
  BY UndoLedgerAssumption DEF IndInv, TypeOK, MadeOf
<1>2. PICK c \in Nat : c = Len(commits)
  BY <1>1
<1>3. /\ commits \o made \in Seq(UndoCommit) /\ Len(commits \o made) = c + n
      /\ \A i \in 1..c : (commits \o made)[i] = commits[i]
      /\ \A i \in 1..(c + n) : i > c => (commits \o made)[i] = made[i - c]
  <2>1. /\ commits \o made \in Seq(UndoCommit) /\ Len(commits \o made) = Len(commits) + Len(made)
        /\ \A i \in 1..(Len(commits) + Len(made)) :
             (commits \o made)[i] = IF i <= Len(commits) THEN commits[i] ELSE made[i - Len(commits)]
    BY <1>1, ConcatProperties
  <2> QED
    BY <1>1, <1>2, <2>1
<1>4. /\ c < serial /\ (c + 1 = serial \/ c >= Capacity)
      /\ \A i \in 1..c : commits[i] \in refs /\ commits[i].run = run
                          /\ commits[i].serial + c + 1 = serial + i
  BY <1>2 DEF IndInv, CommitsInv, LastOf
<1>5. c + n < serial + n /\ (c + n + 1 = serial + n \/ c + n >= Capacity)
  BY <1>1, <1>4
<1>6. ASSUME NEW i \in 1..(c + n)
      PROVE  /\ (commits \o made)[i] \in refs \union ToSet(made)
             /\ (commits \o made)[i].run = run
             /\ (commits \o made)[i].serial + (c + n) + 1 = (serial + n) + i
  <2>1. CASE i \in 1..c
    <3>1. commits[i] \in UndoCommit
      BY <1>1, <1>2, <2>1, ElementOfSeq
    <3>2. PICK x \in Nat : x = commits[i].serial
      BY <3>1 DEF UndoCommit
    <3>3. x + c + 1 = serial + i
      BY <1>4, <2>1, <3>2
    <3>4. x + (c + n) + 1 = (serial + n) + i
      BY <1>1, <3>3
    <3> QED
      BY <1>3, <1>4, <2>1, <3>2, <3>4
  <2>2. CASE i > c
    <3>1. PICK k \in 1..n : k = i - c
      BY <1>1, <2>2
    <3>2. /\ (commits \o made)[i] = made[k] /\ made[k].run = run
          /\ made[k].serial = (serial + k) - 1
      BY <1>3, <2>2, <3>1 DEF MadeOf
    <3>3. made[k] \in ToSet(made)
      BY <1>1, <3>1 DEF ToSet
    <3>4. ((serial + k) - 1) + (c + n) + 1 = (serial + n) + i
      BY <1>1, <3>1
    <3> QED
      BY <3>2, <3>3, <3>4
  <2>3. i \in 1..c \/ i > c
    BY <1>1
  <2> QED
    BY <2>1, <2>2, <2>3
<1> QED
  BY <1>3, <1>5, <1>6 DEF LastOf

\* What the ledger remembers of them are the last.
LEMMA RememberedLast ==
  ASSUME NEW s \in Seq(UndoCommit), NEW next \in Nat, NEW R, LastOf(s, next, R)
  PROVE  /\ Remembered(s) \in Seq(UndoCommit)
         /\ Len(Remembered(s)) <= Capacity
         /\ LastOf(Remembered(s), next, R)
<1>1. Capacity \in Nat /\ Capacity >= 1 /\ Len(s) \in Nat
  BY UndoLedgerAssumption
<1>2. CASE Len(s) > Capacity
  <2>1. PICK a \in Int, n \in Nat : /\ n = Len(s) /\ a = n - Capacity + 1
    BY <1>1
  <2>2. /\ a >= 1 /\ a <= n /\ n - a + 1 = Capacity /\ a + Capacity = n + 1
    BY <1>1, <1>2, <2>1
  <2>3. Remembered(s) = SubSeq(s, a, n)
    BY <1>2, <2>1 DEF Remembered
  <2>4. \A i \in a..n : s[i] \in UndoCommit
    BY <2>1, <2>2, ElementOfSeq
  <2>5. PICK r : r = SubSeq(s, a, n)
    OBVIOUS
  <2>6. /\ r \in Seq(UndoCommit) /\ Len(r) = Capacity
        /\ \A i \in 1..Capacity : r[i] = s[a + i - 1]
    BY <2>2, <2>4, <2>5, SubSeqProperties
  <2>7. ASSUME NEW i \in 1..Capacity
        PROVE  r[i] \in R /\ r[i].run = run /\ r[i].serial + Capacity + 1 = next + i
    <3>1. PICK j \in 1..n : j = a + i - 1 /\ j >= a
      BY <1>1, <2>2
    <3>2. r[i] = s[j] /\ s[j] \in UndoCommit
      BY <2>4, <2>6, <3>1
    <3>3. s[j] \in R /\ s[j].run = run /\ s[j].serial + n + 1 = next + j
      BY <2>1 DEF LastOf
    <3>4. PICK x \in Nat : x = s[j].serial
      BY <3>2 DEF UndoCommit
    <3>5. x + n + 1 = next + j
      BY <3>3, <3>4
    <3>6. x + Capacity + 1 = next + i
      BY <1>1, <2>2, <3>1, <3>5
    <3> QED
      BY <3>2, <3>3, <3>4, <3>6
  <2>8. Capacity < next
    BY <1>1, <1>2 DEF LastOf
  <2>9. Capacity <= Capacity /\ Capacity >= Capacity
    BY <1>1
  <2>10. LastOf(r, next, R)
    BY <2>6, <2>7, <2>8, <2>9 DEF LastOf
  <2> QED
    BY <2>3, <2>5, <2>6, <2>9, <2>10
<1>3. CASE ~(Len(s) > Capacity)
  BY <1>1, <1>3 DEF Remembered
<1> QED
  BY <1>2, <1>3

\* A command of Didi's keeps the invariant.
LEMMA ObservedKeeps ==
  ASSUME IndInv, Happens, NEW h \in Candidates, NEW after, NEW base, NEW n,
         GrownBy(hist[h], after, base, n), Observed(h, after)
  PROVE  IndInv'
<1>1. PICK made : /\ made = observe(h, hist[h], after)
                  /\ MadeOf(made, h, after, base, n)
  BY ObserveFacts
<1>2. /\ hist' = [hist EXCEPT ![h] = after]
      /\ commits' = Remembered(commits \o made)
      /\ serial' = serial + n
      /\ refs' = refs \union ToSet(made)
      /\ UNCHANGED <<shown, tab, run>>
  BY <1>1 DEF Observed, MadeOf
<1>3. /\ h \in Histories /\ \A g \in Histories : hist[g] \in History
      /\ h = kGlobalUndoHistory \/ (tab # NoScene /\ h = shown[tab])
  BY CandidatesAre DEF IndInv
<1>4. /\ base \in Nat /\ n \in 1..2 /\ n \in Nat /\ n >= 1 /\ n <= 2
      /\ after \in History /\ after.acts \in Seq(Action)
      /\ after.version \in Nat /\ after.current \in Nat
      /\ after.current = base + n /\ Len(after.acts) = base + n
  BY DEF GrownBy, History
<1>5. /\ steps \in Nat /\ steps' = steps + 1 /\ steps' \in 0..MaxSteps /\ steps' \in Nat
      /\ serial \in Nat /\ serial' \in Nat /\ serial <= serial'
  BY <1>2, <1>4, UndoLedgerAssumption DEF IndInv, TypeOK, Happens
<1>6. /\ hist' \in [Histories -> History] /\ hist'[h] = after
      /\ \A g \in Histories \ {h} : hist'[g] = hist[g]
  BY <1>2, <1>3, <1>4 DEF IndInv, TypeOK
<1>7. \A k \in 1..n : Fresh(2 * steps + k)
  BY <1>4, <1>5 DEF Fresh
<1>8. /\ ToSet(made) \subseteq UndoCommit
      /\ \A r \in ToSet(made) : \E k \in 1..n : r = made[k]
      /\ \A k \in 1..n : made[k] \in ToSet(made)
  <2>1. made \in Seq(UndoCommit) /\ DOMAIN made = 1..n
    BY <1>1, LenProperties DEF MadeOf
  <2>2. \A k \in 1..n : made[k] \in UndoCommit
    BY <1>1, <2>1, ElementOfSeq DEF MadeOf
  <2> QED
    BY <2>1, <2>2 DEF ToSet
\* The places of the history that changed.
<1>9. ASSUME NEW i \in 1..Len(after.acts)
      PROVE  i \in 1..base \/ \E k \in 1..n : i = base + k
  <2>1. CASE i <= base
    BY <2>1
  <2>2. CASE i > base
    <3>1. i - base \in 1..n /\ i = base + (i - base)
      BY <1>4, <2>2
    <3> QED
      BY <3>1
  <2> QED
    BY <1>4, <2>1, <2>2
<1>10. ASSUME NEW i \in 1..base
       PROVE  /\ Kept(h, i)
              /\ after.acts[i].id \in Nat /\ after.acts[i].id <= 2 * steps
  <2>1. /\ hist[h].acts \in Seq(Action) /\ hist[h].current <= Len(hist[h].acts)
        /\ hist[h].current \in Nat /\ base <= hist[h].current /\ Len(hist[h].acts) \in Nat
    BY <1>3 DEF IndInv, TypeOK, GrownBy, History
  <2>2. i \in 1..Len(hist[h].acts)
    BY <1>4, <2>1
  <2>3. after.acts[i] = hist[h].acts[i]
    BY DEF GrownBy
  <2>4. after.version + hist[h].current = hist[h].version + after.current
    BY <1>4 DEF GrownBy
  <2>5. hist[h].acts[i] \in Action /\ hist[h].acts[i].id <= 2 * steps
    BY <1>3, <2>1, <2>2, ElementOfSeq DEF IndInv, PlacesInv, ActsInv
  <2> QED
    BY <1>6, <2>2, <2>3, <2>4, <2>5 DEF Kept, Action
<1>11. ASSUME NEW k \in 1..n
       PROVE  /\ PlacedAt(made[k], h, base + k)'
              /\ after.acts[base + k].id = 2 * steps + k
              /\ after.acts[base + k].name \in DidiNames
  <2>1. /\ after.acts[base + k].id = 2 * steps + k
        /\ after.acts[base + k].name \in DidiNames
    BY DEF GrownBy
  <2>2. /\ made[k].run = run' /\ made[k].history = h /\ made[k].index = base + k
        /\ made[k].action = after.acts[base + k].name /\ made[k].id = 2 * steps + k
        /\ made[k].version + n = after.version + k
    BY <1>1, <1>2 DEF MadeOf
  <2>3. made[k].version + after.current = after.version + (base + k)
    <3>1. made[k] \in UndoCommit
      BY <1>8
    <3>2. PICK v \in Nat : v = made[k].version
      BY <3>1 DEF UndoCommit
    <3>3. PICK w \in Nat, c \in Nat : w = after.version /\ c = after.current
      BY <1>4
    <3>4. v + n = w + k /\ c = base + n
      BY <1>4, <2>2, <3>2, <3>3
    <3>5. v + c = w + (base + k)
      BY <1>4, <3>4
    <3> QED
      BY <3>2, <3>3, <3>5
  <2> QED
    BY <1>6, <2>1, <2>2, <2>3 DEF PlacedAt
\* Elsewhere nothing changed.
<1>12. ASSUME NEW g \in Histories, g # h
       PROVE  /\ hist'[g] = hist[g]
              /\ hist'[g].current <= Len(hist'[g].acts) /\ hist'[g].current <= hist'[g].version
              /\ \A i \in 1..Len(hist'[g].acts) :
                   Kept(g, i) /\ hist'[g].acts[i].id \in Nat /\ hist'[g].acts[i].id <= 2 * steps
  <2>1. hist'[g] = hist[g] /\ hist[g] \in History
    BY <1>3, <1>6, <1>12
  <2>2. hist[g].version \in Nat /\ hist[g].current \in Nat /\ hist[g].acts \in Seq(Action)
    BY <2>1 DEF History
  <2>3. /\ hist[g].current <= Len(hist[g].acts) /\ hist[g].current <= hist[g].version
        /\ \A i \in 1..Len(hist[g].acts) : hist[g].acts[i].id <= 2 * steps
    BY DEF IndInv, TypeOK, PlacesInv, ActsInv
  <2>4. \A i \in 1..Len(hist[g].acts) : hist[g].acts[i].id \in Nat
    <3>1. \A i \in 1..Len(hist[g].acts) : hist[g].acts[i] \in Action
      BY <2>2, ElementOfSeq
    <3> QED
      BY <3>1 DEF Action
  <2>5. hist'[g].version + hist[g].current = hist[g].version + hist'[g].current
    BY <2>1, <2>2
  <2> QED
    BY <2>1, <2>3, <2>4, <2>5 DEF Kept
<1>13. TypeOK'
  <2>1. \A g \in Histories : hist'[g].current <= Len(hist'[g].acts)
    <3>1. after.current <= Len(after.acts)
      BY <1>4
    <3> QED
      BY <1>6, <1>12, <3>1
  <2>2. commits' \in Seq(UndoCommit) /\ Len(commits') <= Capacity
    BY <1>1, <1>2, <1>4, <1>5, JoinedLast, RememberedLast
  <2>3. refs' \subseteq UndoCommit
    BY <1>2, <1>8 DEF IndInv, TypeOK
  <2> QED
    BY <1>2, <1>5, <1>6, <2>1, <2>2, <2>3 DEF TypeOK, IndInv
<1>14. CommitsInv'
  <2>1. /\ commits \o made \in Seq(UndoCommit)
        /\ LastOf(commits \o made, serial + n, refs \union ToSet(made))
    BY <1>1, <1>4, JoinedLast
  <2>2. LastOf(commits', serial', refs')
    BY <1>2, <1>5, <2>1, RememberedLast
  <2> QED
    BY <1>2, <2>2 DEF CommitsInv, LastOf
<1>15. ASSUME NEW k \in 1..n
       PROVE  NewRef(made[k])
  <2>1. /\ made[k].run = run /\ made[k].serial = (serial + k) - 1 /\ made[k].history = h
        /\ made[k].index = base + k /\ made[k].id = 2 * steps + k
        /\ made[k].action = after.acts[base + k].name /\ made[k].scene = SceneOf(h)
        /\ made[k].version + n = after.version + k
    BY <1>1 DEF MadeOf
  <2>2. /\ made[k].index >= 1 /\ made[k].action \in DidiNames /\ Fresh(made[k].id)
        /\ serial <= made[k].serial /\ made[k].serial < serial'
    <3>1. base + k >= 1 /\ serial <= (serial + k) - 1 /\ (serial + k) - 1 < serial + n
      BY <1>4, <1>5
    <3> QED
      BY <1>2, <1>7, <1>11, <2>1, <3>1
  <2>3. ASSUME NEW g \in Histories, NEW i \in 1..Len(hist'[g].acts),
               hist'[g].acts[i].id = made[k].id
        PROVE  /\ PlacedAt(made[k], g, i)'
               /\ g # kGlobalUndoHistory => made[k].scene \in Scenes /\ shown'[made[k].scene] = g
    <3>1. ~(2 * steps + k <= 2 * steps)
      BY <1>4, <1>5
    <3>2. g = h
      BY <1>12, <2>1, <2>3, <3>1
    <3>3. i \in 1..Len(after.acts) /\ i \notin 1..base
      BY <1>6, <1>10, <2>1, <2>3, <3>1, <3>2
    <3>4. PICK j \in 1..n : i = base + j
      BY <1>9, <3>3
    <3>5. j = k
      <4>1. 2 * steps + j = 2 * steps + k
        BY <1>6, <1>11, <2>1, <2>3, <3>2, <3>4
      <4> QED
        BY <1>4, <1>5, <4>1
    <3>6. h # kGlobalUndoHistory => SceneOf(h) \in Scenes /\ shown'[SceneOf(h)] = h
      BY <1>2, <1>3 DEF SceneOf, IndInv, TypeOK
    <3> QED
      BY <1>11, <2>1, <3>2, <3>4, <3>5, <3>6
  <2>4. ASSUME NEW i \in 1..Len(hist'[h].acts), Kept(h, i)
        PROVE  hist'[h].version + i < made[k].version + hist'[h].current
    <3>1. /\ i \in 1..Len(hist[h].acts) /\ hist'[h].acts[i] = hist[h].acts[i]
          /\ i \in 1..Len(after.acts)
      BY <1>6, <2>4 DEF Kept
    <3>2. hist[h].acts[i].id <= 2 * steps
      BY <1>3, <3>1 DEF IndInv, PlacesInv, ActsInv
    <3>3. i \in 1..base
      <4> SUFFICES ASSUME i \notin 1..base PROVE FALSE
        OBVIOUS
      <4>1. PICK j \in 1..n : i = base + j
        BY <1>9, <3>1
      <4>2. 2 * steps + j <= 2 * steps
        BY <1>6, <1>11, <3>1, <3>2, <4>1
      <4> QED
        BY <1>4, <1>5, <4>2
    <3>4. made[k].version + after.current = after.version + (base + k)
      BY <1>6, <1>11, <2>1 DEF PlacedAt
    <3>5. after.version + i < after.version + (base + k)
      BY <1>4, <3>3
    <3> QED
      BY <1>6, <3>4, <3>5
  <2> QED
    BY <2>1, <2>2, <2>3, <2>4 DEF NewRef
<1>16. Evolves
  <2>1. /\ run' = run /\ refs \subseteq refs' /\ refs' \subseteq UndoCommit /\ steps <= steps'
    BY <1>2, <1>5, <1>13 DEF TypeOK
  <2>2. ASSUME NEW g \in Histories
        PROVE  /\ hist'[g].current <= hist'[g].version
               /\ \A i \in 1..Len(hist'[g].acts) :
                    \/ Kept(g, i)
                    \/ /\ Fresh(hist'[g].acts[i].id)
                       /\ hist'[g].acts[i].name \in DidiNames =>
                            \E r \in refs' : PlacedAt(r, g, i)'
    <3>1. CASE g # h
      BY <1>12, <3>1
    <3>2. CASE g = h
      <4>1. after.current <= after.version
        BY DEF GrownBy
      <4>2. ASSUME NEW k \in 1..n
            PROVE  /\ Fresh(after.acts[base + k].id)
                   /\ \E r \in refs' : PlacedAt(r, h, base + k)'
        BY <1>2, <1>7, <1>8, <1>11
      <4>3. ASSUME NEW i \in 1..Len(after.acts)
            PROVE  \/ Kept(h, i)
                   \/ Fresh(after.acts[i].id) /\ \E r \in refs' : PlacedAt(r, h, i)'
        BY <1>9, <1>10, <4>2
      <4> QED
        BY <1>6, <3>2, <4>1, <4>3
    <3> QED
      BY <3>1, <3>2
  <2>3. \A r \in refs' \ refs : NewRef(r)
    BY <1>2, <1>8, <1>15
  <2>4. ASSUME NEW c \in refs' \ refs, NEW d \in refs' \ refs
        PROVE  /\ c.serial < d.serial => c.id < d.id /\ c.version < d.version
               /\ c.serial = d.serial => c = d
    <3>1. PICK j \in 1..n, k \in 1..n : c = made[j] /\ d = made[k]
      BY <1>2, <1>8
    <3>2. /\ c.serial = (serial + j) - 1 /\ c.id = 2 * steps + j
          /\ c.version + n = after.version + j
          /\ d.serial = (serial + k) - 1 /\ d.id = 2 * steps + k
          /\ d.version + n = after.version + k
      BY <1>1, <3>1 DEF MadeOf
    <3>3. c.version \in Nat /\ d.version \in Nat
      BY <2>1 DEF UndoCommit
    <3>4. PICK v \in Nat, w \in Nat : v = c.version /\ w = d.version
      BY <3>3
    <3>5. /\ (serial + j) - 1 < (serial + k) - 1 => j < k
          /\ (serial + j) - 1 = (serial + k) - 1 => j = k
      BY <1>4, <1>5
    <3>6. j < k => 2 * steps + j < 2 * steps + k /\ v < w
      <4>1. PICK u \in Nat : u = after.version
        BY <1>4
      <4>2. v + n = u + j /\ w + n = u + k
        BY <3>2, <3>4, <4>1
      <4>3. j < k => v < w
        BY <1>4, <4>2
      <4>4. j < k => 2 * steps + j < 2 * steps + k
        BY <1>4, <1>5
      <4> QED
        BY <4>3, <4>4
    <3> QED
      BY <3>1, <3>2, <3>4, <3>5, <3>6
  <2>5. \A g \in Histories \ {kGlobalUndoHistory}, t \in Scenes :
          shown[t] = g /\ Len(hist'[g].acts) # 0 => shown'[t] = g
    BY <1>2
  <2> QED
    BY <1>5, <1>6, <2>1, <2>2, <2>3, <2>4, <2>5 DEF Evolves
<1>17. PlacesInv'
  BY <1>16, EvolvesKeeps DEF IndInv
<1> QED
  BY <1>13, <1>14, <1>17 DEF IndInv

\* A live edit, a command that commits two, and one that reloads the scene first.
LEMMA DidiCommitsKeeps ==
  ASSUME IndInv, DidiCommits
  PROVE  IndInv'
<1>1. PICK h \in Candidates, name \in DidiNames :
        Happens /\ Observed(h, Committed(hist[h], name, 2 * steps + 1))
  BY DEF DidiCommits
<1>2. h \in Histories /\ hist[h] \in History
  BY CandidatesAre DEF IndInv
<1>3. PICK own \in History, id \in Nat : own = hist[h] /\ id = 2 * steps + 1
  BY <1>2 DEF IndInv, TypeOK
<1>4. /\ own.current \in Nat /\ own.version \in Nat
      /\ own.current <= Len(own.acts) /\ own.current <= own.version
  BY <1>2, <1>3 DEF History, IndInv, TypeOK, PlacesInv, ActsInv
<1>5. name \in Names
  BY DEF Names
<1>6. PICK after : after = Committed(own, name, id)
  OBVIOUS
<1>7. /\ after \in History
      /\ after.current = own.current + 1 /\ after.version = own.version + 1
      /\ Len(after.acts) = own.current + 1
      /\ \A i \in 1..own.current : after.acts[i] = own.acts[i]
      /\ after.acts[own.current + 1].name = name
      /\ after.acts[own.current + 1].id = id
  BY <1>4, <1>5, <1>6, CommittedFacts
<1>8. GrownBy(own, after, own.current, 1)
  <2>1. \A k \in 1..1 : k = 1
    OBVIOUS
  <2>2. /\ own.current <= own.current /\ after.current <= after.version /\ 1 \in 1..2
        /\ after.version + own.current = own.version + after.current
        /\ own.version + 1 = after.version
    BY <1>4, <1>7
  <2> QED
    BY <1>3, <1>4, <1>7, <2>1, <2>2 DEF GrownBy
<1> QED
  BY <1>1, <1>3, <1>6, <1>8, ObservedKeeps

\* A call that commits two actions gives both their references.
LEMMA DidiCommitsTwiceKeeps ==
  ASSUME IndInv, DidiCommitsTwice
  PROVE  IndInv'
<1>1. PICK h \in Candidates, name \in DidiNames, name2 \in DidiNames :
        /\ Happens
        /\ Observed(h, Committed(Committed(hist[h], name, 2 * steps + 1), name2, 2 * steps + 2))
  BY DEF DidiCommitsTwice
<1>2. h \in Histories /\ hist[h] \in History
  BY CandidatesAre DEF IndInv
<1>3. PICK own \in History, id \in Nat, id2 \in Nat :
        own = hist[h] /\ id = 2 * steps + 1 /\ id2 = 2 * steps + 2
  BY <1>2 DEF IndInv, TypeOK
<1>4. /\ own.current \in Nat /\ own.version \in Nat
      /\ own.current <= Len(own.acts) /\ own.current <= own.version
  BY <1>2, <1>3 DEF History, IndInv, TypeOK, PlacesInv, ActsInv
<1>5. name \in Names /\ name2 \in Names
  BY DEF Names
<1>6. PICK one : one = Committed(own, name, id)
  OBVIOUS
<1>7. /\ one \in History
      /\ one.current = own.current + 1 /\ one.version = own.version + 1
      /\ Len(one.acts) = own.current + 1
      /\ \A i \in 1..own.current : one.acts[i] = own.acts[i]
      /\ one.acts[own.current + 1].name = name
      /\ one.acts[own.current + 1].id = id
  BY <1>4, <1>5, <1>6, CommittedFacts
<1>8. PICK after : after = Committed(one, name2, id2)
  OBVIOUS
<1>9. /\ after \in History
      /\ after.current = one.current + 1 /\ after.version = one.version + 1
      /\ Len(after.acts) = one.current + 1
      /\ \A i \in 1..one.current : after.acts[i] = one.acts[i]
      /\ after.acts[one.current + 1].name = name2
      /\ after.acts[one.current + 1].id = id2
  <2>1. one.current <= Len(one.acts)
    BY <1>4, <1>7
  <2> QED
    BY <1>5, <1>7, <1>8, <2>1, CommittedFacts
<1>10. PICK c \in Nat, v \in Nat : c = own.current /\ v = own.version
  BY <1>4
<1>11. /\ after.current = c + 2 /\ after.version = v + 2 /\ Len(after.acts) = c + 2
       /\ \A i \in 1..c : after.acts[i] = own.acts[i]
       /\ after.acts[c + 1].name = name /\ after.acts[c + 1].id = id
       /\ after.acts[c + 2].name = name2 /\ after.acts[c + 2].id = id2
  <2>1. one.current = c + 1 /\ (c + 1) + 1 = c + 2 /\ (v + 1) + 1 = v + 2
    BY <1>7, <1>10
  <2>2. \A i \in 1..c : i \in 1..(c + 1)
    OBVIOUS
  <2>3. c + 1 \in 1..(c + 1)
    OBVIOUS
  <2> QED
    BY <1>7, <1>9, <1>10, <2>1, <2>2, <2>3
<1>12. GrownBy(own, after, c, 2)
  <2>1. ASSUME NEW k \in 1..2
        PROVE  after.acts[c + k].name \in DidiNames /\ after.acts[c + k].id = 2 * steps + k
    <3>1. k = 1 \/ k = 2
      OBVIOUS
    <3> QED
      BY <1>3, <1>11, <3>1
  <2>2. /\ c <= own.current /\ after.current <= after.version /\ 2 \in 1..2
        /\ after.version + own.current = own.version + after.current
        /\ own.version + 2 = after.version
    <3>1. c <= v
      BY <1>4, <1>10
    <3>2. c <= c /\ c + 2 <= v + 2 /\ (v + 2) + c = v + (c + 2)
      BY <3>1
    <3> QED
      BY <1>10, <1>11, <3>2
  <2> QED
    BY <1>9, <1>10, <1>11, <2>1, <2>2 DEF GrownBy
<1> QED
  BY <1>1, <1>3, <1>6, <1>8, <1>12, ObservedKeeps

\* Didi's reload clears the history and commits one action to it.
LEMMA DidiReloadsKeeps ==
  ASSUME IndInv, DidiReloads
  PROVE  IndInv'
<1>1. PICK name \in DidiNames :
        /\ Happens /\ tab # NoScene
        /\ Observed(shown[tab], Committed(Cleared(hist[shown[tab]]), name, 2 * steps + 1))
  BY DEF DidiReloads
<1>2. PICK h \in Candidates : h = shown[tab]
  BY <1>1 DEF Candidates
<1>3. h \in Histories /\ hist[h] \in History
  BY CandidatesAre DEF IndInv
<1>4. PICK own \in History, id \in Nat : own = hist[h] /\ id = 2 * steps + 1
  BY <1>3 DEF IndInv, TypeOK
<1>5. PICK none \in History : /\ none = Cleared(own) /\ none.current = 0 /\ Len(none.acts) = 0
                              /\ none.version = own.version + 1
  BY ClearedFacts
<1>6. name \in Names
  BY DEF Names
<1>7. PICK after : after = Committed(none, name, id)
  OBVIOUS
<1>8. /\ after \in History
      /\ after.current = none.current + 1 /\ after.version = none.version + 1
      /\ Len(after.acts) = none.current + 1
      /\ after.acts[none.current + 1].name = name
      /\ after.acts[none.current + 1].id = id
  <2>1. none.current <= Len(none.acts)
    BY <1>5
  <2> QED
    BY <1>6, <1>7, <2>1, CommittedFacts
<1>9. PICK v \in Nat, c \in Nat : v = own.version /\ c = own.current
  BY DEF History
<1>10. /\ after.current = 0 + 1 /\ after.version = v + 2 /\ Len(after.acts) = 0 + 1
       /\ after.acts[0 + 1].name = name /\ after.acts[0 + 1].id = id
  BY <1>5, <1>8, <1>9
<1>11. GrownBy(own, after, 0, 1)
  <2>1. \A k \in 1..1 : k = 1
    OBVIOUS
  <2>2. /\ 0 <= own.current /\ after.current <= after.version /\ 1 \in 1..2
        /\ own.version + 1 < after.version
    BY <1>9, <1>10
  <2> QED
    BY <1>4, <1>8, <1>10, <2>1, <2>2 DEF GrownBy
<1> QED
  BY <1>1, <1>2, <1>4, <1>5, <1>7, <1>11, ObservedKeeps

-----------------------------------------------------------------------------
(* The theorems.                                                           *)

\* Available is only said of a reference into a history that can be undone.
LEMMA AvailableIsUndoable ==
  ASSUME IndInv, NEW ref \in refs, judgeUndoReference(ref) = "available"
  PROVE  ref.history \in Undoable
<1>1. ref.run = run /\ ref.history \in Candidates
  BY DEF judgeUndoReference, evaluate, ThisRun
<1>2. hist[ref.history].current = ref.index
  <2>1. ~(hist[ref.history].current < ref.index) /\ ~(hist[ref.history].current > ref.index)
    BY <1>1 DEF judgeUndoReference, evaluate, ThisRun
  <2>2. hist[ref.history] \in History
    BY <1>1, CandidatesAre DEF IndInv
  <2>3. hist[ref.history].current \in Nat /\ ref.index \in Nat
    BY <2>2 DEF History, IndInv, TypeOK, UndoCommit
  <2> QED
    BY <2>1, <2>3
<1>3. ref.index > 0
  BY DEF IndInv, PlacesInv, RefsInv, TypeOK, UndoCommit
<1> QED
  BY <1>1, <1>2, <1>3 DEF Undoable

\* The editor has just started.
LEMMA InitHolds == Init => IndInv
<1> SUFFICES ASSUME Init PROVE IndInv
  OBVIOUS
<1>1. /\ hist \in [Histories -> History]
      /\ \A h \in Histories : hist[h].current = 0 /\ Len(hist[h].acts) = 0 /\ hist[h].version \in Nat
  BY EmptyFacts DEF Init
<1>2. \A h \in Histories : /\ hist[h].current <= Len(hist[h].acts)
                           /\ hist[h].current <= hist[h].version
                           /\ \A i : i \notin 1..Len(hist[h].acts)
  BY <1>1
<1>3. TypeOK
  <2>1. shown \in [Scenes -> Histories] /\ (tab # NoScene => tab \in Scenes /\ shown[tab] # Closed)
    BY UndoLedgerAssumption DEF Init, Closed, Histories
  <2>2. run \in 1..MaxRuns /\ serial \in Nat /\ steps \in 0..MaxSteps
    BY UndoLedgerAssumption DEF Init
  <2>3. commits \in Seq(UndoCommit) /\ Len(commits) <= Capacity /\ refs \subseteq UndoCommit
    BY UndoLedgerAssumption DEF Init
  <2> QED
    BY <1>1, <1>2, <2>1, <2>2, <2>3 DEF TypeOK
<1>4. PlacesInv
  BY <1>2 DEF Init, PlacesInv, ActsInv, RefsInv, PlaceInv, ReplacedInv, OrderInv
<1>5. CommitsInv
  BY DEF Init, CommitsInv, LastOf
<1> QED
  BY <1>3, <1>4, <1>5 DEF IndInv

\* Every step keeps the invariant.
LEMMA NextKeeps == IndInv /\ [Next]_vars => IndInv'
<1> SUFFICES ASSUME IndInv, [Next]_vars PROVE IndInv'
  OBVIOUS
<1>1. CASE UNCHANGED vars
  BY <1>1 DEF vars, IndInv, TypeOK, PlacesInv, ActsInv, RefsInv, PlaceInv, ReplacedInv,
              OrderInv, CommitsInv, LastOf, PlacedAt
<1>2. CASE DidiCommits
  BY <1>2, DidiCommitsKeeps
<1>3. CASE DidiCommitsTwice
  BY <1>3, DidiCommitsTwiceKeeps
<1>4. CASE DidiReloads
  BY <1>4, DidiReloadsKeeps
<1>5. CASE \E ref \in refs : undoReferencedAction(ref)
  <2>1. PICK ref \in refs : undoReferencedAction(ref)
    BY <1>5
  <2>2. Undoable # {}
    BY <2>1, AvailableIsUndoable DEF undoReferencedAction
  <2> QED
    BY <2>1, <2>2, UndoKeeps DEF undoReferencedAction
<1>6. CASE EditorUndoes
  BY <1>6, UndoKeeps DEF EditorUndoes
<1>7. CASE EditorRedoes
  BY <1>7, RedoKeeps
<1>8. CASE PersonCommits
  BY <1>8, PersonCommitsKeeps
<1>9. CASE PersonReloads
  BY <1>9, PersonReloadsKeeps
<1>10. CASE \E s \in Scenes : SceneOpens(s)
  BY <1>10, SceneOpensKeeps
<1>11. CASE \E s \in Scenes : TabSwitches(s)
  BY <1>11, SameHistories DEF TabSwitches
<1>12. CASE SceneCloses
  BY <1>12, SceneClosesKeeps
<1>13. CASE EditorRestarts
  BY <1>13, EditorRestartsKeeps
<1> QED
  BY <1>1, <1>2, <1>3, <1>4, <1>5, <1>6, <1>7, <1>8, <1>9, <1>10, <1>11, <1>12, <1>13
  DEF Next

\* The invariant holds in every state of the editor and the ledger.
THEOREM LedgerInvariant == Spec => []IndInv
  BY InitHolds, NextKeeps, PTL DEF Spec

\* The histories, the ledger and the references hold what the code declares them to
\* hold, and the ledger no more than its capacity.
THEOREM TypeCorrect == Spec => []TypeOK
<1>1. IndInv => TypeOK
  BY DEF IndInv
<1> QED
  BY <1>1, LedgerInvariant, PTL

-----------------------------------------------------------------------------
(* What is said of a reference.                                            *)

\* The ledger holds every commit from its oldest on.
LEMMA InLedger ==
  ASSUME IndInv, NEW r \in refs, r.run = run, Len(commits) + r.serial >= serial
  PROVE  \E j \in DOMAIN commits : /\ commits[j] = r
                                   /\ j + serial = r.serial + Len(commits) + 1
<1>1. /\ serial \in Nat /\ Len(commits) \in Nat /\ r.serial \in Nat /\ r.serial < serial
      /\ DOMAIN commits = 1..Len(commits)
  BY DEF IndInv, TypeOK, UndoCommit, PlacesInv, RefsInv
<1>2. PICK n \in Nat, x \in Nat : n = Len(commits) /\ x = r.serial
  BY <1>1
<1>3. n + x >= serial /\ x < serial
  BY <1>1, <1>2
<1>4. (x + n + 1) - serial \in 1..n
  BY <1>1, <1>3
<1>5. PICK j \in 1..n : j = (x + n + 1) - serial
  BY <1>4
<1>6. /\ commits[j] \in refs /\ commits[j].run = run
      /\ commits[j].serial + n + 1 = serial + j
  BY <1>2 DEF IndInv, CommitsInv, LastOf
<1>7. PICK y \in Nat : y = commits[j].serial /\ y + n + 1 = serial + j
  BY <1>6 DEF IndInv, TypeOK, UndoCommit
<1>8. y = x /\ j + serial = x + n + 1
  BY <1>1, <1>5, <1>7
<1>9. commits[j] = r
  BY <1>2, <1>6, <1>7, <1>8 DEF IndInv, PlacesInv, OrderInv
<1> QED
  BY <1>1, <1>2, <1>8, <1>9

\* While the editor runs, an action of Didi's whose place, version and name are the
\* reference's is the very one it names, or a later one, and then the ledger would
\* know unless too many came since.
LEMMA Identity ==
  ASSUME IndInv, NEW ref \in refs, ref.run = run, Recent(ref),
         ref.index <= Len(hist[ref.history].acts),
         ref.version + hist[ref.history].current = hist[ref.history].version + ref.index,
         hist[ref.history].acts[ref.index].name = ref.action,
         ~replacedLater(ref)
  PROVE  ref.index \in Places(ref)
<1> DEFINE h == ref.history
           i == ref.index
<1>1. /\ ref \in UndoCommit /\ h \in Histories /\ i \in Nat /\ i >= 1 /\ ref.serial \in Nat
      /\ ref.version \in Nat /\ ref.action \in DidiNames /\ ref.id \in Nat
  BY DEF IndInv, TypeOK, UndoCommit, PlacesInv, RefsInv
<1>2. /\ hist[h] \in History /\ hist[h].acts \in Seq(Action) /\ Len(hist[h].acts) \in Nat
      /\ hist[h].current \in Nat /\ hist[h].version \in Nat
  BY <1>1 DEF IndInv, TypeOK, History
<1>3. i \in 1..Len(hist[h].acts) /\ DOMAIN hist[h].acts = 1..Len(hist[h].acts)
  BY <1>1, <1>2
<1>4. PICK r \in refs : PlacedAt(r, h, i)
  BY <1>1, <1>3 DEF IndInv, PlacesInv, ActsInv
<1>5. /\ r.run = run /\ r.history = h /\ r.id = hist[h].acts[i].id
      /\ r.version + hist[h].current = hist[h].version + i
      /\ r.serial \in Nat /\ r.version \in Nat
  BY <1>4 DEF PlacedAt, IndInv, TypeOK, UndoCommit
<1>6. r.version = ref.version
  <2>1. PICK v \in Nat, w \in Nat, c \in Nat, u \in Nat :
          /\ v = r.version /\ w = ref.version /\ c = hist[h].current
          /\ u = hist[h].version + i /\ v + c = u /\ w + c = u
    <3>1. hist[h].version + i \in Nat
      BY <1>1, <1>2
    <3> QED
      BY <1>1, <1>2, <1>5, <3>1
  <2>2. v = w
    BY <2>1
  <2> QED
    BY <2>1, <2>2
<1>7. ~(r.serial < ref.serial)
  BY <1>3, <1>5, <1>6, <1>1 DEF IndInv, PlacesInv, ReplacedInv
<1>8. ~(ref.serial < r.serial)
  <2> SUFFICES ASSUME ref.serial < r.serial PROVE FALSE
    OBVIOUS
  <2>1. /\ serial \in Nat /\ Len(commits) \in Nat /\ Capacity \in Nat
        /\ r.serial < serial /\ serial <= ref.serial + Capacity + 1
        /\ Len(commits) < serial /\ (Len(commits) + 1 = serial \/ Len(commits) >= Capacity)
    BY <1>5, UndoLedgerAssumption
    DEF IndInv, TypeOK, PlacesInv, RefsInv, Recent, CommitsInv, LastOf
  <2>2. Len(commits) + r.serial >= serial
    <3>1. PICK n \in Nat, x \in Nat, y \in Nat :
            n = Len(commits) /\ x = r.serial /\ y = ref.serial
      BY <1>1, <1>5, <2>1
    <3>2. y < x /\ x < serial /\ serial <= y + Capacity + 1 /\ (n + 1 = serial \/ n >= Capacity)
      BY <2>1, <3>1
    <3>3. n + x >= serial
      BY <2>1, <3>2
    <3> QED
      BY <3>1, <3>3
  <2>3. PICK j \in DOMAIN commits : commits[j] = r
    BY <1>5, <2>2, InLedger
  <2>4. r.version <= ref.version
    BY <1>1, <1>6
  <2> QED
    BY <1>5, <2>3, <2>4 DEF replacedLater
<1>9. r = ref
  <2>1. r.serial = ref.serial
    BY <1>1, <1>5, <1>7, <1>8
  <2> QED
    BY <1>5, <2>1 DEF IndInv, PlacesInv, OrderInv
<1> QED
  BY <1>3, <1>5, <1>9 DEF Places

\* A set of numbers up to n that is not empty has a largest.
LEMMA LargestNumber ==
  ASSUME NEW n \in Nat, NEW S \in SUBSET (1..n), S # {}
  PROVE  \E x \in S : \A y \in S : x >= y
<1> DEFINE T == {k \in Nat : n - k \in S}
<1>1. T # {}
  <2>1. PICK x \in S : TRUE
    OBVIOUS
  <2>2. n - x \in Nat /\ n - (n - x) = x
    OBVIOUS
  <2> QED
    BY <2>1, <2>2
<1>2. IsWellFoundedOn(OpToRel(<, Nat), Nat)
  BY NatLessThanWellFounded
<1>3. PICK k \in T : \A y \in T : ~(<<y, k>> \in OpToRel(<, Nat))
  BY <1>1, <1>2, WFMin
<1>4. \A y \in T : ~(y < k)
  BY <1>3 DEF OpToRel
<1>5. ASSUME NEW y \in S PROVE n - k >= y
  <2>1. n - y \in Nat /\ n - (n - y) = y
    OBVIOUS
  <2>2. n - y \in T
    BY <2>1
  <2>3. ~(n - y < k)
    BY <1>4, <2>2
  <2> QED
    BY <2>1, <2>3
<1> QED
  BY <1>5

\* The newest remembered commit that matches the last action of a history is that
\* action's; where none matches, no remembered commit is.
LEMMA TopIs ==
  ASSUME IndInv, NEW h \in Undoable
  PROVE  \/ topOf(h) = <<>> /\ \A r \in ToSet(commits) : r.id # TopId(h)
         \/ \E c \in refs : /\ topOf(h) = <<c>>
                            /\ c.run = run /\ c.history = h /\ c.id = TopId(h)
<1> DEFINE tops == {i \in DOMAIN commits :
                      /\ commits[i].history = h
                      /\ commits[i].index = hist[h].current
                      /\ commits[i].version = hist[h].version
                      /\ commits[i].action = hist[h].acts[hist[h].current].name}
           last == CHOOSE i \in tops : \A j \in tops : i >= j
<1>1. topOf(h) = IF tops = {} THEN <<>> ELSE <<commits[last]>>
  BY DEF topOf
<1>2. /\ h \in Histories /\ hist[h] \in History
      /\ hist[h].current \in 1..Len(hist[h].acts)
  BY CandidatesAre DEF IndInv
<1>3. PICK i \in Nat, v \in Nat : i = hist[h].current /\ v = hist[h].version
  BY <1>2 DEF History
<1>4. i \in 1..Len(hist[h].acts) /\ TopId(h) = hist[h].acts[i].id
  BY <1>2, <1>3 DEF TopId
<1>5. ASSUME NEW r \in refs, PlacedAt(r, h, i)
      PROVE  /\ r.run = run /\ r.history = h /\ r.index = i /\ r.version = v
             /\ r.id = TopId(h) /\ r.action = hist[h].acts[i].name
  <2>1. PICK w \in Nat : w = r.version
    BY DEF IndInv, TypeOK, UndoCommit
  <2>2. w + i = v + i
    BY <1>3, <1>5, <2>1 DEF PlacedAt
  <2>3. w = v
    BY <2>2
  <2> QED
    BY <1>4, <1>5, <2>1, <2>3 DEF PlacedAt
<1>6. /\ DOMAIN commits = 1..Len(commits) /\ Len(commits) \in Nat
      /\ \A j \in DOMAIN commits : commits[j] \in refs /\ commits[j].run = run
  BY DEF IndInv, TypeOK, CommitsInv, LastOf
<1>7. CASE tops = {}
  <2>1. ASSUME NEW r \in ToSet(commits), r.id = TopId(h)
        PROVE  FALSE
    <3>1. PICK j \in DOMAIN commits : r = commits[j]
      BY DEF ToSet
    <3>2. r \in refs /\ r.run = run
      BY <1>6, <3>1
    <3>3. PlacedAt(r, h, i)
      BY <1>2, <1>4, <2>1, <3>2 DEF IndInv, PlacesInv, PlaceInv
    <3>4. j \in tops
      BY <1>3, <1>5, <3>1, <3>2, <3>3
    <3> QED
      BY <1>7, <3>4
  <2> QED
    BY <1>1, <1>7, <2>1
<1>8. CASE tops # {}
  <2>1. last \in tops /\ \A j \in tops : last >= j
    <3>1. \E x \in tops : \A y \in tops : x >= y
      BY <1>6, <1>8, LargestNumber
    <3> QED
      BY <3>1
  <2>2. PICK k \in 1..Len(commits) : k = last
    BY <1>6, <2>1
  <2>3. PICK c \in refs : c = commits[k] /\ c.run = run
    BY <1>6
  <2>4. /\ c.history = h /\ c.index = i /\ c.version = v /\ c.action = hist[h].acts[i].name
    BY <1>3, <2>1, <2>2, <2>3
  <2>5. \A j \in tops : k >= j
    BY <2>1, <2>2
  <2>6. topOf(h) = <<c>>
    BY <1>1, <1>8, <2>2, <2>3
  <2> HIDE DEF last
  <2>7. c.action \in DidiNames
    BY DEF IndInv, PlacesInv, RefsInv
  <2>8. PICK r \in refs : PlacedAt(r, h, i)
    BY <1>2, <1>4, <2>4, <2>7 DEF IndInv, PlacesInv, ActsInv
  <2>9. /\ r.run = run /\ r.history = h /\ r.index = i /\ r.version = v
        /\ r.id = TopId(h) /\ r.action = hist[h].acts[i].name
    BY <1>5, <2>8
  <2>10. c.serial \in Nat /\ r.serial \in Nat /\ serial \in Nat
    BY DEF IndInv, TypeOK, UndoCommit
  <2>11. ~(r.serial < c.serial)
    <3>1. c.version <= r.version
      BY <1>3, <2>4, <2>9
    <3> QED
      BY <1>4, <2>3, <2>4, <2>9, <3>1 DEF IndInv, PlacesInv, ReplacedInv
  <2>12. ~(c.serial < r.serial)
    <3> SUFFICES ASSUME c.serial < r.serial PROVE FALSE
      OBVIOUS
    <3>1. c.serial + Len(commits) + 1 = serial + k
      BY <2>3 DEF IndInv, CommitsInv, LastOf
    <3>2. PICK n \in Nat, x \in Nat, y \in Nat : n = Len(commits) /\ x = c.serial /\ y = r.serial
      BY <1>6, <2>10
    <3>3. x + n + 1 = serial + k /\ x < y
      BY <3>1, <3>2
    <3>4. n + y >= serial
      BY <2>10, <3>3
    <3>5. PICK j \in DOMAIN commits : commits[j] = r /\ j + serial = y + n + 1
      BY <2>9, <3>2, <3>4, InLedger
    <3>6. j \in tops
      BY <1>3, <2>9, <3>5
    <3>7. j > k
      BY <1>6, <2>10, <3>3, <3>5
    <3>8. j \in Nat
      BY <1>6
    <3> QED
      BY <2>5, <3>6, <3>7, <3>8
  <2>13. r = c
    <3>1. r.serial = c.serial
      BY <2>10, <2>11, <2>12
    <3> QED
      BY <2>3, <2>9, <3>1 DEF IndInv, PlacesInv, OrderInv
  <2> QED
    BY <2>3, <2>6, <2>9, <2>13
<1> QED
  BY <1>7, <1>8

\* A reference whose action is still there is in place, under its name, and was not
\* replaced.
LEMMA ThereIsInPlace ==
  ASSUME IndInv, NEW ref \in refs, NEW i \in Places(ref)
  PROVE  /\ ref.run = run /\ ref.index = i
         /\ InPlace(ref) /\ hist[ref.history].acts[ref.index].name = ref.action
         /\ ~replacedLater(ref)
         /\ ref.history # kGlobalUndoHistory =>
              ref.scene \in Scenes /\ shown[ref.scene] = ref.history
<1> DEFINE h == ref.history
<1>1. ref.run = run /\ i \in DOMAIN hist[h].acts /\ hist[h].acts[i].id = ref.id
  BY DEF Places
<1>2. /\ h \in Histories /\ ref.index \in Nat /\ ref.version \in Nat /\ ref.serial \in Nat
  BY DEF IndInv, TypeOK, UndoCommit
<1>3. /\ hist[h].acts \in Seq(Action) /\ DOMAIN hist[h].acts = 1..Len(hist[h].acts)
      /\ Len(hist[h].acts) \in Nat /\ hist[h].current \in Nat /\ hist[h].version \in Nat
  BY <1>2 DEF IndInv, TypeOK, History
<1>4. /\ PlacedAt(ref, h, i)
      /\ h # kGlobalUndoHistory => ref.scene \in Scenes /\ shown[ref.scene] = h
  BY <1>1, <1>2, <1>3 DEF IndInv, PlacesInv, PlaceInv
<1>5. /\ ref.index = i /\ hist[h].acts[i].name = ref.action
      /\ ref.version + hist[h].current = hist[h].version + i
  BY <1>4 DEF PlacedAt
<1>6. InPlace(ref)
  <2>1. PICK v \in Nat, c \in Nat, w \in Nat, j \in Nat :
          v = hist[h].version /\ c = hist[h].current /\ w = ref.version /\ j = ref.index
    BY <1>2, <1>3
  <2>2. w + c = v + j
    BY <1>5, <2>1
  <2>3. v - c = w - j
    BY <2>2
  <2>4. ref.index <= Len(hist[h].acts)
    BY <1>1, <1>3, <1>5
  <2> QED
    BY <2>1, <2>3, <2>4 DEF InPlace
<1>7. ~replacedLater(ref)
  <2> SUFFICES ASSUME replacedLater(ref) PROVE FALSE
    OBVIOUS
  <2>1. PICK k \in DOMAIN commits : /\ commits[k].serial > ref.serial
                                    /\ commits[k].history = h
                                    /\ commits[k].version <= ref.version
    BY DEF replacedLater
  <2>2. commits[k] \in refs /\ commits[k].run = run
    BY DEF IndInv, TypeOK, CommitsInv, LastOf
  <2>3. ref.serial < commits[k].serial
    BY <1>2, <2>1, <2>2 DEF IndInv, TypeOK, UndoCommit
  <2> QED
    BY <1>1, <1>3, <2>1, <2>2, <2>3 DEF IndInv, PlacesInv, ReplacedInv
<1> QED
  BY <1>1, <1>4, <1>5, <1>6, <1>7

\* What is judged gone is nowhere, however old the reference.
LEMMA GoneIsGone ==
  ASSUME IndInv, NEW ref \in refs, judgeUndoReference(ref) = "gone"
  PROVE  Places(ref) = {}
<1> SUFFICES ASSUME NEW i \in Places(ref) PROVE FALSE
  OBVIOUS
<1>1. /\ ThisRun(ref) /\ InPlace(ref) /\ hist[ref.history].acts[ref.index].name = ref.action
      /\ ~replacedLater(ref)
      /\ ref.history # kGlobalUndoHistory => shown[ref.scene] = ref.history
  BY ThereIsInPlace DEF ThisRun
<1>2. CASE ref.history \notin Candidates
  <2>1. ref.history # kGlobalUndoHistory
    BY <1>2 DEF Candidates
  <2> QED
    BY <1>1, <1>2, <2>1 DEF judgeUndoReference, kGlobalUndoHistory, Closed
<1>3. CASE ref.history \in Candidates
  BY <1>1, <1>3 DEF judgeUndoReference, evaluate
<1> QED
  BY <1>2, <1>3

\* What else is said of a recent reference is said of the action it names.
LEMMA SaidIsThere ==
  ASSUME IndInv, NEW ref \in refs, Recent(ref),
         judgeUndoReference(ref) \in {"available", "later_history", "undone"}
  PROVE  /\ ref.run = run /\ ref.history \in Candidates /\ ref.index \in Places(ref)
         /\ judgeUndoReference(ref) = evaluate(ref)
<1>1. ref.run = run /\ ref.history \in Candidates /\ judgeUndoReference(ref) = evaluate(ref)
  BY DEF judgeUndoReference, evaluate, ThisRun
<1>2. /\ InPlace(ref) /\ hist[ref.history].acts[ref.index].name = ref.action
      /\ ~replacedLater(ref)
  BY <1>1 DEF evaluate
<1>3. ref.version + hist[ref.history].current = hist[ref.history].version + ref.index
  <2>1. hist[ref.history] \in History
    BY <1>1, CandidatesAre DEF IndInv
  <2>2. PICK v \in Nat, c \in Nat, w \in Nat, j \in Nat :
          /\ v = hist[ref.history].version /\ c = hist[ref.history].current
          /\ w = ref.version /\ j = ref.index
    BY <2>1 DEF History, IndInv, TypeOK, UndoCommit
  <2>3. v - c = w - j
    BY <1>2, <2>2 DEF InPlace
  <2>4. w + c = v + j
    BY <2>3
  <2> QED
    BY <2>2, <2>4
<1>4. ref.index \in Places(ref)
  BY <1>1, <1>2, <1>3, Identity DEF InPlace
<1> QED
  BY <1>1, <1>4

\* An available reference names the action the editor's Undo would take.
LEMMA AvailableIsNewest ==
  ASSUME IndInv, NEW ref \in refs, Recent(ref), judgeUndoReference(ref) = "available"
  PROVE  Undoable # {} /\ TopId(Newest) = ref.id
<1> DEFINE h == ref.history
<1>1. h \in Undoable /\ TypeOK
  BY AvailableIsUndoable DEF IndInv
<1>2. ref.run = run /\ h \in Candidates /\ ref.index \in Places(ref) /\ evaluate(ref) = "available"
  BY SaidIsThere
<1>3. /\ ~(hist[h].current < ref.index) /\ ~(hist[h].current > ref.index)
      /\ \A other \in Candidates \ {h} : ~InTheWay(ref, other)
  BY <1>2 DEF evaluate
<1>4. hist[h].current = ref.index
  <2>1. hist[h].current \in Nat /\ ref.index \in Nat
    BY <1>1, <1>2, CandidatesAre DEF History, TypeOK, UndoCommit
  <2> QED
    BY <1>3, <2>1
<1>5. TopId(h) = ref.id
  BY <1>2, <1>4 DEF TopId, Places
<1>6. ref.id \in Nat /\ ref.serial \in Nat
  BY DEF IndInv, TypeOK, UndoCommit
<1>7. ASSUME NEW g \in Undoable, g # h
      PROVE  TopId(g) < ref.id
  <2>1. ~InTheWay(ref, g) /\ hist[g].current > 0
    BY <1>3, <1>7 DEF Undoable
  <2>2. topOf(g) # <<>> /\ ~(Head(topOf(g)).serial > ref.serial)
    BY <2>1 DEF InTheWay
  <2>3. PICK c \in refs : /\ topOf(g) = <<c>>
                          /\ c.run = run /\ c.history = g /\ c.id = TopId(g)
    BY <2>2, TopIs
  <2>4. ~(c.serial > ref.serial)
    <3>1. Head(<<c>>) = c
      OBVIOUS
    <3> QED
      BY <2>2, <2>3, <3>1
  <2>5. c.serial \in Nat
    BY DEF IndInv, TypeOK, UndoCommit
  <2>6. c.serial # ref.serial
    BY <1>2, <1>7, <2>3 DEF IndInv, PlacesInv, OrderInv
  <2>7. c.serial < ref.serial
    BY <1>6, <2>4, <2>5, <2>6
  <2> QED
    BY <1>2, <2>3, <2>7 DEF IndInv, PlacesInv, OrderInv
<1>8. Newest \in Undoable /\ TopId(Newest) >= TopId(h)
  BY <1>1, NewestIs
<1>9. TopId(Newest) \in Nat
  BY <1>1, <1>8, CandidatesAre
<1>10. Newest = h
  BY <1>5, <1>6, <1>7, <1>8, <1>9
<1> QED
  BY <1>1, <1>5, <1>10

\* What is said of a reference is true of the very action it names, for any
\* interleaving of Didi's commands with a person's edits, undos, redos, reloads and
\* tabs, and any capacity: what is gone is nowhere, and while no more commits came
\* since than the ledger remembers, what is available is what the editor's Undo
\* takes, and what is under later actions or undone is there (UndoLedger::evaluate,
\* judgeUndoReference, undoReferencedAction).
THEOREM VerdictsAreTrue == Spec => []VerdictIsTrue
<1>1. IndInv => VerdictIsTrue
  <2> SUFFICES ASSUME IndInv, NEW ref \in refs
               PROVE  /\ judgeUndoReference(ref) = "gone" => Places(ref) = {}
                      /\ Recent(ref) =>
                           /\ judgeUndoReference(ref) = "available" =>
                                Undoable # {} /\ TopId(Newest) = ref.id
                           /\ judgeUndoReference(ref) = "later_history" =>
                                \E i \in Places(ref) : i < hist[ref.history].current
                           /\ judgeUndoReference(ref) = "undone" =>
                                \E i \in Places(ref) : i > hist[ref.history].current
    BY DEF VerdictIsTrue
  <2>1. judgeUndoReference(ref) = "gone" => Places(ref) = {}
    BY GoneIsGone
  <2>2. Recent(ref) /\ judgeUndoReference(ref) = "available" =>
          Undoable # {} /\ TopId(Newest) = ref.id
    BY AvailableIsNewest
  <2>3. ASSUME Recent(ref), judgeUndoReference(ref) \in {"later_history", "undone"}
        PROVE  /\ ref.index \in Places(ref) /\ judgeUndoReference(ref) = evaluate(ref)
               /\ ref.index \in Nat /\ hist[ref.history].current \in Nat
    <3>1. /\ ref.history \in Candidates /\ ref.index \in Places(ref)
          /\ judgeUndoReference(ref) = evaluate(ref)
      BY <2>3, SaidIsThere
    <3>2. hist[ref.history] \in History
      BY <3>1, CandidatesAre DEF IndInv
    <3> QED
      BY <3>1, <3>2 DEF History, IndInv, TypeOK, UndoCommit
  <2>4. Recent(ref) /\ judgeUndoReference(ref) = "later_history" =>
          \E i \in Places(ref) : i < hist[ref.history].current
    <3> SUFFICES ASSUME Recent(ref), judgeUndoReference(ref) = "later_history"
                 PROVE  \E i \in Places(ref) : i < hist[ref.history].current
      OBVIOUS
    <3>1. hist[ref.history].current > ref.index
      BY <2>3 DEF evaluate
    <3> QED
      BY <2>3, <3>1
  <2>5. Recent(ref) /\ judgeUndoReference(ref) = "undone" =>
          \E i \in Places(ref) : i > hist[ref.history].current
    <3> SUFFICES ASSUME Recent(ref), judgeUndoReference(ref) = "undone"
                 PROVE  \E i \in Places(ref) : i > hist[ref.history].current
      OBVIOUS
    <3>1. hist[ref.history].current < ref.index
      BY <2>3 DEF evaluate
    <3> QED
      BY <2>3, <3>1
  <2> QED
    BY <2>1, <2>2, <2>4, <2>5
<1> QED
  BY <1>1, LedgerInvariant, PTL

\* A reference is not refused needlessly, however old it is: when its action is what
\* the editor's Undo would take, and the ledger remembers the other history's last
\* action, it is judged available (UndoLedger::topOf, evaluate).
THEOREM KnownIsOffered == Spec => []OfferedWhenKnown
<1>1. IndInv => OfferedWhenKnown
  <2> SUFFICES ASSUME IndInv, NEW ref \in refs, ref.run = run, ref.history \in Undoable,
                      Newest = ref.history, TopId(ref.history) = ref.id,
                      \A other \in Undoable \ {ref.history} :
                        \E r \in ToSet(commits) : r.id = TopId(other)
               PROVE  judgeUndoReference(ref) = "available"
    BY DEF OfferedWhenKnown
  <2> DEFINE h == ref.history
             i == hist[h].current
  <2>1. /\ TypeOK /\ h \in Candidates /\ h \in Histories /\ hist[h] \in History
        /\ i \in 1..Len(hist[h].acts) /\ Undoable # {}
    BY CandidatesAre DEF IndInv, Undoable
  <2>2. i \in Places(ref)
    <3>1. DOMAIN hist[h].acts = 1..Len(hist[h].acts)
      BY <2>1 DEF History
    <3> QED
      BY <2>1, <3>1 DEF Places, TopId
  <2>3. /\ ref.index = i /\ InPlace(ref) /\ ThisRun(ref)
        /\ hist[h].acts[ref.index].name = ref.action /\ ~replacedLater(ref)
    BY <2>2, ThereIsInPlace DEF ThisRun
  <2>4. ~(hist[h].current < ref.index) /\ ~(hist[h].current > ref.index)
    BY <2>1, <2>3 DEF History
  <2>5. ASSUME NEW g \in Candidates \ {h}, InTheWay(ref, g)
        PROVE  FALSE
    <3>1. g \in Undoable
      BY <2>5 DEF InTheWay, Undoable
    <3>2. PICK r \in ToSet(commits) : r.id = TopId(g)
      BY <3>1
    <3>3. PICK c \in refs : /\ topOf(g) = <<c>>
                            /\ c.run = run /\ c.history = g /\ c.id = TopId(g)
      BY <3>1, <3>2, TopIs
    <3>4. c.serial > ref.serial
      <4>1. topOf(g) # <<>> /\ Head(topOf(g)) = c
        BY <3>3
      <4> QED
        BY <2>5, <4>1 DEF InTheWay
    <3>5. ref.serial \in Nat /\ c.serial \in Nat /\ ref.id \in Nat /\ c.id \in Nat
      BY DEF IndInv, TypeOK, UndoCommit
    <3>6. ref.id < c.id
      <4>1. ref.serial < c.serial
        BY <3>4, <3>5
      <4> QED
        BY <3>3, <4>1 DEF IndInv, PlacesInv, OrderInv
    <3>7. TopId(h) >= TopId(g)
      BY <2>1, <3>1, NewestIs
    <3> QED
      BY <3>3, <3>5, <3>6, <3>7
  <2>6. evaluate(ref) = "available"
    BY <2>3, <2>4, <2>5 DEF evaluate
  <2> QED
    BY <2>1, <2>6 DEF judgeUndoReference
<1> QED
  BY <1>1, LedgerInvariant, PTL

=============================================================================
