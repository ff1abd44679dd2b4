----------------------------- MODULE UndoLedger -----------------------------
(***************************************************************************)
(* The undo references of the change journal: what a command committed to   *)
(* the editor's undo histories, and whether one such commit can be undone on *)
(* its own later (src/src/gdextension/undo_ledger.cpp, with                  *)
(* judgeUndoReference, undoReferencedAction and attachUndoCommits of         *)
(* godot_bridge.cpp).                                                        *)
(*                                                                         *)
(* The histories belong to Godot: a global one and one per scene.  A person *)
(* works in the same editor: edits, undoes, redoes, switches tabs and closes *)
(* scenes between Didi's commands.  Commands run on the editor's main thread *)
(* and are atomic here.  Nothing identifies an action but its place, the     *)
(* history's version and its name; id and at are the truth the code cannot  *)
(* read.                                                                     *)
(*                                                                         *)
(* Left out: histories that cannot be read and histories trimmed by the      *)
(* editor, whose actions the code calls gone although they may be there      *)
(* (godot_bridge.cpp, undo_ledger.cpp evaluate), and a reference into a      *)
(* scene that has no path, which it calls blocked for ever.                  *)
(***************************************************************************)
EXTENDS Naturals, Sequences, FiniteSets, SequencesExt

CONSTANTS Scenes,         \* the scenes of the project
          NoScene,        \* the empty scene path
          DidiNames,      \* action names Didi gives
          PersonNames,    \* action names the editor gives a person's edits
          Capacity,       \* kUndoLedgerCapacity
          MaxHistories,   \* bound: how often a scene is opened in one run
          MaxRuns,        \* bound: how often the editor is started
          MaxSteps        \* bound: how many things happen

ASSUME UndoLedgerAssumption ==
  /\ NoScene \notin Scenes
  /\ DidiNames \intersect PersonNames = {}     \* Didi's begin with "Didi: "
  /\ Capacity \in Nat \ {0}
  /\ MaxHistories \in Nat \ {0} /\ MaxRuns \in Nat \ {0} /\ MaxSteps \in Nat

VARIABLES hist,       \* the editor's histories, by id
          shown,      \* the history of each open scene, Closed for the others
          tab,        \* the edited scene, NoScene when none is
          run,        \* m_run, by number
          commits,    \* m_commits, oldest first
          serial,     \* m_next_serial
          refs,       \* the references the journal was given
          steps       \* how many things happened

vars == <<hist, shown, tab, run, commits, serial, refs, steps>>

kGlobalUndoHistory == 0
Closed == 0                  \* no scene has the global history
Histories == 0..MaxHistories
Names == DidiNames \union PersonNames

\* acts[current] is the action an undo would take, those above it can be redone.
Action == [id: Nat, name: Names]
History == [acts: Seq(Action), current: Nat, version: Nat]
UndoCommit == [run: Nat, serial: Nat, history: Histories, scene: Scenes \union {NoScene},
               index: Nat, version: Nat, action: Names, id: Nat]

TypeOK ==
  /\ hist \in [Histories -> History]
  /\ \A h \in Histories : hist[h].current <= Len(hist[h].acts)
  /\ shown \in [Scenes -> Histories]
  /\ tab # NoScene => tab \in Scenes /\ shown[tab] # Closed
  /\ run \in 1..MaxRuns
  /\ commits \in Seq(UndoCommit) /\ Len(commits) <= Capacity
  /\ refs \subseteq UndoCommit
  /\ serial \in Nat /\ steps \in 0..MaxSteps

Empty == [acts |-> <<>>, current |-> 0, version |-> 0]
Opened == [Empty EXCEPT !.version = 1]

Init ==
  /\ tab \in Scenes \union {NoScene}      \* the editor may reopen the last scene
  /\ shown = [s \in Scenes |-> IF s = tab THEN 1 ELSE Closed]
  /\ hist = [h \in Histories |-> IF h = 1 /\ tab # NoScene THEN Opened ELSE Empty]
  /\ run = 1
  /\ commits = <<>>
  /\ serial = 1
  /\ refs = {}
  /\ steps = 0

Happens == steps < MaxSteps /\ steps' = steps + 1

-----------------------------------------------------------------------------
(* Godot's histories.                                                      *)

\* A commit drops what could be redone and raises the version.  Actions are
\* numbered in the order they are committed, which is their order in time.
Committed(h, name, id) ==
  [acts |-> Append(SubSeq(h.acts, 1, h.current), [id |-> id, name |-> name]),
   current |-> h.current + 1, version |-> h.version + 1]

Undone(h) == [h EXCEPT !.current = @ - 1, !.version = @ - 1]
Redone(h) == [h EXCEPT !.current = @ + 1, !.version = @ + 1]

\* Reloading a scene empties its history and raises its version.
Cleared(h) == [acts |-> <<>>, current |-> 0, version |-> h.version + 1]

\* The histories the editor's Undo and Redo weigh.
Candidates == {kGlobalUndoHistory} \union (IF tab = NoScene THEN {} ELSE {shown[tab]})
SceneOf(h) == IF h = kGlobalUndoHistory THEN NoScene ELSE tab

\* Undo takes the newer of the two last actions, Redo the older of the two next.
Undoable == {h \in Candidates : hist[h].current > 0}
Redoable == {h \in Candidates : hist[h].current < Len(hist[h].acts)}
TopId(h) == hist[h].acts[hist[h].current].id
NextRedoId(h) == hist[h].acts[hist[h].current + 1].id
Newest == CHOOSE h \in Undoable : \A g \in Undoable : TopId(h) >= TopId(g)
OldestRedo == CHOOSE h \in Redoable : \A g \in Redoable : NextRedoId(h) <= NextRedoId(g)

-----------------------------------------------------------------------------
(* The ledger.                                                             *)

\* observe: the commits a command made in history h, from the history before and
\* after it.  A version that did not rise made none, nor did a cleared history.
\* Each step up is a commit, as far as the actions reach down.
observe(h, before, after) ==
  LET up == after.version - before.version
      made == IF after.version <= before.version \/ after.current = 0 THEN 0
              ELSE IF up < after.current THEN up ELSE after.current
  IN  [k \in 1..made |->
         LET index == after.current - made + k
         IN  [run |-> run, serial |-> serial + k - 1, history |-> h,
              scene |-> SceneOf(h), index |-> index,
              version |-> after.version - made + k, action |-> after.acts[index].name,
              id |-> after.acts[index].id]]

\* At the capacity the oldest commit is forgotten.
Remembered(s) == IF Len(s) > Capacity THEN SubSeq(s, Len(s) - Capacity + 1, Len(s)) ELSE s

\* topOf: the newest remembered commit that is the history's current action, or
\* nothing.
topOf(h) ==
  LET tops == {i \in DOMAIN commits :
                 /\ commits[i].history = h
                 /\ commits[i].index = hist[h].current
                 /\ commits[i].version = hist[h].version
                 /\ commits[i].action = hist[h].acts[hist[h].current].name}
  IN  IF tops = {} THEN <<>>
      ELSE <<commits[CHOOSE i \in tops : \A j \in tops : i >= j]>>

\* Mutant: a name is taken for an identity.
replacedLater_never(ref) == FALSE

\* replacedLater: a later commit there at a version no higher follows an undo.
replacedLater(ref) ==
  \E i \in DOMAIN commits :
    /\ commits[i].serial > ref.serial
    /\ commits[i].run = ref.run
    /\ commits[i].history = ref.history
    /\ commits[i].version <= ref.version

\* The action at the reference's place may be the one it names: version and
\* index move together until the history is cleared.
InPlace(ref) ==
  LET own == hist[ref.history]
  IN  /\ ref.index <= Len(own.acts)
      /\ own.version - own.current = ref.version - ref.index

ThisRun(ref) == ref.run = run

\* Mutant: whatever the other history holds is in the way.
InTheWay_any(ref, other) == hist[other].current > 0

\* The editor's Undo would, or might, take the other history's action first.
InTheWay(ref, other) ==
  LET top == topOf(other)
  IN  hist[other].current > 0 /\ (top = <<>> \/ Head(top).serial > ref.serial)

evaluate(ref) ==
  LET own == hist[ref.history]
  IN  IF ~ThisRun(ref) \/ ~InPlace(ref) THEN "gone"
      ELSE IF own.acts[ref.index].name # ref.action \/ replacedLater(ref) THEN "gone"
      ELSE IF own.current < ref.index THEN "undone"
      ELSE IF own.current > ref.index THEN "later_history"
      ELSE IF \E other \in Candidates \ {ref.history} : InTheWay(ref, other) THEN "blocked"
      ELSE "available"

\* Only the global history and the edited scene's are read; a reference into
\* another is judged by whether a scene of its path is open.
judgeUndoReference(ref) ==
  IF ThisRun(ref) /\ ref.history \notin Candidates
    THEN IF shown[ref.scene] # Closed THEN "blocked" ELSE "gone"
    ELSE evaluate(ref)

-----------------------------------------------------------------------------
(* Didi's commands.                                                        *)

\* What attachUndoCommits does around a command that leaves history h as after.
Observed(h, after) ==
  LET made == observe(h, hist[h], after)
  IN  /\ hist' = [hist EXCEPT ![h] = after]
      /\ commits' = Remembered(commits \o made)
      /\ serial' = serial + Len(made)
      /\ refs' = refs \union ToSet(made)
      /\ UNCHANGED <<shown, tab, run>>

\* A live edit commits an action to the edited scene's history or the global one.
DidiCommits ==
  \E h \in Candidates, name \in DidiNames :
    Happens /\ Observed(h, Committed(hist[h], name, 2 * steps + 1))

\* A command that commits two actions: no tool does today, and observe is written
\* for it; undoJournalEntry refuses such an entry, and view still has it judged.
DidiCommitsTwice ==
  \E h \in Candidates, name \in DidiNames, name2 \in DidiNames :
    /\ Happens
    /\ Observed(h, Committed(Committed(hist[h], name, 2 * steps + 1), name2, 2 * steps + 2))

\* A command that reloads the edited scene and then edits it.
DidiReloads ==
  \E name \in DidiNames :
    /\ Happens /\ tab # NoScene
    /\ Observed(shown[tab], Committed(Cleared(hist[shown[tab]]), name, 2 * steps + 1))

\* editor_undo of one journal entry: judged, then the editor's own Undo.  What is
\* not available is refused and nothing moves.
undoReferencedAction(ref) ==
  /\ Happens
  /\ judgeUndoReference(ref) = "available"
  /\ hist' = [hist EXCEPT ![Newest] = Undone(@)]
  /\ UNCHANGED <<shown, tab, run, commits, serial, refs>>

\* editor.undo and editor.redo without a reference commit nothing and are not
\* observed; a person's Ctrl+Z and Ctrl+Y are the same editor commands.
EditorUndoes ==
  /\ Happens /\ Undoable # {}
  /\ hist' = [hist EXCEPT ![Newest] = Undone(@)]
  /\ UNCHANGED <<shown, tab, run, commits, serial, refs>>

EditorRedoes ==
  /\ Happens /\ Redoable # {}
  /\ hist' = [hist EXCEPT ![OldestRedo] = Redone(@)]
  /\ UNCHANGED <<shown, tab, run, commits, serial, refs>>

-----------------------------------------------------------------------------
(* The person at the editor, and the editor process.                       *)

PersonCommits ==
  \E h \in Candidates, name \in PersonNames :
    /\ Happens
    /\ hist' = [hist EXCEPT ![h] = Committed(@, name, 2 * steps + 1)]
    /\ UNCHANGED <<shown, tab, run, commits, serial, refs>>

PersonReloads ==
  /\ Happens /\ tab # NoScene
  /\ hist' = [hist EXCEPT ![shown[tab]] = Cleared(@)]
  /\ UNCHANGED <<shown, tab, run, commits, serial, refs>>

\* A scene opened takes a history of its own, one never used (version 0 marks it).
SceneOpens(s) ==
  /\ Happens /\ shown[s] = Closed
  /\ \E h \in Histories \ {kGlobalUndoHistory} :
       /\ hist[h] = Empty /\ \A g \in Histories \ {kGlobalUndoHistory} : g < h => hist[g] # Empty
       /\ shown' = [shown EXCEPT ![s] = h]
       /\ hist' = [hist EXCEPT ![h] = Opened]
  /\ tab' = s
  /\ UNCHANGED <<run, commits, serial, refs>>

TabSwitches(s) ==
  /\ Happens /\ shown[s] # Closed /\ tab # s
  /\ tab' = s
  /\ UNCHANGED <<hist, shown, run, commits, serial, refs>>

\* A scene closed takes its history with it; another open scene is shown.
SceneCloses ==
  /\ Happens /\ tab # NoScene
  /\ hist' = [hist EXCEPT ![shown[tab]] = Cleared(@)]
  /\ shown' = [shown EXCEPT ![tab] = Closed]
  /\ LET others == {s \in Scenes : shown'[s] # Closed}
     IN  IF others = {} THEN tab' = NoScene ELSE tab' \in others
  /\ UNCHANGED <<run, commits, serial, refs>>

\* A new editor: new histories and a new ledger, while the journal keeps its
\* references.
EditorRestarts ==
  /\ Happens /\ run < MaxRuns
  /\ run' = run + 1
  /\ hist' = [h \in Histories |-> Empty]
  /\ shown' = [s \in Scenes |-> Closed]
  /\ tab' = NoScene
  /\ commits' = <<>>
  /\ serial' = 1
  /\ UNCHANGED refs

Next ==
  \/ DidiCommits \/ DidiCommitsTwice \/ DidiReloads
  \/ \E ref \in refs : undoReferencedAction(ref)
  \/ EditorUndoes \/ EditorRedoes
  \/ PersonCommits \/ PersonReloads
  \/ \E s \in Scenes : SceneOpens(s) \/ TabSwitches(s)
  \/ SceneCloses
  \/ EditorRestarts

Spec == Init /\ [][Next]_vars

-----------------------------------------------------------------------------
(* Properties.                                                             *)

\* The places of history h at which the action a reference names is now.
Places(ref) ==
  IF ref.run # run THEN {}
  ELSE {i \in DOMAIN hist[ref.history].acts : hist[ref.history].acts[i].id = ref.id}

\* No more commits came after it than the ledger remembers: 4096, where the journal
\* that holds the reference keeps 200 entries.
Recent(ref) == serial <= ref.serial + Capacity + 1

\* What is said of a reference is true of the very action it names, whatever was
\* undone, redone, replaced, reloaded or restarted in between.  When it is judged
\* available the editor's Undo takes that action and no other (undoReferencedAction
\* "undoes exactly the action the reference names"); otherwise it is still applied
\* under later ones, waiting to be redone, or no longer there.  What is gone stays
\* true however much the ledger has forgotten, the rest while the reference is
\* recent.
VerdictIsTrue ==
  \A ref \in refs :
    LET verdict == judgeUndoReference(ref)
        own == hist[ref.history]
    IN  /\ verdict = "gone" => Places(ref) = {}
        /\ Recent(ref) =>
             /\ verdict = "available" => Undoable # {} /\ TopId(Newest) = ref.id
             /\ verdict = "later_history" => \E i \in Places(ref) : i < own.current
             /\ verdict = "undone" => \E i \in Places(ref) : i > own.current

\* A reference is not refused needlessly, however old it is: when its action is the
\* one the editor's Undo would take, and the other history's last action is one the
\* ledger remembers or there is none, it is judged available.
OfferedWhenKnown ==
  \A ref \in refs :
    (/\ ref.run = run /\ ref.history \in Undoable /\ Newest = ref.history
     /\ TopId(ref.history) = ref.id
     /\ \A other \in Undoable \ {ref.history} :
          \E r \in ToSet(commits) : r.id = TopId(other))
      => judgeUndoReference(ref) = "available"

=============================================================================
