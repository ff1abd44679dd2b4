--------------------------- MODULE ChangeJournal ---------------------------
(***************************************************************************)
(* The change journal (src/src/mcp/change_journal.cpp, called by             *)
(* journalCall in src/src/mcp/tool_registry.cpp): every mutating call is      *)
(* recorded in .didi/journal.json, which all servers of the project share.   *)
(*                                                                         *)
(* append reads the file, adds to the copy and replaces the file, under a    *)
(* FileLock that is waited for at most kLockWait.  editor_undo of a journal  *)
(* entry (undoJournalEntry) looks the entry up without the lock, has the     *)
(* editor undo it, and is then recorded itself like every other call.        *)
(* A journal that cannot be written never fails the call it was recording.   *)
(* A stat of the file that fails is left out: the code reads it as no        *)
(* journal, and the write then replaces whatever is there.                   *)
(***************************************************************************)
EXTENDS FileLock, Sequences, SequencesExt

CONSTANTS kMaxEntries,   \* how many entries are kept
          MaxCalls,      \* bound: how many calls are made
          MaxDamage      \* bound: how often the file is damaged

ASSUME ChangeJournalAssumption ==
  kMaxEntries \in Nat \ {0} /\ MaxCalls \in Nat /\ MaxDamage \in Nat

VARIABLES file,       \* the journal: what a reader finds, and the document in it
          mem,        \* the document of the append each process is in
          call,       \* the call each process is making
          calls,      \* how many calls were made
          epoch       \* how many journals were moved aside

vars == <<clock, lock, pc, now, file, mem, call, calls, epoch>>
journalVars == <<file, mem, call, calls, epoch>>

NoUndo == 0
NoCall == [n |-> 0, undoes |-> NoUndo, target |-> 0, epoch |-> 0]

\* A call by number.  One that undoes an entry has the entry's id, the call the
\* entry recorded when it was looked up, and the journal it was looked up in.
Call == [n: 0..MaxCalls, undoes: Nat, target: 0..MaxCalls, epoch: 0..MaxDamage]
Entry == [id: Nat, call: Call, undone_by: Nat]
Document == [next_id: Nat, dropped: Nat, entries: Seq(Entry)]
Kinds == {"absent", "ok", "damaged", "newer"}

emptyDocument == [next_id |-> 1, dropped |-> 0, entries |-> <<>>]
NoDocument == [next_id |-> 0, dropped |-> 0, entries |-> <<>>]

Init ==
  /\ LockInit
  /\ file = [kind |-> "absent", doc |-> emptyDocument]
  /\ mem = [p \in Procs |-> NoDocument]
  /\ call = [p \in Procs |-> NoCall]
  /\ calls = 0
  /\ epoch = 0

-----------------------------------------------------------------------------
(* The document.                                                           *)

NextId(doc) == IF doc.next_id < 1 THEN 1 ELSE doc.next_id

\* Mutant: the entry is marked by its place in the list.
Marked_place(entries, undoes, id) ==
  [i \in DOMAIN entries |->
     IF i = undoes THEN [entries[i] EXCEPT !.undone_by = id] ELSE entries[i]]

\* An entry that undoes another marks it, if the journal still has it.
Marked(entries, undoes, id) ==
  [i \in DOMAIN entries |->
     IF entries[i].id = undoes THEN [entries[i] EXCEPT !.undone_by = id] ELSE entries[i]]

\* Mutant: what is dropped is not counted.
Trimmed_uncounted(doc) ==
  LET over == Len(doc.entries) - kMaxEntries
  IN  IF over <= 0 THEN doc
      ELSE [doc EXCEPT !.entries = SubSeq(@, over + 1, Len(@))]

\* The oldest go first and are counted.
Trimmed(doc) ==
  LET over == Len(doc.entries) - kMaxEntries
  IN  IF over <= 0 THEN doc
      ELSE [doc EXCEPT !.entries = SubSeq(@, over + 1, Len(@)), !.dropped = @ + over]

\* The document with one more entry.
Appended(doc, c) ==
  LET id == NextId(doc)
      entry == [id |-> id, call |-> c, undone_by |-> NoUndo]
  IN  [Trimmed([doc EXCEPT !.entries = Append(Marked(@, c.undoes, id), entry)])
         EXCEPT !.next_id = id + 1]

-----------------------------------------------------------------------------
(* A call, up to the lock.                                                 *)

Free(p) == pc[p] = "idle" /\ call[p] = NoCall /\ calls < MaxCalls

\* A mutating call other than an undo by entry has run and is to be recorded.
CallEnds(p) ==
  /\ Free(p)
  /\ Arrive(p)
  /\ call' = [call EXCEPT ![p] = [NoCall EXCEPT !.n = calls + 1]]
  /\ calls' = calls + 1
  /\ UNCHANGED <<file, mem, epoch>>

\* findEntry for editor_undo: the file is read without the lock, whole, because it
\* is only ever replaced.  An entry that is not there ends the call.
findEntry(p) ==
  /\ Free(p)
  /\ file.kind = "ok"
  /\ \E i \in DOMAIN file.doc.entries :
       LET e == file.doc.entries[i]
       IN  call' = [call EXCEPT ![p] = [n |-> calls + 1, undoes |-> e.id,
                                        target |-> e.call.n, epoch |-> epoch]]
  /\ calls' = calls + 1
  /\ UNCHANGED <<clock, lock, pc, now, file, mem, epoch>>

\* The editor undoes the call the entry names, and the undo is to be recorded ...
\* It may do so again after a redo, which is a call like any other or a person's
\* and which the journal does not connect with the entry: nothing here says that
\* a change is undone at the moment, and nothing in the code looks at undone_by.
EditorUndoes(p) ==
  /\ pc[p] = "idle" /\ call[p].target # NoCall.target
  /\ Arrive(p)
  /\ UNCHANGED <<file, mem, call, calls, epoch>>

\* ... or refuses, because it is undone at the moment or for a reason of its own:
\* a failed call that changed no history is not recorded.
EditorRefuses(p) ==
  /\ pc[p] = "idle" /\ call[p] # NoCall
  /\ call' = [call EXCEPT ![p] = NoCall]
  /\ UNCHANGED <<clock, lock, pc, now, file, mem, calls, epoch>>

Acquires(p) == Acquire(p) /\ UNCHANGED journalVars

\* The lock stayed held for the whole wait: the call is answered "recorded: false".
GivesUp(p) ==
  /\ GiveUp(p)
  /\ call' = [call EXCEPT ![p] = NoCall]
  /\ UNCHANGED <<file, mem, calls, epoch>>

-----------------------------------------------------------------------------
(* append, under the lock.                                                 *)

Holds(p) == pc[p] = "locked" /\ mem[p] = NoDocument

\* No journal yet, or one that parses.
Reads(p) ==
  /\ Holds(p) /\ file.kind \in {"absent", "ok"}
  /\ mem' = [mem EXCEPT ![p] = file.doc]
  /\ UNCHANGED <<clock, lock, pc, now, file, call, calls, epoch>>

\* A damaged journal is moved aside, and from here until the write there is none.
MovesAside(p) ==
  /\ Holds(p) /\ file.kind = "damaged"
  /\ file' = [kind |-> "absent", doc |-> emptyDocument]
  /\ mem' = [mem EXCEPT ![p] = emptyDocument]
  /\ epoch' = epoch + 1
  /\ UNCHANGED <<clock, lock, pc, now, call, calls>>

\* The file is in a newer format, cannot be read, or cannot be moved aside.
Refuses(p) ==
  /\ Holds(p) /\ file.kind # "absent"
  /\ Operate(p)
  /\ UNCHANGED journalVars

\* The staged file takes the journal's place.
Writes(p) ==
  /\ pc[p] = "locked" /\ mem[p] # NoDocument
  /\ Operate(p)
  /\ file' = [kind |-> "ok", doc |-> Appended(mem[p], call[p])]
  /\ UNCHANGED <<mem, call, calls, epoch>>

\* Staging or the rename fails: the original is unchanged.
WriteFails(p) ==
  /\ pc[p] = "locked" /\ mem[p] # NoDocument
  /\ Operate(p)
  /\ UNCHANGED journalVars

Returns(p) ==
  /\ Release(p)
  /\ call' = [call EXCEPT ![p] = NoCall]
  /\ mem' = [mem EXCEPT ![p] = NoDocument]
  /\ UNCHANGED <<file, calls, epoch>>

\* The server dies, anywhere in an append (in a look-up it leaves no more than
\* EditorRefuses does).
Crash(p) ==
  /\ Die(p)
  /\ call' = [call EXCEPT ![p] = NoCall]
  /\ mem' = [mem EXCEPT ![p] = NoDocument]
  /\ UNCHANGED <<file, calls, epoch>>

-----------------------------------------------------------------------------
(* Outside the program.                                                    *)

\* The file is damaged; doc keeps what it held.  Bound: MaxDamage times.
Damage ==
  /\ file.kind = "ok"
  /\ epoch < MaxDamage
  /\ file' = [file EXCEPT !.kind = "damaged"]
  /\ UNCHANGED <<clock, lock, pc, now, mem, call, calls, epoch>>

\* A newer server, which takes the same lock, writes its own format.
NewerWrites ==
  /\ file.kind = "ok" /\ lock = NoProc
  /\ file' = [file EXCEPT !.kind = "newer"]
  /\ UNCHANGED <<clock, lock, pc, now, mem, call, calls, epoch>>

Advance == Tick /\ UNCHANGED journalVars

Horizon == AtHorizon /\ UNCHANGED vars

Next ==
  \/ \E p \in Procs :
       \/ CallEnds(p) \/ findEntry(p) \/ EditorUndoes(p) \/ EditorRefuses(p)
       \/ Acquires(p) \/ GivesUp(p)
       \/ Reads(p) \/ MovesAside(p) \/ Refuses(p) \/ Writes(p) \/ WriteFails(p)
       \/ Returns(p) \/ Crash(p)
  \/ Damage \/ NewerWrites
  \/ Advance \/ Horizon

\* Time passes and a polling caller keeps trying.  Nothing is assumed of a lock
\* holder, which may hang for ever between two of its steps.
Fairness ==
  /\ WF_vars(Advance)
  /\ \A p \in Procs : WF_vars(Acquires(p) \/ GivesUp(p))

Spec == Init /\ [][Next]_vars
FairSpec == Spec /\ Fairness

-----------------------------------------------------------------------------
(* Properties.                                                             *)

\* Every variable has its type; the journal never grows past kMaxEntries.
TypeOK ==
  /\ LockTypeOK
  /\ file \in [kind: Kinds, doc: Document]
  /\ mem \in [Procs -> Document]
  /\ call \in [Procs -> Call]
  /\ calls \in 0..MaxCalls
  /\ epoch \in 0..MaxDamage
  /\ Len(file.doc.entries) <= kMaxEntries

\* The file, entry by entry, is the log of JournalLog.
entryWithId(i) == CHOOSE e \in ToSet(file.doc.entries) : e.id = i
recorded == [i \in {e.id : e \in ToSet(file.doc.entries)} |->
               [call |-> entryWithId(i).call.n, undoneBy |-> entryWithId(i).undone_by]]
Log == INSTANCE JournalLog WITH
         Calls <- 1..MaxCalls,
         Keep <- kMaxEntries,
         log <- recorded,
         next <- file.doc.next_id,
         kind <- file.kind

\* Servers that crash, time out, fail to write or meet a damaged file at any
\* point, and that share nothing but the file and its lock, together record as
\* one journal would: no entry lost or doubled, no id given twice, no half of a
\* write seen ("written atomically under a lock two servers share").
ImplementsLog == Log!LogSpec

\* The numbers account for every entry there ever was in this journal: the ids
\* are consecutive, end before next_id, and what is missing was counted as
\* dropped (findEntry tells "dropped" from "never existed" by them).
NothingUncounted ==
  LET doc == file.doc
  IN  /\ doc.dropped + Len(doc.entries) = doc.next_id - 1
      /\ \A i \in DOMAIN doc.entries : doc.entries[i].id = doc.dropped + i

\* An entry is marked undone_by by the newest recorded undo of the change it
\* records, and by no other's, although it was looked up without the lock and may
\* have moved or gone by the time the undo is recorded; other servers undo, redo,
\* append and trim in between, and a change that was redone may be undone again.
\* Only an undo looked up in a journal moved aside since may mark an entry that is
\* not its own, and write over the mark of a true one.
MarksAreTrue ==
  LET entries == file.doc.entries
  IN  \A i, j \in DOMAIN entries :
        entries[j].call.undoes # NoUndo /\ entries[j].call.epoch = epoch =>
          /\ entries[i].undone_by = entries[j].id
               => entries[i].call.n = entries[j].call.target
          /\ entries[i].call.n = entries[j].call.target
               => \E k \in j..Len(entries) :
                    /\ entries[i].undone_by = entries[k].id
                    /\ \/ entries[k].call.epoch # epoch
                       \/ entries[k].call.target = entries[i].call.n

\* Every wait for the journal's lock ends, in the lock or in a timeout, even
\* behind a holder that hangs (acquireWithin, kLockWait).
WaitEnds == \A p \in Procs : pc[p] = "waiting" ~> pc[p] # "waiting"
=============================================================================
