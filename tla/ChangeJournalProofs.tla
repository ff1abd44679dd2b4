------------------------ MODULE ChangeJournalProofs ------------------------
(***************************************************************************)
(* Proofs about ChangeJournal, for any number of servers, calls, entries    *)
(* kept and damages.                                                       *)
(*                                                                         *)
(* That every write adds exactly one entry rests on the copy a holder of    *)
(* the lock has being the file's own document; that a mark is true rests on *)
(* what a call that was looked up, and is not recorded yet, may still find. *)
(* IndInv says both, entry by entry under the entry's id.                   *)
(***************************************************************************)
EXTENDS ChangeJournal, SequenceTheorems, TLAPS

-----------------------------------------------------------------------------
(* The document, by id.                                                    *)

\* The ids a document holds, and the entry with one of them.
Held(doc) == (doc.dropped + 1)..(doc.next_id - 1)
EntryOf(doc, i) == doc.entries[i - doc.dropped]

\* NothingUncounted, of any document.
Counted(doc) ==
  /\ doc.dropped + Len(doc.entries) = doc.next_id - 1
  /\ \A i \in DOMAIN doc.entries : doc.entries[i].id = doc.dropped + i

-----------------------------------------------------------------------------
(* The inductive invariant.                                                *)

\* The process inside the lock is the one the lock names.
LockInv == \A p \in Procs : pc[p] \in {"locked", "answered"} <=> lock = p

\* The copy of a holder that has not written yet is the file's document.
CopyInv ==
  \A p \in Procs :
    /\ pc[p] \notin {"locked", "answered"} => mem[p] = NoDocument
    /\ pc[p] = "locked" /\ mem[p] # NoDocument => mem[p] = file.doc /\ file.kind # "newer"

\* Each damage leaves a journal to put aside.
DamageInv == file.kind = "damaged" => epoch < MaxDamage

\* A call that may still be recorded.
Pending(p) == call[p].n # 0 /\ pc[p] # "answered"

\* Calls are numbered once.
NumberInv ==
  /\ \A p \in Procs :
       /\ call[p].n <= calls
       /\ call[p].epoch <= epoch
       /\ call[p].n = 0 => call[p] = NoCall
       /\ pc[p] # "idle" => call[p].n # 0
       /\ pc[p] = "idle" /\ call[p].n # 0 => call[p].undoes # NoUndo
  /\ \A p, q \in Procs : call[p].n = call[q].n /\ call[p].n # 0 => p = q

\* A call is recorded once.
RecordedInv ==
  \A i \in Held(file.doc) :
    LET e == EntryOf(file.doc, i)
    IN  /\ e.call.n # 0 /\ e.call.n <= calls
        /\ e.call.epoch <= epoch
        /\ e.undone_by < file.doc.next_id
        /\ \A j \in Held(file.doc) : EntryOf(file.doc, j).call.n = e.call.n => i = j
        /\ \A p \in Procs : Pending(p) => call[p].n # e.call.n

\* What was looked up in this journal still goes by its id, if it is still there.
FoundInv ==
  \A p \in Procs :
    Pending(p) /\ call[p].undoes # NoUndo /\ call[p].epoch = epoch =>
      /\ call[p].undoes < file.doc.next_id
      /\ call[p].target <= calls
      /\ \A i \in Held(file.doc) :
           i = call[p].undoes <=> EntryOf(file.doc, i).call.n = call[p].target
      /\ \A q \in Procs : Pending(q) => call[q].n # call[p].target

\* MarksAreTrue by id, and that what an entry undid is not recorded again.
MarksInv ==
  \A j \in Held(file.doc) :
    LET u == EntryOf(file.doc, j)
    IN  u.call.undoes # NoUndo /\ u.call.epoch = epoch =>
          /\ u.call.target <= calls
          /\ \A p \in Procs : Pending(p) => call[p].n # u.call.target
          /\ \A i \in Held(file.doc) :
               LET e == EntryOf(file.doc, i)
               IN  /\ e.undone_by = j => e.call.n = u.call.target
                   /\ e.call.n = u.call.target =>
                        /\ e.undone_by \in Held(file.doc)
                        /\ e.undone_by >= j
                        /\ LET m == EntryOf(file.doc, e.undone_by).call
                           IN  m.epoch # epoch \/ m.target = e.call.n

IndInv ==
  /\ TypeOK
  /\ LockInv
  /\ CopyInv
  /\ DamageInv
  /\ NothingUncounted
  /\ NumberInv
  /\ RecordedInv
  /\ FoundInv
  /\ MarksInv

-----------------------------------------------------------------------------
(* What append does to the document.                                       *)

\* Places and ids of a counted document.
LEMMA DocById ==
  ASSUME NEW doc \in Document, Counted(doc)
  PROVE  /\ doc.next_id \in Nat /\ doc.next_id >= 1 /\ doc.dropped \in Nat
         /\ Len(doc.entries) \in Nat /\ DOMAIN doc.entries = 1..Len(doc.entries)
         /\ \A i \in Held(doc) :
              /\ i \in Nat /\ i # 0 /\ i < doc.next_id
              /\ i - doc.dropped \in DOMAIN doc.entries
              /\ EntryOf(doc, i) \in Entry
              /\ EntryOf(doc, i).id = i
         /\ \A k \in DOMAIN doc.entries :
              /\ doc.dropped + k \in Held(doc)
              /\ EntryOf(doc, doc.dropped + k) = doc.entries[k]
<1>1. /\ doc.next_id \in Nat
      /\ doc.dropped \in Nat
      /\ doc.entries \in Seq(Entry)
  BY DEF Document
<1>2. /\ Len(doc.entries) \in Nat
      /\ DOMAIN doc.entries = 1..Len(doc.entries)
      /\ \A k \in 1..Len(doc.entries) : doc.entries[k] \in Entry
  BY <1>1, LenProperties, ElementOfSeq
<1>3. doc.next_id = doc.dropped + Len(doc.entries) + 1
  BY <1>1, <1>2 DEF Counted
<1>4. ASSUME NEW i \in Held(doc)
      PROVE  /\ i \in Nat /\ i # 0 /\ i < doc.next_id
             /\ i - doc.dropped \in DOMAIN doc.entries
             /\ EntryOf(doc, i) \in Entry
             /\ EntryOf(doc, i).id = i
  <2>1. /\ i \in Nat /\ i # 0 /\ i < doc.next_id
        /\ i - doc.dropped \in DOMAIN doc.entries
    BY <1>1, <1>2, <1>3, <1>4 DEF Held
  <2>2. EntryOf(doc, i).id = doc.dropped + (i - doc.dropped)
    BY <2>1 DEF Counted, EntryOf
  <2> QED
    BY <1>1, <1>2, <2>1, <2>2 DEF EntryOf
<1>5. ASSUME NEW k \in DOMAIN doc.entries
      PROVE  /\ doc.dropped + k \in Held(doc)
             /\ EntryOf(doc, doc.dropped + k) = doc.entries[k]
  <2>1. (doc.dropped + k) - doc.dropped = k
    BY <1>1, <1>2
  <2> QED
    BY <1>1, <1>2, <1>3, <2>1 DEF Held, EntryOf
<1> QED
  BY <1>1, <1>2, <1>3, <1>4, <1>5

\* The entry an append makes of a call.
NewEntry(doc, c) == [id |-> doc.next_id, call |-> c, undone_by |-> NoUndo]

\* What becomes of an entry the document has, when a call is appended.
Kept(doc, c, i) ==
  IF i = c.undoes THEN [EntryOf(doc, i) EXCEPT !.undone_by = doc.next_id]
  ELSE EntryOf(doc, i)

\* append adds one entry under the next id, marks the one it undoes and drops the
\* oldest past kMaxEntries; everything else stays as and where it was.
LEMMA AppendedById ==
  ASSUME NEW doc \in Document, Counted(doc), Len(doc.entries) <= kMaxEntries,
         NEW c \in Call
  PROVE  LET new == Appended(doc, c)
         IN  /\ new \in Document
             /\ Counted(new)
             /\ Len(new.entries) <= kMaxEntries
             /\ new.next_id = doc.next_id + 1
             /\ Held(new) = {i \in Held(doc) \union {doc.next_id} :
                               i + kMaxEntries > doc.next_id}
             /\ doc.next_id \in Held(new)
             /\ EntryOf(new, doc.next_id) = NewEntry(doc, c)
             /\ \A i \in Held(new) \ {doc.next_id} :
                  i \in Held(doc) /\ EntryOf(new, i) = Kept(doc, c, i)
<1> DEFINE id == doc.next_id
           n == Len(doc.entries)
           marked == Marked(doc.entries, c.undoes, id)
           long == Append(marked, NewEntry(doc, c))
           over == n + 1 - kMaxEntries
           d == IF over <= 0 THEN 0 ELSE over
           new == Appended(doc, c)
<1>1. /\ id \in Nat /\ id >= 1 /\ doc.dropped \in Nat /\ n \in Nat
      /\ id = doc.dropped + n + 1
      /\ kMaxEntries \in Nat /\ kMaxEntries >= 1
      /\ n <= kMaxEntries
  BY DocById, ChangeJournalAssumption DEF Counted
<1>0. /\ DOMAIN doc.entries = 1..n
      /\ \A k \in 1..n : doc.entries[k] \in Entry /\ doc.entries[k].id = doc.dropped + k
      /\ doc.entries \in Seq(Entry)
      /\ doc = [next_id |-> id, dropped |-> doc.dropped, entries |-> doc.entries]
  BY DocById, ElementOfSeq DEF Counted, Document
<1>2. NextId(doc) = id
  BY <1>1 DEF NextId
<1> HIDE DEF n, id
<1>3. \A k \in 1..n : marked[k] = IF doc.entries[k].id = c.undoes
                                 THEN [doc.entries[k] EXCEPT !.undone_by = id]
                                 ELSE doc.entries[k]
  BY <1>0 DEF Marked
<1>4. \A k \in 1..n : marked[k] \in Entry /\ marked[k].id = doc.dropped + k
  BY <1>0, <1>1, <1>3 DEF Entry
<1>5. marked \in Seq(Entry) /\ Len(marked) = n
  <2>1. marked \in [1..n -> Entry]
    BY <1>0, <1>4 DEF Marked
  <2> HIDE DEF marked
  <2>2. marked \in Seq(Entry)
    BY <1>1, <2>1, SeqDef
  <2> QED
    BY <1>1, <2>1, <2>2, LenProperties
<1>6. NewEntry(doc, c) \in Entry /\ NewEntry(doc, c).id = id
  BY <1>1 DEF NewEntry, Entry, NoUndo, id
<1> HIDE DEF marked
<1>7. /\ long \in Seq(Entry)
      /\ Len(long) = n + 1
      /\ \A k \in 1..n : long[k] = marked[k]
      /\ long[n + 1] = NewEntry(doc, c)
  BY <1>5, <1>6, AppendProperties
<1> HIDE DEF long
<1>8. \A k \in 1..(n + 1) : long[k] \in Entry /\ long[k].id = doc.dropped + k
  <2> SUFFICES ASSUME NEW k \in 1..(n + 1)
               PROVE  long[k] \in Entry /\ long[k].id = doc.dropped + k
    OBVIOUS
  <2>1. CASE k = n + 1
    BY <1>1, <1>6, <1>7, <2>1
  <2>2. CASE k # n + 1
    <3>1. k \in 1..n
      BY <1>1, <2>2
    <3> QED
      BY <1>4, <1>7, <3>1
  <2> QED
    BY <2>1, <2>2
<1>9. d \in Nat /\ d <= n
  BY <1>1
<1>10. /\ new.next_id = id + 1
       /\ new.dropped = doc.dropped + d
       /\ new.entries \in Seq(Entry)
       /\ Len(new.entries) = n + 1 - d
       /\ \A k \in 1..(n + 1 - d) : new.entries[k] = long[k + d]
       /\ new = [next_id |-> new.next_id, dropped |-> new.dropped, entries |-> new.entries]
  <2> DEFINE grown == [doc EXCEPT !.entries = long]
  <2>1. grown = [next_id |-> id, dropped |-> doc.dropped, entries |-> long]
    BY <1>0
  <2>2. new = [Trimmed(grown) EXCEPT !.next_id = id + 1]
    BY <1>2 DEF Appended, NewEntry, long, marked, id
  <2>3. Len(grown.entries) - kMaxEntries = over
    BY <1>1, <1>7, <2>1
  <2> HIDE DEF grown
  <2>4. CASE over <= 0
    <3>1. Trimmed(grown) = grown
      BY <2>3, <2>4 DEF Trimmed
    <3>2. new = [next_id |-> id + 1, dropped |-> doc.dropped, entries |-> long]
      BY <2>1, <2>2, <3>1
    <3> QED
      BY <1>1, <1>7, <2>4, <3>2
  <2>5. CASE ~(over <= 0)
    <3>1. Trimmed(grown) = [grown EXCEPT !.entries = SubSeq(long, over + 1, n + 1),
                                         !.dropped = doc.dropped + over]
      BY <1>7, <2>1, <2>3, <2>5 DEF Trimmed
    <3>2. new = [next_id |-> id + 1, dropped |-> doc.dropped + over,
                 entries |-> SubSeq(long, over + 1, n + 1)]
      BY <2>1, <2>2, <3>1
    <3>3. /\ SubSeq(long, over + 1, n + 1) \in Seq(Entry)
          /\ Len(SubSeq(long, over + 1, n + 1)) = n + 1 - over
          /\ \A k \in 1..(n + 1 - over) : SubSeq(long, over + 1, n + 1)[k] = long[k + over]
      <4> DEFINE m == over + 1
                 l == n + 1
      <4>1. /\ m \in Int /\ l \in Int /\ m <= l
            /\ l - m + 1 = n + 1 - over
            /\ \A k \in 1..(n + 1 - over) : m + k - 1 = k + over
        BY <1>1
      <4>2. \A k \in m..l : long[k] \in Entry
        BY <1>1, <1>8, <2>5
      <4> HIDE DEF m, l
      <4>3. /\ SubSeq(long, m, l) \in Seq(Entry)
            /\ Len(SubSeq(long, m, l)) = IF m <= l THEN l - m + 1 ELSE 0
            /\ \A k \in 1..(l - m + 1) : SubSeq(long, m, l)[k] = long[m + k - 1]
        BY <4>1, <4>2, SubSeqProperties
      <4>4. /\ SubSeq(long, m, l) \in Seq(Entry)
            /\ Len(SubSeq(long, m, l)) = n + 1 - over
            /\ \A k \in 1..(n + 1 - over) : SubSeq(long, m, l)[k] = long[k + over]
        BY <4>1, <4>3
      <4> QED
        BY <4>4 DEF m, l
    <3>4. d = over
      BY <2>5
    <3> HIDE DEF d
    <3> QED
      BY <3>2, <3>3, <3>4
  <2> QED
    BY <2>4, <2>5
<1> HIDE DEF new, d
<1>11. new \in Document
  BY <1>1, <1>9, <1>10 DEF Document
<1>12. n + 1 - d <= kMaxEntries
  BY <1>1 DEF d
<1>13. Counted(new)
  <2>1. DOMAIN new.entries = 1..(n + 1 - d)
    BY <1>10, LenProperties
  <2>2. ASSUME NEW k \in 1..(n + 1 - d)
        PROVE  new.entries[k].id = new.dropped + k
    <3>1. k + d \in 1..(n + 1)
      BY <1>1, <1>9
    <3>2. new.entries[k].id = doc.dropped + (k + d)
      BY <1>8, <1>10, <3>1
    <3> QED
      BY <1>1, <1>9, <1>10, <3>2
  <2> QED
    BY <1>1, <1>9, <1>10, <2>1, <2>2 DEF Counted
<1>14. Held(new) = {i \in Held(doc) \union {id} : i + kMaxEntries > id}
  <2>1. /\ Held(new) = (doc.dropped + d + 1)..id
        /\ Held(doc) = (doc.dropped + 1)..(id - 1)
    BY <1>1, <1>9, <1>10 DEF Held, id
  <2>2. ASSUME NEW i \in Int
        PROVE  i \in (doc.dropped + d + 1)..id
                 <=> i \in (doc.dropped + 1)..(id - 1) \union {id} /\ i + kMaxEntries > id
    BY <1>1 DEF d
  <2>3. Held(doc) \union {id} \subseteq Int /\ Held(new) \subseteq Int
    BY <1>1, <2>1
  <2> QED
    BY <2>1, <2>2, <2>3
<1>15. ASSUME NEW i \in Held(new)
       PROVE  EntryOf(new, i) = long[i - doc.dropped]
  <2>1. i \in (doc.dropped + d + 1)..id
    BY <1>1, <1>9, <1>10 DEF Held
  <2>2. /\ i - (doc.dropped + d) \in 1..(n + 1 - d)
        /\ (i - (doc.dropped + d)) + d = i - doc.dropped
    BY <1>1, <1>9, <2>1
  <2> QED
    BY <1>10, <2>2 DEF EntryOf
<1>16. id \in Held(new) /\ EntryOf(new, id) = NewEntry(doc, c)
  <2>1. id \in Held(new)
    BY <1>1, <1>14
  <2>2. id - doc.dropped = n + 1
    BY <1>1
  <2> QED
    BY <1>7, <1>15, <2>1, <2>2
<1>17. ASSUME NEW i \in Held(new) \ {id}
       PROVE  i \in Held(doc) /\ EntryOf(new, i) = Kept(doc, c, i)
  <2>1. i \in Held(doc) /\ i \in Nat
    BY <1>1, <1>14, DocById
  <2>2. i - doc.dropped \in 1..n
    BY <1>1, <2>1 DEF Held, id
  <2>3. EntryOf(new, i) = marked[i - doc.dropped]
    BY <1>7, <1>15, <2>2
  <2>4. doc.entries[i - doc.dropped].id = i
    BY <1>0, <1>1, <2>1, <2>2
  <2> QED
    BY <1>3, <2>1, <2>2, <2>3, <2>4 DEF Kept, EntryOf, id
<1> QED
  BY <1>10, <1>11, <1>12, <1>13, <1>14, <1>16, <1>17 DEF new, id

-----------------------------------------------------------------------------
(* The invariant holds at the start.                                       *)

\* A journal that is not there yet.
LEMMA EmptyDocumentFacts ==
  /\ emptyDocument \in Document
  /\ Counted(emptyDocument)
  /\ Len(emptyDocument.entries) = 0
  /\ Held(emptyDocument) = {}
  /\ NoDocument \in Document
  /\ emptyDocument # NoDocument
<1>1. << >> \in Seq(Entry) /\ Len(<< >>) = 0 /\ DOMAIN << >> = {}
  <2>1. << >> \in Seq(Entry) /\ Len(<< >>) = 0
    BY EmptySeq
  <2>2. DOMAIN << >> = 1..Len(<< >>)
    BY <2>1, LenProperties
  <2> QED
    BY <2>1, <2>2
<1>2. emptyDocument.next_id # NoDocument.next_id
  BY DEF emptyDocument, NoDocument
<1> QED
  BY <1>1, <1>2 DEF emptyDocument, NoDocument, Document, Counted, Held

\* A call that is not one.
LEMMA NoCallType == NoCall \in Call /\ NoCall.n = 0 /\ NoCall.undoes = NoUndo /\ NoCall.epoch = 0
BY ChangeJournalAssumption DEF NoCall, Call, NoUndo

\* The invariant holds before anything is recorded.
LEMMA InitIndInv == Init => IndInv
<1> SUFFICES ASSUME Init PROVE IndInv
  OBVIOUS
<1>1. /\ file = [kind |-> "absent", doc |-> emptyDocument]
      /\ mem = [p \in Procs |-> NoDocument]
      /\ call = [p \in Procs |-> NoCall]
      /\ calls = 0 /\ epoch = 0
      /\ clock = 0 /\ lock = NoProc
      /\ pc = [p \in Procs |-> "idle"]
      /\ now = [p \in Procs |-> 0]
  BY DEF Init, LockInit
<1>2. TypeOK
  BY <1>1, EmptyDocumentFacts, NoCallType, ChangeJournalAssumption
     DEF TypeOK, LockTypeOK, Stages, Kinds
<1>3. LockInv /\ CopyInv /\ DamageInv
  BY <1>1, FileLockAssumption DEF LockInv, CopyInv, DamageInv
<1>4. NothingUncounted
  BY <1>1, EmptyDocumentFacts DEF NothingUncounted, Counted
<1>5. NumberInv
  BY <1>1, NoCallType DEF NumberInv
<1>6. Held(file.doc) = {} /\ \A p \in Procs : ~Pending(p)
  BY <1>1, EmptyDocumentFacts, NoCallType DEF Pending
<1>7. RecordedInv /\ FoundInv /\ MarksInv
  BY <1>6 DEF RecordedInv, FoundInv, MarksInv
<1> QED
  BY <1>2, <1>3, <1>4, <1>5, <1>7 DEF IndInv

-----------------------------------------------------------------------------
(* Every step keeps it.                                                    *)

\* What the invariant says of the variables' types and of the file's document.
LEMMA Context ==
  ASSUME IndInv
  PROVE  /\ clock \in Nat /\ lock \in Procs \union {NoProc}
         /\ pc \in [Procs -> Stages] /\ now \in [Procs -> Nat]
         /\ mem \in [Procs -> Document]
         /\ call \in [Procs -> Call]
         /\ calls \in Nat /\ calls <= MaxCalls /\ MaxCalls \in Nat
         /\ epoch \in Nat /\ epoch <= MaxDamage /\ MaxDamage \in Nat
         /\ file.doc \in Document /\ file.kind \in Kinds
         /\ file = [kind |-> file.kind, doc |-> file.doc]
         /\ Len(file.doc.entries) <= kMaxEntries
         /\ Counted(file.doc)
BY ChangeJournalAssumption DEF IndInv, TypeOK, LockTypeOK, NothingUncounted, Counted

\* The numbers of a call and of an entry are numbers.
LEMMA Numbers ==
  ASSUME IndInv
  PROVE  /\ \A p \in Procs : /\ call[p].n \in Nat /\ call[p].undoes \in Nat
                             /\ call[p].target \in Nat /\ call[p].epoch \in Nat
                             /\ call[p].n <= MaxCalls /\ call[p].target <= MaxCalls
         /\ \A i \in Held(file.doc) :
              /\ i \in Nat /\ i # 0 /\ i < file.doc.next_id
              /\ EntryOf(file.doc, i) \in Entry
              /\ EntryOf(file.doc, i).undone_by \in Nat
              /\ EntryOf(file.doc, i).call.n \in Nat
              /\ EntryOf(file.doc, i).call.target \in Nat
              /\ EntryOf(file.doc, i).call.epoch \in Nat
              /\ EntryOf(file.doc, i).call.undoes \in Nat
         /\ file.doc.next_id \in Nat
<1>1. ASSUME NEW c \in Call
      PROVE  /\ c.n \in Nat /\ c.undoes \in Nat /\ c.target \in Nat /\ c.epoch \in Nat
             /\ c.n <= MaxCalls /\ c.target <= MaxCalls
  BY ChangeJournalAssumption DEF Call
<1>2. \A p \in Procs : call[p] \in Call
  BY Context
<1>3. \A i \in Held(file.doc) :
        /\ i \in Nat /\ i # 0 /\ i < file.doc.next_id
        /\ EntryOf(file.doc, i) \in Entry
  BY Context, DocById
<1>4. \A e \in Entry : e.undone_by \in Nat /\ e.call \in Call
  BY DEF Entry
<1> QED
  BY <1>1, <1>2, <1>3, <1>4, Context, DocById

\* A step that leaves the document and the numbers alone, and after which no call
\* may do more than before.
LEMMA QuietKeeps ==
  ASSUME IndInv, file'.doc = file.doc, UNCHANGED <<calls, epoch>>,
         \A q \in Procs : Pending(q)' => Pending(q) /\ call'[q] = call[q]
  PROVE  /\ NothingUncounted'
         /\ RecordedInv'
         /\ FoundInv'
         /\ MarksInv'
<1>1. NothingUncounted'
  BY DEF IndInv, NothingUncounted
<1>2. RecordedInv'
  BY DEF IndInv, RecordedInv
<1>3. FoundInv'
  BY DEF IndInv, FoundInv
<1>4. MarksInv'
  BY DEF IndInv, MarksInv
<1> QED
  BY <1>1, <1>2, <1>3, <1>4

\* The call of a process ends, in an answer, an error or a crash.
LEMMA EndKeeps ==
  ASSUME IndInv, NEW p \in Procs,
         EditorRefuses(p) \/ GivesUp(p) \/ Returns(p) \/ Crash(p)
  PROVE  IndInv'
<1>1. /\ file' = file /\ UNCHANGED <<clock, calls, epoch>>
      /\ call' = [call EXCEPT ![p] = NoCall]
      /\ pc' = [pc EXCEPT ![p] = "idle"]
      /\ now' \in [Procs -> Nat]
      /\ mem' = [mem EXCEPT ![p] = NoDocument]
      /\ \/ lock' = lock /\ lock # p
         \/ lock = p /\ lock' = NoProc
  <2>1. CASE EditorRefuses(p)
    <3>1. pc[p] = "idle" /\ mem[p] = NoDocument /\ lock # p
      BY <2>1 DEF EditorRefuses, IndInv, CopyInv, LockInv
    <3>2. pc' = pc /\ mem' = mem /\ UNCHANGED <<clock, lock, now, file, calls, epoch>>
      BY <2>1 DEF EditorRefuses
    <3> QED
      BY <2>1, <3>1, <3>2, Context DEF EditorRefuses
  <2>2. CASE GivesUp(p)
    <3>1. pc[p] = "waiting" /\ mem[p] = NoDocument /\ lock # p
      BY <2>2 DEF GivesUp, GiveUp, IndInv, CopyInv, LockInv
    <3> QED
      BY <2>2, <3>1, Context DEF GivesUp, GiveUp
  <2>3. CASE Returns(p)
    <3>1. lock = p
      BY <2>3 DEF Returns, Release, IndInv, LockInv
    <3> QED
      BY <2>3, <3>1, Context DEF Returns, Release
  <2>4. CASE Crash(p)
    BY <2>4, Context DEF Crash, Die
  <2> QED
    BY <2>1, <2>2, <2>3, <2>4
<1>2. TypeOK'
  BY <1>1, NoCallType, EmptyDocumentFacts DEF IndInv, TypeOK, LockTypeOK, Stages
<1>3. LockInv'
  BY <1>1, Context, FileLockAssumption DEF IndInv, LockInv
<1>4. CopyInv' /\ DamageInv'
  BY <1>1, Context DEF IndInv, CopyInv, DamageInv
<1>5. \A q \in Procs : Pending(q)' => Pending(q) /\ call'[q] = call[q]
  BY <1>1, Context, NoCallType DEF Pending
<1>6. NumberInv'
  BY <1>1, Context, Numbers, NoCallType DEF IndInv, NumberInv
<1> QED
  BY <1>1, <1>2, <1>3, <1>4, <1>5, <1>6, QuietKeeps DEF IndInv

\* The steps under the lock, and to it, that write nothing.
LEMMA HoldKeeps ==
  ASSUME IndInv, NEW p \in Procs,
         Acquires(p) \/ Reads(p) \/ Refuses(p) \/ WriteFails(p)
  PROVE  IndInv'
<1>1. /\ file' = file /\ UNCHANGED <<clock, now, call, calls, epoch>>
      /\ \/ /\ pc[p] = "waiting" /\ lock = NoProc /\ lock' = p
            /\ pc' = [pc EXCEPT ![p] = "locked"] /\ mem' = mem
         \/ /\ pc[p] = "locked" /\ UNCHANGED <<lock, pc>>
            /\ file.kind # "newer"
            /\ mem' = [mem EXCEPT ![p] = file.doc]
         \/ /\ pc[p] = "locked" /\ UNCHANGED <<lock, mem>>
            /\ pc' = [pc EXCEPT ![p] = "answered"]
  BY DEF Acquires, Acquire, Reads, Holds, Refuses, WriteFails, Operate, journalVars
<1>2. TypeOK'
  BY <1>1, Context DEF IndInv, TypeOK, LockTypeOK, Stages
<1>3. LockInv'
  BY <1>1, Context, FileLockAssumption DEF IndInv, LockInv
<1>4. CopyInv' /\ DamageInv'
  BY <1>1, Context DEF IndInv, CopyInv, DamageInv
<1>5. \A q \in Procs : /\ pc[q] # "idle" <=> pc'[q] # "idle"
                       /\ pc'[q] # "answered" => pc[q] # "answered"
                       /\ pc'[q] \in {"waiting", "locked"} => pc[q] \in {"waiting", "locked"}
  BY <1>1, Context
<1>6. \A q \in Procs : Pending(q)' => Pending(q) /\ call'[q] = call[q]
  BY <1>1, <1>5 DEF Pending
<1>7. NumberInv'
  BY <1>1, <1>5 DEF IndInv, NumberInv
<1> QED
  BY <1>1, <1>2, <1>3, <1>4, <1>6, <1>7, QuietKeeps DEF IndInv

\* What happens outside the program, and time.
LEMMA OutsideKeeps ==
  ASSUME IndInv, Damage \/ NewerWrites \/ Advance \/ UNCHANGED vars
  PROVE  IndInv'
<1>1. /\ file'.doc = file.doc /\ UNCHANGED <<lock, pc, now, mem, call, calls, epoch>>
      /\ clock' \in Nat
      /\ file' \in [kind : Kinds, doc : Document]
      /\ file'.kind = "newer" => file.kind = "newer" \/ lock = NoProc
  BY Context DEF Damage, NewerWrites, Advance, Tick, journalVars, vars, Kinds
<1>2. TypeOK'
  BY <1>1 DEF IndInv, TypeOK, LockTypeOK
<1>3. LockInv' /\ CopyInv'
  BY <1>1, FileLockAssumption DEF IndInv, LockInv, CopyInv
<1>6. DamageInv'
  BY Context DEF Damage, NewerWrites, Advance, journalVars, vars, IndInv, DamageInv
<1>4. \A q \in Procs : Pending(q)' => Pending(q) /\ call'[q] = call[q]
  BY <1>1 DEF Pending
<1>5. NumberInv'
  BY <1>1 DEF IndInv, NumberInv
<1> QED
  BY <1>1, <1>2, <1>3, <1>4, <1>5, <1>6, QuietKeeps DEF IndInv

\* A call that undoes nothing is made.
LEMMA CallEndsKeeps ==
  ASSUME IndInv, NEW p \in Procs, CallEnds(p)
  PROVE  IndInv'
<1> DEFINE c == [NoCall EXCEPT !.n = calls + 1]
<1>1. /\ pc[p] = "idle" /\ call[p] = NoCall /\ calls < MaxCalls
      /\ UNCHANGED <<clock, lock, file, mem, epoch>>
      /\ pc' = [pc EXCEPT ![p] = "waiting"]
      /\ now' = [now EXCEPT ![p] = clock]
      /\ call' = [call EXCEPT ![p] = c]
      /\ calls' = calls + 1
  BY DEF CallEnds, Free, Arrive
<1>2. c \in Call /\ c.n = calls + 1 /\ c.undoes = NoUndo /\ c.epoch = 0
  <2>1. c = [n |-> calls + 1, undoes |-> NoUndo, target |-> 0, epoch |-> 0]
    BY DEF NoCall
  <2>2. /\ calls + 1 \in 0..MaxCalls /\ NoUndo \in Nat
        /\ 0 \in 0..MaxCalls /\ 0 \in 0..MaxDamage
    BY <1>1, Context DEF NoUndo
  <2> QED
    BY <2>1, <2>2 DEF Call
<1> HIDE DEF c
<1>3. TypeOK'
  BY <1>1, <1>2, Context DEF IndInv, TypeOK, LockTypeOK, Stages
<1>4. LockInv' /\ CopyInv' /\ DamageInv' /\ NothingUncounted'
  BY <1>1, Context DEF IndInv, LockInv, CopyInv, DamageInv, NothingUncounted
<1>5. /\ \A q \in Procs : q # p => call'[q] = call[q] /\ pc'[q] = pc[q]
      /\ call'[p] = c /\ pc'[p] = "waiting"
  BY <1>1, Context
<1>6. /\ \A q \in Procs : Pending(q)' => q = p \/ Pending(q)
      /\ \A q \in Procs : Pending(q)' /\ call'[q].undoes # NoUndo => Pending(q) /\ q # p
  BY <1>2, <1>5 DEF Pending
<1>7. NumberInv'
  BY <1>1, <1>2, <1>5, Context, Numbers DEF IndInv, NumberInv
<1>8. RecordedInv'
  <2>1. \A j \in Held(file.doc) : /\ EntryOf(file.doc, j).call.n <= calls + 1
                                  /\ EntryOf(file.doc, j).call.n # calls + 1
    BY Context, Numbers DEF IndInv, RecordedInv
  <2> QED
    BY <1>1, <1>2, <1>5, <1>6, <2>1 DEF IndInv, RecordedInv
<1>9. FoundInv'
  BY <1>1, <1>2, <1>5, <1>6, Context, Numbers DEF IndInv, FoundInv
<1>10. MarksInv'
  <2>1. \A j \in Held(file.doc) :
          LET u == EntryOf(file.doc, j)
          IN  u.call.undoes # NoUndo /\ u.call.epoch = epoch =>
                u.call.target <= calls + 1 /\ u.call.target # calls + 1
    BY Context, Numbers DEF IndInv, MarksInv
  <2> QED
    BY <1>1, <1>2, <1>5, <1>6, <2>1 DEF IndInv, MarksInv
<1> QED
  BY <1>3, <1>4, <1>7, <1>8, <1>9, <1>10 DEF IndInv

\* An entry to undo is looked up.
LEMMA FindEntryKeeps ==
  ASSUME IndInv, NEW p \in Procs, findEntry(p)
  PROVE  IndInv'
<1>1. /\ pc[p] = "idle" /\ call[p] = NoCall /\ calls < MaxCalls
      /\ UNCHANGED <<clock, lock, pc, now, file, mem, epoch>>
      /\ calls' = calls + 1
  BY DEF findEntry, Free
<1>2. PICK i \in Held(file.doc) :
        call' = [call EXCEPT ![p] = [n |-> calls + 1, undoes |-> i,
                                     target |-> EntryOf(file.doc, i).call.n, epoch |-> epoch]]
  <2>1. PICK k \in DOMAIN file.doc.entries :
          call' = [call EXCEPT ![p] = [n |-> calls + 1, undoes |-> file.doc.entries[k].id,
                                       target |-> file.doc.entries[k].call.n, epoch |-> epoch]]
    BY DEF findEntry
  <2>2. /\ file.doc.dropped + k \in Held(file.doc)
        /\ EntryOf(file.doc, file.doc.dropped + k) = file.doc.entries[k]
        /\ EntryOf(file.doc, file.doc.dropped + k).id = file.doc.dropped + k
    BY Context, DocById
  <2> QED
    BY <2>1, <2>2
<1> DEFINE e == EntryOf(file.doc, i)
           c == [n |-> calls + 1, undoes |-> i, target |-> e.call.n, epoch |-> epoch]
<1>3. /\ c \in Call /\ c.n = calls + 1 /\ c.undoes = i /\ c.target = e.call.n
      /\ c.epoch = epoch /\ e.call.n <= calls /\ e.call.n # 0 /\ c.target # calls + 1
  <2>1. e.call.n \in Nat /\ e.call.n <= calls /\ i \in Nat /\ e.call.n # 0
    BY Numbers DEF IndInv, RecordedInv
  <2>2. /\ calls + 1 \in 0..MaxCalls /\ e.call.n \in 0..MaxCalls
        /\ epoch \in 0..MaxDamage /\ e.call.n # calls + 1
    BY <1>1, <2>1, Context
  <2> QED
    BY <2>1, <2>2 DEF Call
<1>4. /\ \A q \in Procs : q # p => call'[q] = call[q]
      /\ call'[p] = c
      /\ call' = [call EXCEPT ![p] = c]
  BY <1>2, Context
<1> HIDE DEF c
<1>5. TypeOK'
  BY <1>1, <1>3, <1>4, Context DEF IndInv, TypeOK, LockTypeOK
<1>6. LockInv' /\ CopyInv' /\ DamageInv' /\ NothingUncounted'
  BY <1>1 DEF IndInv, LockInv, CopyInv, DamageInv, NothingUncounted
<1>7. \A q \in Procs : Pending(q)' => q = p \/ Pending(q)
  BY <1>1, <1>4 DEF Pending
<1>8. NumberInv'
  BY <1>1, <1>3, <1>4, Context, Numbers DEF IndInv, NumberInv, NoUndo
<1>9. RecordedInv'
  <2>1. \A j \in Held(file.doc) : /\ EntryOf(file.doc, j).call.n <= calls + 1
                                  /\ EntryOf(file.doc, j).call.n # calls + 1
    BY Context, Numbers DEF IndInv, RecordedInv
  <2> HIDE DEF e
  <2> QED
    BY <1>1, <1>3, <1>4, <1>7, <2>1 DEF IndInv, RecordedInv
<1>10. FoundInv'
  <2> SUFFICES ASSUME NEW r \in Procs, Pending(r)', call'[r].undoes # NoUndo,
                      call'[r].epoch = epoch
               PROVE  /\ call'[r].undoes < file.doc.next_id
                      /\ call'[r].target <= calls + 1
                      /\ \A j \in Held(file.doc) :
                           j = call'[r].undoes <=> EntryOf(file.doc, j).call.n = call'[r].target
                      /\ \A q \in Procs : Pending(q)' => call'[q].n # call'[r].target
    BY <1>1 DEF FoundInv
  <2>1. CASE r = p
    <3>1. /\ i < file.doc.next_id
          /\ \A j \in Held(file.doc) : j = i <=> EntryOf(file.doc, j).call.n = e.call.n
          /\ \A q \in Procs : Pending(q) => call[q].n # e.call.n
      BY Numbers DEF IndInv, RecordedInv
    <3>2. e.call.n <= calls + 1
      BY <1>3, Numbers, Context
    <3> QED
      BY <1>3, <1>4, <1>7, <2>1, <3>1, <3>2
  <2>2. CASE r # p
    <3>1. /\ call[r].undoes < file.doc.next_id
          /\ call[r].target <= calls
          /\ \A j \in Held(file.doc) :
               j = call[r].undoes <=> EntryOf(file.doc, j).call.n = call[r].target
          /\ \A q \in Procs : Pending(q) => call[q].n # call[r].target
      BY <1>4, <1>7, <2>2 DEF IndInv, FoundInv
    <3>2. call[r].target <= calls + 1 /\ calls + 1 # call[r].target
      BY <3>1, Numbers, Context
    <3> QED
      BY <1>3, <1>4, <1>7, <2>2, <3>1, <3>2
  <2> QED
    BY <2>1, <2>2
<1>11. MarksInv'
  <2>1. \A j \in Held(file.doc) :
          LET u == EntryOf(file.doc, j)
          IN  u.call.undoes # NoUndo /\ u.call.epoch = epoch =>
                u.call.target <= calls + 1 /\ u.call.target # calls + 1
    BY Context, Numbers DEF IndInv, MarksInv
  <2> QED
    BY <1>1, <1>3, <1>4, <1>7, <2>1 DEF IndInv, MarksInv
<1> QED
  BY <1>5, <1>6, <1>8, <1>9, <1>10, <1>11 DEF IndInv

\* The editor undoes what was looked up.
LEMMA EditorUndoesKeeps ==
  ASSUME IndInv, NEW p \in Procs, EditorUndoes(p)
  PROVE  IndInv'
<1>1. /\ pc[p] = "idle" /\ call[p].target # 0
      /\ UNCHANGED <<clock, lock, file, mem, call, calls, epoch>>
      /\ pc' = [pc EXCEPT ![p] = "waiting"]
      /\ now' = [now EXCEPT ![p] = clock]
  BY DEF EditorUndoes, Arrive, NoCall
<1>2. call[p] # NoCall /\ call[p].n # 0
  BY <1>1 DEF NoCall, IndInv, NumberInv
<1>3. TypeOK'
  BY <1>1, Context, Numbers DEF IndInv, TypeOK, LockTypeOK, Stages
<1>4. LockInv' /\ CopyInv' /\ DamageInv' /\ NothingUncounted'
  BY <1>1, Context DEF IndInv, LockInv, CopyInv, DamageInv, NothingUncounted
<1>5. /\ \A q \in Procs : Pending(q)' <=> Pending(q)
  BY <1>1, Context DEF Pending
<1>6. NumberInv'
  BY <1>1, <1>2, Context DEF IndInv, NumberInv
<1>7. RecordedInv' /\ FoundInv' /\ MarksInv'
  BY <1>1, <1>5 DEF IndInv, RecordedInv, FoundInv, MarksInv
<1> QED
  BY <1>3, <1>4, <1>6, <1>7 DEF IndInv

\* A damaged journal is put aside.
LEMMA MovesAsideKeeps ==
  ASSUME IndInv, NEW p \in Procs, MovesAside(p)
  PROVE  IndInv'
<1>1. /\ pc[p] = "locked" /\ mem[p] = NoDocument
      /\ file' = [kind |-> "absent", doc |-> emptyDocument]
      /\ mem' = [mem EXCEPT ![p] = emptyDocument]
      /\ epoch' = epoch + 1
      /\ UNCHANGED <<clock, lock, pc, now, call, calls>>
      /\ epoch < MaxDamage
  BY DEF MovesAside, Holds, IndInv, DamageInv
<1>2. TypeOK'
  BY <1>1, Context, EmptyDocumentFacts, ChangeJournalAssumption
     DEF IndInv, TypeOK, LockTypeOK, Kinds
<1>3. LockInv' /\ NothingUncounted'
  BY <1>1, EmptyDocumentFacts DEF IndInv, LockInv, NothingUncounted, Counted
<1>4. CopyInv' /\ DamageInv'
  BY <1>1, Context DEF IndInv, CopyInv, LockInv, DamageInv
<1>5. NumberInv'
  BY <1>1, Context, Numbers DEF IndInv, NumberInv
<1>6. Held(file'.doc) = {} /\ \A q \in Procs : call'[q].epoch # epoch'
  BY <1>1, Context, Numbers, EmptyDocumentFacts DEF IndInv, NumberInv
<1>7. RecordedInv' /\ FoundInv' /\ MarksInv'
  BY <1>6 DEF RecordedInv, FoundInv, MarksInv
<1> QED
  BY <1>2, <1>3, <1>4, <1>5, <1>7 DEF IndInv

\* What a write is: one more entry on what the file held.
Written(p) ==
  /\ pc[p] = "locked"
  /\ pc' = [pc EXCEPT ![p] = "answered"]
  /\ file.kind # "newer"
  /\ file' = [kind |-> "ok", doc |-> Appended(file.doc, call[p])]
  /\ UNCHANGED <<clock, lock, now, mem, call, calls, epoch>>

\* A write of the holder's copy is a write on top of the file's document.
LEMMA WritesIsWritten ==
  ASSUME IndInv, NEW p \in Procs, Writes(p)
  PROVE  Written(p)
BY DEF Writes, Operate, Written, IndInv, CopyInv

\* The entries a write leaves, against those it found.
LEMMA WrittenById ==
  ASSUME IndInv, NEW p \in Procs, Written(p)
  PROVE  LET doc == file.doc
             id == file.doc.next_id
             new == file'.doc
             c == call[p]
         IN  /\ new \in Document /\ Counted(new) /\ Len(new.entries) <= kMaxEntries
             /\ new.next_id = id + 1 /\ id \in Nat
             /\ id \in Held(new) /\ id \notin Held(doc)
             /\ EntryOf(new, id).call = c
             /\ EntryOf(new, id).undone_by = NoUndo
             /\ Held(new) \subseteq Held(doc) \union {id}
             /\ \A i \in Held(doc), j \in Held(new) : i >= j => i \in Held(new)
             /\ \A i \in Held(new) \ {id} :
                  /\ EntryOf(new, i).call = EntryOf(doc, i).call
                  /\ EntryOf(new, i).undone_by =
                       IF i = c.undoes THEN id ELSE EntryOf(doc, i).undone_by
<1> DEFINE doc == file.doc
           id == file.doc.next_id
           c == call[p]
           new == Appended(doc, c)
<1>1. doc \in Document /\ Counted(doc) /\ Len(doc.entries) <= kMaxEntries /\ c \in Call
  BY Context
<1>2. /\ new \in Document /\ Counted(new) /\ Len(new.entries) <= kMaxEntries
      /\ new.next_id = id + 1
      /\ Held(new) = {i \in Held(doc) \union {id} : i + kMaxEntries > id}
      /\ id \in Held(new)
      /\ EntryOf(new, id) = NewEntry(doc, c)
      /\ \A i \in Held(new) \ {id} : i \in Held(doc) /\ EntryOf(new, i) = Kept(doc, c, i)
  BY <1>1, AppendedById
<1>3. file'.doc = new
  BY DEF Written
<1>4. id \in Nat /\ \A i \in Held(doc) : i \in Nat /\ i < id /\ EntryOf(doc, i) \in Entry
  BY Numbers
<1>5. id \notin Held(doc)
  BY <1>4
<1> HIDE DEF new
<1>6. /\ EntryOf(new, id).call = c
      /\ EntryOf(new, id).undone_by = NoUndo
  BY <1>2 DEF NewEntry
<1>7. \A i \in Held(doc), j \in Held(new) : i >= j => i \in Held(new)
  <2> TAKE i \in Held(doc), j \in Held(new)
  <2> HAVE i >= j
  <2>1. j \in Nat /\ i \in Nat /\ j + kMaxEntries > id
    BY <1>2, <1>4
  <2> QED
    BY <1>2, <1>4, <2>1, ChangeJournalAssumption
<1>8. \A i \in Held(new) \ {id} :
        /\ EntryOf(new, i).call = EntryOf(doc, i).call
        /\ EntryOf(new, i).undone_by =
             IF i = c.undoes THEN id ELSE EntryOf(doc, i).undone_by
  <2> TAKE i \in Held(new) \ {id}
  <2>1. EntryOf(doc, i) \in Entry /\ EntryOf(new, i) = Kept(doc, c, i)
    BY <1>2, <1>4
  <2> QED
    BY <2>1 DEF Kept, Entry
<1>9. Held(new) \subseteq Held(doc) \union {id}
  BY <1>2
<1> QED
  BY <1>2, <1>3, <1>4, <1>5, <1>6, <1>7, <1>8, <1>9

\* A call is recorded.
LEMMA WritesKeeps ==
  ASSUME IndInv, NEW p \in Procs, Writes(p)
  PROVE  IndInv'
<1> DEFINE doc == file.doc
           id == file.doc.next_id
           new == file'.doc
           c == call[p]
<1>0. Written(p)
  BY WritesIsWritten
<1>1. /\ pc[p] = "locked"
      /\ pc' = [pc EXCEPT ![p] = "answered"]
      /\ file' = [kind |-> "ok", doc |-> new]
      /\ UNCHANGED <<clock, lock, now, mem, call, calls, epoch>>
  BY <1>0 DEF Written
<1>2. /\ new \in Document /\ Counted(new) /\ Len(new.entries) <= kMaxEntries
      /\ new.next_id = id + 1 /\ id \in Nat /\ id # 0
  BY <1>0, WrittenById, Context, DocById
<1>3. /\ id \in Held(new) /\ id \notin Held(doc)
      /\ EntryOf(new, id).call = c
      /\ EntryOf(new, id).undone_by = NoUndo
      /\ Held(new) \subseteq Held(doc) \union {id}
      /\ \A i \in Held(doc), j \in Held(new) : i >= j => i \in Held(new)
  BY <1>0, WrittenById
<1>4. \A i \in Held(new) \ {id} :
        /\ i \in Held(doc)
        /\ EntryOf(new, i).call = EntryOf(doc, i).call
        /\ EntryOf(new, i).undone_by = IF i = c.undoes THEN id ELSE EntryOf(doc, i).undone_by
  BY <1>0, WrittenById
<1>5. TypeOK'
  BY <1>1, <1>2, Context DEF IndInv, TypeOK, LockTypeOK, Stages, Kinds
<1>6. LockInv' /\ DamageInv'
  BY <1>1, Context DEF IndInv, LockInv, DamageInv
<1>7. CopyInv'
  BY <1>1, Context DEF IndInv, CopyInv, LockInv
<1>8. NothingUncounted'
  BY <1>2 DEF NothingUncounted, Counted
<1>9. NumberInv'
  BY <1>1, Context DEF IndInv, NumberInv
<1>10. /\ \A q \in Procs : Pending(q)' => Pending(q) /\ q # p
       /\ Pending(p)
  BY <1>1, Context DEF Pending, IndInv, NumberInv
<1> HIDE DEF new, id, doc, c
<1>11. /\ c.n # 0 /\ c.n <= calls /\ c.epoch <= epoch
       /\ \A i \in Held(doc) : EntryOf(doc, i).call.n # c.n
       /\ \A q \in Procs : Pending(q)' => call[q].n # c.n
  BY <1>10 DEF IndInv, NumberInv, RecordedInv, Pending, c, doc
<1>12. \A i \in Held(doc) :
         LET e == EntryOf(doc, i)
         IN  /\ i \in Nat /\ i # 0 /\ i < id
             /\ e.undone_by \in Nat /\ e.undone_by < id
             /\ e.call.n # 0 /\ e.call.n <= calls
             /\ e.call.epoch <= epoch
             /\ \A j \in Held(doc) : EntryOf(doc, j).call.n = e.call.n => i = j
             /\ \A q \in Procs : Pending(q) => call[q].n # e.call.n
  BY Numbers DEF IndInv, RecordedInv, doc, id
<1>13. RecordedInv'
  <2> SUFFICES ASSUME NEW i \in Held(new)
               PROVE  LET e == EntryOf(new, i)
                      IN  /\ e.call.n # 0 /\ e.call.n <= calls
                          /\ e.call.epoch <= epoch
                          /\ e.undone_by < id + 1
                          /\ \A j \in Held(new) : EntryOf(new, j).call.n = e.call.n => i = j
                          /\ \A q \in Procs : Pending(q)' => call[q].n # e.call.n
    BY <1>1, <1>2 DEF RecordedInv, new
  <2>1. CASE i = id
    BY <1>2, <1>3, <1>4, <1>11, <2>1 DEF NoUndo
  <2>2. CASE i # id
    <3>1. /\ i \in Held(doc)
          /\ EntryOf(new, i).call = EntryOf(doc, i).call
          /\ EntryOf(new, i).undone_by < id + 1
      BY <1>2, <1>4, <1>12, <2>2
    <3>2. \A j \in Held(new) : EntryOf(new, j).call.n = EntryOf(doc, i).call.n => i = j
      BY <1>3, <1>4, <1>11, <1>12, <3>1
    <3> QED
      BY <1>10, <1>12, <3>1, <3>2
  <2> QED
    BY <2>1, <2>2
<1>14. FoundInv'
  <2> SUFFICES ASSUME NEW r \in Procs, Pending(r)', call[r].undoes # NoUndo,
                      call[r].epoch = epoch
               PROVE  /\ call[r].undoes < id + 1
                      /\ call[r].target <= calls
                      /\ \A i \in Held(new) :
                           i = call[r].undoes <=> EntryOf(new, i).call.n = call[r].target
                      /\ \A q \in Procs : Pending(q)' => call[q].n # call[r].target
    BY <1>1, <1>2 DEF FoundInv, new
  <2>1. /\ call[r].undoes < id
        /\ call[r].target <= calls
        /\ \A i \in Held(doc) :
             i = call[r].undoes <=> EntryOf(doc, i).call.n = call[r].target
        /\ \A q \in Procs : Pending(q) => call[q].n # call[r].target
    BY <1>10 DEF IndInv, FoundInv, doc, id
  <2>2. call[r].undoes # id /\ call[r].undoes < id + 1 /\ c.n # call[r].target
    BY <1>2, <1>10, <2>1, Numbers DEF c
  <2> QED
    BY <1>3, <1>4, <1>10, <2>1, <2>2
<1>15. MarksInv'
  <2> SUFFICES ASSUME NEW j \in Held(new), EntryOf(new, j).call.undoes # NoUndo,
                      EntryOf(new, j).call.epoch = epoch
               PROVE  LET t == EntryOf(new, j).call.target
                      IN  /\ t <= calls
                          /\ \A q \in Procs : Pending(q)' => call[q].n # t
                          /\ \A i \in Held(new) :
                               LET e == EntryOf(new, i)
                               IN  /\ e.undone_by = j => e.call.n = t
                                   /\ e.call.n = t =>
                                        /\ e.undone_by \in Held(new)
                                        /\ e.undone_by >= j
                                        /\ LET m == EntryOf(new, e.undone_by).call
                                           IN  m.epoch # epoch \/ m.target = e.call.n
    BY <1>1 DEF MarksInv, new
  <2> DEFINE t == EntryOf(new, j).call.target
  <2>1. CASE j = id
    <3>1. t = c.target /\ c.undoes # NoUndo /\ c.epoch = epoch
      BY <1>3, <2>1
    <3>2. /\ c.target <= calls
          /\ \A i \in Held(doc) : i = c.undoes <=> EntryOf(doc, i).call.n = c.target
          /\ \A q \in Procs : Pending(q) => call[q].n # c.target
      BY <1>10, <3>1 DEF IndInv, FoundInv, doc, c
    <3>3. c.n # c.target
      BY <1>10, <3>2 DEF c
    <3>4. ASSUME NEW i \in Held(new)
          PROVE  LET e == EntryOf(new, i)
                 IN  /\ e.undone_by = id => e.call.n = c.target
                     /\ e.call.n = c.target => e.undone_by = id
      <4>1. CASE i = id
        BY <1>2, <1>3, <1>12, <3>3, <4>1, Numbers DEF NoUndo
      <4>2. CASE i # id
        <5>1. EntryOf(doc, i).undone_by # id
          BY <1>2, <1>4, <1>12, <4>2
        <5> QED
          BY <1>4, <3>2, <4>2, <5>1
      <4> QED
        BY <4>1, <4>2
    <3> QED
      BY <1>2, <1>3, <1>10, <2>1, <3>1, <3>2, <3>4
  <2>2. CASE j # id
    <3>1. /\ j \in Held(doc)
          /\ EntryOf(new, j).call = EntryOf(doc, j).call
          /\ EntryOf(doc, j).call.undoes # NoUndo /\ EntryOf(doc, j).call.epoch = epoch
      BY <1>4, <2>2
    <3>2. /\ t <= calls
          /\ \A q \in Procs : Pending(q) => call[q].n # t
          /\ \A i \in Held(doc) :
               LET e == EntryOf(doc, i)
               IN  /\ e.undone_by = j => e.call.n = t
                   /\ e.call.n = t =>
                        /\ e.undone_by \in Held(doc)
                        /\ e.undone_by >= j
                        /\ LET m == EntryOf(doc, e.undone_by).call
                           IN  m.epoch # epoch \/ m.target = e.call.n
      BY <3>1 DEF IndInv, MarksInv, doc
    <3>3. j # 0 /\ j < id /\ j \in Nat
      BY <1>12, <3>1
    <3>4. c.n # t
      BY <1>10, <3>2 DEF c
    <3> HIDE DEF t
    <3>5. ASSUME NEW i \in Held(new)
          PROVE  LET e == EntryOf(new, i)
                 IN  /\ e.undone_by = j => e.call.n = t
                     /\ e.call.n = t =>
                          /\ e.undone_by \in Held(new)
                          /\ e.undone_by >= j
                          /\ LET m == EntryOf(new, e.undone_by).call
                             IN  m.epoch # epoch \/ m.target = e.call.n
      <4>1. CASE i = id
        BY <1>3, <3>3, <3>4, <4>1 DEF NoUndo
      <4>2. CASE i # id /\ i = c.undoes
        <5>1. /\ i \in Held(doc) /\ EntryOf(new, i).undone_by = id
              /\ EntryOf(new, i).call = EntryOf(doc, i).call
              /\ i # 0
          BY <1>4, <1>12, <4>2
        <5>2. c.epoch # epoch \/ c.target = EntryOf(doc, i).call.n
          <6>1. c.undoes # NoUndo
            BY <4>2, <5>1 DEF NoUndo
          <6> QED
            BY <1>10, <4>2, <5>1, <6>1 DEF IndInv, FoundInv, doc, c
        <5> QED
          BY <1>2, <1>3, <3>3, <5>1, <5>2
      <4>3. CASE i # id /\ i # c.undoes
        <5>1. /\ i \in Held(doc)
              /\ EntryOf(new, i).undone_by = EntryOf(doc, i).undone_by
              /\ EntryOf(new, i).call = EntryOf(doc, i).call
          BY <1>4, <4>3
        <5>2. ASSUME EntryOf(doc, i).call.n = t
              PROVE  LET k == EntryOf(doc, i).undone_by
                     IN  /\ k \in Held(new) /\ k # id
                         /\ EntryOf(new, k).call = EntryOf(doc, k).call
          BY <1>3, <1>4, <3>2, <5>1, <5>2
        <5> QED
          BY <3>2, <5>1, <5>2
      <4> QED
        BY <4>1, <4>2, <4>3
    <3> QED
      BY <1>10, <3>2, <3>5 DEF t
  <2> QED
    BY <2>1, <2>2
<1> QED
  BY <1>5, <1>6, <1>7, <1>8, <1>9, <1>13, <1>14, <1>15 DEF IndInv

\* Every step keeps the invariant.
LEMMA NextIndInv == IndInv /\ [Next]_vars => IndInv'
<1> SUFFICES ASSUME IndInv, [Next]_vars PROVE IndInv'
  OBVIOUS
<1>1. ASSUME NEW p \in Procs, EditorRefuses(p) \/ GivesUp(p) \/ Returns(p) \/ Crash(p)
      PROVE  IndInv'
  BY <1>1, EndKeeps
<1>2. ASSUME NEW p \in Procs, Acquires(p) \/ Reads(p) \/ Refuses(p) \/ WriteFails(p)
      PROVE  IndInv'
  BY <1>2, HoldKeeps
<1>3. ASSUME NEW p \in Procs, CallEnds(p) PROVE IndInv'
  BY <1>3, CallEndsKeeps
<1>4. ASSUME NEW p \in Procs, findEntry(p) PROVE IndInv'
  BY <1>4, FindEntryKeeps
<1>5. ASSUME NEW p \in Procs, EditorUndoes(p) PROVE IndInv'
  BY <1>5, EditorUndoesKeeps
<1>6. ASSUME NEW p \in Procs, MovesAside(p) PROVE IndInv'
  BY <1>6, MovesAsideKeeps
<1>7. ASSUME NEW p \in Procs, Writes(p) PROVE IndInv'
  BY <1>7, WritesKeeps
<1>8. CASE Damage \/ NewerWrites \/ Advance \/ UNCHANGED vars
  BY <1>8, OutsideKeeps
<1> QED
  BY <1>1, <1>2, <1>3, <1>4, <1>5, <1>6, <1>7, <1>8 DEF Next, Horizon

\* The invariant holds in every state the servers reach.
THEOREM JournalInvariant == Spec => []IndInv
BY InitIndInv, NextIndInv, PTL DEF Spec

-----------------------------------------------------------------------------
(* The properties.                                                         *)

\* Every variable keeps its type, and the journal its bound of kMaxEntries,
\* through every failure, damage and crash.
THEOREM TypeCorrect == Spec => []TypeOK
<1>1. IndInv => TypeOK
  BY DEF IndInv
<1> QED
  BY <1>1, JournalInvariant, PTL

\* The ids are consecutive and every entry ever recorded is held or counted.
THEOREM EverythingCounted == Spec => []NothingUncounted
<1>1. IndInv => NothingUncounted
  BY DEF IndInv
<1> QED
  BY <1>1, JournalInvariant, PTL

\* A mark names the newest recorded undo of the change, for any history of
\* look-ups, undos, redos, appends, drops, damages and crashes; only an undo looked
\* up in a journal put aside since may have come over it.
THEOREM MarksTrue == Spec => []MarksAreTrue
<1>1. ASSUME IndInv PROVE MarksAreTrue
  <2> DEFINE doc == file.doc
             entries == file.doc.entries
  <2>1. /\ doc.dropped \in Nat /\ Len(entries) \in Nat /\ DOMAIN entries = 1..Len(entries)
        /\ \A i \in Held(doc) : /\ i \in Nat /\ i - doc.dropped \in DOMAIN entries
                                /\ EntryOf(doc, i).id = i
        /\ \A k \in DOMAIN entries :
             /\ doc.dropped + k \in Held(doc)
             /\ EntryOf(doc, doc.dropped + k) = entries[k]
    BY <1>1, Context, DocById
  <2> SUFFICES ASSUME NEW i \in DOMAIN entries, NEW j \in DOMAIN entries,
                      entries[j].call.undoes # NoUndo, entries[j].call.epoch = epoch
               PROVE  /\ entries[i].undone_by = entries[j].id
                           => entries[i].call.n = entries[j].call.target
                      /\ entries[i].call.n = entries[j].call.target
                           => \E k \in j..Len(entries) :
                                /\ entries[i].undone_by = entries[k].id
                                /\ \/ entries[k].call.epoch # epoch
                                   \/ entries[k].call.target = entries[i].call.n
    BY DEF MarksAreTrue
  <2> DEFINE J == doc.dropped + j
             e == entries[i]
  <2>2. /\ J \in Held(doc) /\ entries[j] = EntryOf(doc, J) /\ entries[j].id = J
        /\ doc.dropped + i \in Held(doc) /\ e = EntryOf(doc, doc.dropped + i)
    BY <2>1
  <2>3. /\ e.undone_by = J => e.call.n = entries[j].call.target
        /\ e.call.n = entries[j].call.target =>
             /\ e.undone_by \in Held(doc)
             /\ e.undone_by >= J
             /\ \/ EntryOf(doc, e.undone_by).call.epoch # epoch
                \/ EntryOf(doc, e.undone_by).call.target = e.call.n
    BY <1>1, <2>2 DEF IndInv, MarksInv
  <2>4. ASSUME e.call.n = entries[j].call.target
        PROVE  \E k \in j..Len(entries) :
                 /\ e.undone_by = entries[k].id
                 /\ \/ entries[k].call.epoch # epoch
                    \/ entries[k].call.target = e.call.n
    <3> DEFINE k == e.undone_by - doc.dropped
    <3>1. /\ k \in DOMAIN entries /\ e.undone_by \in Nat
          /\ entries[k] = EntryOf(doc, e.undone_by) /\ entries[k].id = e.undone_by
      BY <2>1, <2>3, <2>4 DEF EntryOf
    <3>2. k \in j..Len(entries)
      <4>1. \A u, d, m, l \in Nat :
              u >= d + m /\ u - d \in 1..l => u - d \in m..l
        OBVIOUS
      <4>2. j \in Nat
        BY <2>1
      <4> QED
        BY <2>1, <2>3, <2>4, <3>1, <4>1, <4>2
    <3> QED
      BY <2>3, <2>4, <3>1, <3>2
  <2> QED
    BY <2>2, <2>3, <2>4
<1> QED
  BY <1>1, JournalInvariant, PTL

-----------------------------------------------------------------------------
(* The servers together implement JournalLog.                              *)

\* The log a document stands for.
LogOf(doc) ==
  [i \in Held(doc) |-> [call |-> EntryOf(doc, i).call.n,
                        undoneBy |-> EntryOf(doc, i).undone_by]]

\* The choice in entryWithId is of the entry held under the id.
LEMMA LogOfDocument ==
  ASSUME NEW doc \in Document, Counted(doc)
  PROVE  LET the(i) == CHOOSE e \in ToSet(doc.entries) : e.id = i
         IN  [i \in {e.id : e \in ToSet(doc.entries)} |->
                [call |-> the(i).call.n, undoneBy |-> the(i).undone_by]] = LogOf(doc)
<1> DEFINE the(i) == CHOOSE e \in ToSet(doc.entries) : e.id = i
<1>1. /\ \A i \in Held(doc) : /\ i - doc.dropped \in DOMAIN doc.entries
                              /\ EntryOf(doc, i).id = i
      /\ \A k \in DOMAIN doc.entries :
           /\ doc.dropped + k \in Held(doc)
           /\ EntryOf(doc, doc.dropped + k) = doc.entries[k]
  BY DocById
<1>2. ToSet(doc.entries) = {EntryOf(doc, i) : i \in Held(doc)}
  <2>1. ToSet(doc.entries) = {doc.entries[k] : k \in DOMAIN doc.entries}
    BY DEF ToSet
  <2> QED
    BY <1>1, <2>1 DEF EntryOf
<1>3. {e.id : e \in ToSet(doc.entries)} = Held(doc)
  BY <1>1, <1>2
<1>4. ASSUME NEW i \in Held(doc) PROVE the(i) = EntryOf(doc, i)
  <2>1. EntryOf(doc, i) \in ToSet(doc.entries) /\ EntryOf(doc, i).id = i
    BY <1>1, <1>2
  <2>2. \A e \in ToSet(doc.entries) : e.id = i => e = EntryOf(doc, i)
    BY <1>1, <1>2
  <2> QED
    BY <2>1, <2>2
<1> HIDE DEF the
<1>5. [i \in {e.id : e \in ToSet(doc.entries)} |->
         [call |-> the(i).call.n, undoneBy |-> the(i).undone_by]] = LogOf(doc)
  BY <1>3, <1>4 DEF LogOf
<1> QED
  BY <1>5 DEF the

\* What JournalLog sees of a state of the servers, before and after a step.
LEMMA RecordedIs == IndInv => recorded = LogOf(file.doc)
<1> SUFFICES ASSUME IndInv PROVE recorded = LogOf(file.doc)
  OBVIOUS
<1>1. file.doc \in Document /\ Counted(file.doc)
  BY Context
<1> QED
  BY <1>1, LogOfDocument DEF recorded, entryWithId

\* An empty document is an empty log.
LEMMA EmptyLog == LogOf(emptyDocument) = [i \in {} |-> Log!NotMarked]
BY EmptyDocumentFacts DEF LogOf

\* No journal file is the empty log.
LEMMA LogInitially == Init => Log!LogInit
<1> SUFFICES ASSUME Init PROVE Log!LogInit
  OBVIOUS
<1>1. recorded = LogOf(file.doc)
  BY InitIndInv, RecordedIs
<1>2. file = [kind |-> "absent", doc |-> emptyDocument]
  BY DEF Init
<1>3. file.doc.next_id = 1
  BY <1>2 DEF emptyDocument
<1> QED
  BY <1>1, <1>2, <1>3, EmptyLog DEF Log!LogInit

\* A write records its call, which no entry of the log has, under the next id.
LEMMA WriteRecords ==
  ASSUME IndInv, NEW p \in Procs, Written(p),
         recorded = LogOf(file.doc), recorded' = LogOf(file'.doc)
  PROVE  Log!LogNext
<1> DEFINE doc == file.doc
           id == file.doc.next_id
           new == file'.doc
           c == call[p]
           undoes == IF c.undoes < id THEN c.undoes ELSE 0
<1>1. /\ new.next_id = id + 1 /\ id \in Nat /\ id # 0
      /\ Held(new) = {i \in Held(doc) \union {id} : i + kMaxEntries > id}
      /\ EntryOf(new, id) = NewEntry(doc, c)
      /\ \A i \in Held(new) \ {id} : i \in Held(doc) /\ EntryOf(new, i) = Kept(doc, c, i)
  BY Context, DocById, AppendedById DEF Written
<1>2. /\ c \in Call /\ c.n \in 1..MaxCalls /\ c.undoes \in Nat
      /\ \A i \in Held(doc) : EntryOf(doc, i).call.n # c.n
  <2>1. Pending(p)
    BY DEF Written, Pending, IndInv, NumberInv
  <2> QED
    BY <2>1, Context, Numbers DEF IndInv, RecordedInv, Pending
<1>3. undoes \in 0..(id - 1)
  BY <1>1, <1>2
<1>4. \A i \in Held(doc) : /\ i \in Nat /\ i < id /\ i # 0
                           /\ EntryOf(doc, i) \in Entry
                           /\ recorded[i] = [call |-> EntryOf(doc, i).call.n,
                                             undoneBy |-> EntryOf(doc, i).undone_by]
  BY Numbers DEF LogOf
<1>5. DOMAIN recorded = Held(doc)
  BY DEF LogOf
<1>6. file.kind # "newer" /\ file'.kind = "ok"
  BY DEF Written
<1> DEFINE next(i) == IF i = id THEN [call |-> c.n, undoneBy |-> Log!NotMarked]
                      ELSE IF i = undoes THEN [recorded[i] EXCEPT !.undoneBy = id]
                      ELSE recorded[i]
<1>7. recorded' = [i \in {j \in DOMAIN recorded \union {id} : j + kMaxEntries > id} |-> next(i)]
  <2>1. ASSUME NEW i \in Held(new)
        PROVE  [call |-> EntryOf(new, i).call.n, undoneBy |-> EntryOf(new, i).undone_by] = next(i)
    <3>1. CASE i = id
      BY <1>1, <3>1 DEF NewEntry, NoUndo, Log!NotMarked
    <3>2. CASE i # id
      <4>1. i \in Held(doc) /\ EntryOf(new, i) = Kept(doc, c, i)
        BY <1>1, <3>2
      <4>2. i = c.undoes <=> i = undoes
        BY <1>1, <1>2, <1>4, <4>1
      <4>3. /\ EntryOf(new, i).call = EntryOf(doc, i).call
            /\ EntryOf(new, i).undone_by =
                 IF i = c.undoes THEN id ELSE EntryOf(doc, i).undone_by
        BY <3>2, WrittenById
      <4> DEFINE e == EntryOf(doc, i)
      <4>4. recorded[i] = [call |-> e.call.n, undoneBy |-> e.undone_by]
        BY <1>4, <4>1
      <4> HIDE DEF undoes, e, new, id
      <4> QED
        BY <3>2, <4>2, <4>3, <4>4 DEF e
    <3> QED
      BY <3>1, <3>2
  <2>2. LogOf(new) = [i \in Held(new) |-> next(i)]
    BY <2>1 DEF LogOf
  <2> QED
    BY <1>1, <1>5, <2>2
<1>8. Log!Record(c.n, undoes)
  <2>1. ASSUME NEW i \in DOMAIN recorded PROVE recorded[i].call # c.n
    <3>1. i \in Held(doc)
      BY <1>5
    <3> DEFINE e == EntryOf(doc, i)
    <3>2. recorded[i] = [call |-> e.call.n, undoneBy |-> e.undone_by] /\ e.call.n # c.n
      BY <1>2, <1>4, <3>1
    <3> HIDE DEF e
    <3> QED
      BY <3>2
  <2> QED
    BY <1>1, <1>6, <1>7, <2>1 DEF Log!Record
<1> QED
  BY <1>2, <1>3, <1>8 DEF Log!LogNext

\* Every step of the servers is a step of the log, or none.
LEMMA StepsAreLogged == IndInv /\ IndInv' /\ [Next]_vars => [Log!LogNext]_(Log!logVars)
<1> SUFFICES ASSUME IndInv, IndInv', [Next]_vars
             PROVE  [Log!LogNext]_(Log!logVars)
  OBVIOUS
<1>1. recorded = LogOf(file.doc) /\ recorded' = LogOf(file'.doc)
  <2>1. recorded = LogOf(file.doc)
    BY RecordedIs
  <2>2. IndInv' => (recorded = LogOf(file.doc))'
    BY RecordedIs, PTL
  <2> QED
    BY <2>1, <2>2 DEF LogOf, Held, EntryOf
<1>2. CASE \E p \in Procs : Writes(p)
  BY <1>1, <1>2, WritesIsWritten, WriteRecords
<1>3. CASE \E p \in Procs : MovesAside(p)
  <2>1. file.kind = "damaged" /\ file' = [kind |-> "absent", doc |-> emptyDocument]
    BY <1>3 DEF MovesAside
  <2>2. Log!LogInit'
    BY <1>1, <2>1, EmptyLog DEF Log!LogInit, emptyDocument
  <2> QED
    BY <2>1, <2>2 DEF Log!LogNext, Log!BegunAgain
<1>4. CASE Damage
  <2>1. /\ file.kind = "ok" /\ file'.kind = "damaged"
        /\ file'.doc = file.doc /\ recorded' = recorded
    BY <1>1, <1>4, Context DEF Damage
  <2> QED
    BY <2>1 DEF Log!LogNext, Log!Damaged
<1>5. CASE NewerWrites
  <2>1. /\ file.kind = "ok" /\ file'.kind = "newer"
        /\ file'.doc = file.doc /\ recorded' = recorded
    BY <1>1, <1>5, Context DEF NewerWrites
  <2> QED
    BY <2>1 DEF Log!LogNext, Log!Upgraded
<1>6. CASE file' = file
  BY <1>1, <1>6 DEF Log!logVars
<1>7. \/ \E p \in Procs : Writes(p) \/ MovesAside(p)
      \/ Damage \/ NewerWrites
      \/ file' = file
  BY DEF Next, CallEnds, findEntry, EditorUndoes, EditorRefuses, Acquires, GivesUp, Reads,
     Refuses, WriteFails, Returns, Crash, Advance, Horizon, vars, journalVars
<1> QED
  BY <1>2, <1>3, <1>4, <1>5, <1>6, <1>7

\* Any number of servers that share nothing but the file and its lock, and crash,
\* time out or fail to write anywhere, record as one journal would: the file
\* implements JournalLog.
THEOREM JournalImplementsLog == Spec => ImplementsLog
<1>1. IndInv /\ IndInv' /\ [Next]_vars => [Log!LogNext]_(Log!logVars)
  BY StepsAreLogged
<1> QED
  BY <1>1, LogInitially, JournalInvariant, PTL DEF Spec, ImplementsLog, Log!LogSpec
=============================================================================
