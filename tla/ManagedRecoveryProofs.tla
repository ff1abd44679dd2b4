------------------------ MODULE ManagedRecoveryProofs ------------------------
(***************************************************************************)
(* Proofs about ManagedRecovery, for any number of mutations, restores,     *)
(* checkpoints and launches, and any number of retained checkpoints.        *)
(*                                                                         *)
(* Each theorem follows what it protects through the calls.  A request the  *)
(* editor has not carried out is traced from its dispatch, when the receipt *)
(* already says "pending", to the one of three steps that may settle it,    *)
(* all of which find the editor's inbox empty.  The old project is traced   *)
(* through a restore, whose receipt names its place before it moves.  A     *)
(* checkpoint's number is larger than every earlier one, so that the one a  *)
(* receipt names is never another.  And the checkpoints made since an open  *)
(* mutation's first one are counted, step by step, to show that retention   *)
(* has not reached it.                                                      *)
(***************************************************************************)
EXTENDS ManagedRecovery, SequenceTheorems, TLAPS

-----------------------------------------------------------------------------
(* The inductive invariant.                                                *)

Point == [id : Nat, files : SUBSET Ids]
Memory == [state : States, needs : BOOLEAN, restartUsed : BOOLEAN,
           attached : Nat, route : Nat, op : Operation]
Live == pc # "ended"

\* Where the server is on behalf of which call.
Mutating == {"dispatch", "sent", "answered", "after", "complete", "unprotected"}
Restoring == {"prepare", "stop", "away", "in", "fail", "installed"}
Launching == {"launch", "attach", "settle", "announce"}

ControlInv ==
  /\ pc \in {"ended", "idle", "ensure", "compare", "guard", "before", "record", "accept"}
            \union Mutating \union Restoring \union Launching
  /\ pc \in {"idle", "accept"} \union Restoring => call.ret = "idle"
  /\ pc \in {"compare", "guard"} => call.ret = "compare"
  /\ pc \in {"before", "record"} \union Mutating => call.ret = "before"
  /\ pc = "sent" => call.kind = "scene"
  /\ call.ret = "serve" => pc \in Launching \union {"ended"}
  /\ pc = "guard" \/ call.ret = "before" => call.lease = call.prior
  /\ Live /\ call.ret \in {"compare", "before"} => made.mutations # 0
  /\ call.ret = "before" /\ pc \notin Mutating => ~m.needs

\* An editor that has exited has nothing to do; what one has still to do is
\* recorded as unsettled, is of the operation in m, and is not there when that is
\* settled.
InboxInv ==
  /\ ~Alive => ed.inbox = {} /\ ed.memory = {}
  /\ ed.inbox # {} => receipt.needs
  /\ Live /\ ed.inbox # {} => m.needs /\ m.op.session \in {0, m.attached}
  /\ pc \in {"attach", "settle", "announce", "accept", "dispatch", "after", "complete",
             "unprotected"} => ed.inbox = {}
  /\ pc \in {"in", "fail", "installed"} => ~Alive
  /\ pc = "dispatch" => /\ receipt.needs /\ m.needs
                        /\ m.op.session = m.attached /\ m.op.id = made.mutations
  /\ pc = "sent" => ed.inbox \subseteq {m.op.id} /\ ed.inbox \intersect ed.memory = {}
  /\ pc = "answered" /\ call.answer # "unknown" => ed.inbox = {}

\* A mutation has a number no earlier one had.
NumberInv ==
  Live => \A id \in ed.inbox \union ed.memory :
            /\ id <= made.mutations
            /\ call.ret \in {"compare", "before"} /\ pc \notin Mutating \ {"dispatch"} =>
                 id < made.mutations

\* Checkpoints are numbered as they are made, and a completed operation is in the
\* one it names.
Protected(op) ==
  op.outcome = "completed" =>
    \A i \in DOMAIN store : store[i].id = op.after => op.id \in store[i].files

StoreInv ==
  /\ store \in Seq(Point)
  /\ Protected(receipt.op)
  /\ Live => /\ Protected(m.op)
             /\ \A i \in DOMAIN store : store[i].id <= made.points
             /\ \A op \in {m.op, receipt.op} : op.outcome = "completed" => op.after <= made.points
  /\ pc \in Mutating => m.op.id \in Ids
  /\ pc = "answered" /\ call.answer = "ok" =>
       IF call.kind = "file" THEN m.op.id \in project
                             ELSE ed.run = "running" => m.op.id \in ed.memory
  /\ pc = "after" => m.op.id \in project
  /\ pc = "complete" =>
       \A i \in DOMAIN store : store[i].id = made.points => m.op.id \in store[i].files

\* The old project is where a restore that is recorded as unfinished put it.
Unfinished(needs, op) ==
  /\ needs
  /\ op.outcome = "restore_prepared"
  /\ \E n \in 1..op.preserved : preserved[n] # Missing

ProjectInv ==
  /\ pc \notin {"ended", "idle", "ensure", "launch"} \union (Restoring \ {"installed"}) =>
       project # Missing
  /\ project = Missing =>
       /\ ~Alive
       /\ Unfinished(receipt.needs, receipt.op)
       /\ Live => Unfinished(m.needs, m.op)
  /\ pc \in {"prepare", "stop", "away", "in"} => staged # Missing
  /\ pc \in Restoring => made.restores # 0
  /\ pc \in Restoring \ {"prepare"} =>
       /\ m.needs /\ m.op.outcome = "restore_prepared" /\ m.op.preserved = made.restores
       /\ receipt.needs /\ receipt.op.outcome = "restore_prepared"
       /\ receipt.op.preserved = made.restores
  /\ pc = "in" => project = Missing /\ preserved[made.restores] # Missing
  /\ Live =>
       /\ m.op.preserved <= made.restores /\ receipt.op.preserved <= made.restores
       /\ \A n \in 1..MaxRestores :
            n > made.restores \/ (n = made.restores /\ pc \in {"prepare", "stop", "away"}) =>
              preserved[n] = Missing

IndInv ==
  /\ TypeOK
  /\ ControlInv
  /\ InboxInv
  /\ NumberInv
  /\ StoreInv
  /\ ProjectInv

-----------------------------------------------------------------------------
(* Steps that only change what the server knows and writes down.           *)

\* The disk, the editor and the counts are left alone.  What the memory says of
\* the operation allows for what is in the inbox and where the project is, and the
\* receipt says the same, or what it said.
Says ==
  /\ Live
  /\ UNCHANGED <<disk, ed, made>>
  /\ ed.inbox # {} => m'.needs /\ m'.op.session \in {0, m'.attached}
  /\ \/ receipt' = receipt
     \/ receipt'.needs = m'.needs /\ receipt'.op = m'.op
  /\ Protected(m'.op)
  /\ m'.op.outcome = "completed" => m'.op.after <= made.points
  /\ m'.op.preserved <= made.restores
  /\ project = Missing => Unfinished(m'.needs, m'.op)

\* Where such a step may lead to, but for the start of a mutation or a restore.
Leads ==
  /\ pc' \in {"ended", "idle", "ensure", "launch", "compare", "guard", "before", "settle"}
  /\ call'.ret \in {"compare", "before"} =>
       call.ret \in {"compare", "before"} /\ pc \notin Mutating
  /\ pc' \notin {"ended", "idle", "ensure", "launch"} => project # Missing
  /\ pc' = "settle" => ed.inbox = {}

\* A step that leaves the disk alone, and says what is so, keeps the invariant.
LEMMA SaysKeeps ==
  ASSUME IndInv, Says, Leads, TypeOK', ControlInv'
  PROVE  IndInv'
<1> USE DEF IndInv
<1>1. UNCHANGED <<store, project, staged, preserved, ed, made>>
  BY DEF Says, disk
<1>2. InboxInv'
  BY <1>1 DEF InboxInv, Says, Leads, Live, Alive
<1>3. NumberInv'
  BY <1>1 DEF NumberInv, Says, Leads, Live, Mutating
<1>4. StoreInv'
  <2>1. Protected(m'.op) /\ Protected(receipt'.op)
    BY DEF StoreInv, Says
  <2>2. Protected(m.op)' /\ Protected(receipt.op)'
    BY <1>1, <2>1 DEF Protected
  <2>3. pc' \notin Mutating /\ pc' \notin {"answered", "after", "complete"}
    BY DEF Leads, Mutating
  <2>4. \A op \in {m'.op, receipt'.op} : op.outcome = "completed" => op.after <= made.points
    BY DEF Says, StoreInv
  <2>5. \A i \in DOMAIN store : store[i].id <= made.points
    BY DEF Says, StoreInv
  <2> QED
    BY <1>1, <2>2, <2>3, <2>4, <2>5 DEF StoreInv
<1>5. ProjectInv'
  <2>1. project' = Missing =>
          /\ ~Alive'
          /\ Unfinished(receipt.needs, receipt.op)'
          /\ Unfinished(m.needs, m.op)'
    BY <1>1 DEF ProjectInv, Says, Unfinished, Alive
  <2>2. m'.op.preserved <= made.restores /\ receipt'.op.preserved <= made.restores
    BY DEF ProjectInv, Says
  <2>3. /\ pc' \notin Restoring
        /\ pc' \notin {"ended", "idle", "ensure", "launch"} => project' # Missing
    BY <1>1 DEF Leads, Restoring
  <2>4. \A n \in 1..MaxRestores : n > made.restores => preserved[n] = Missing
    BY DEF ProjectInv, Says
  <2> QED
    BY <1>1, <2>1, <2>2, <2>3, <2>4 DEF ProjectInv, Restoring
<1> QED
  BY <1>2, <1>3, <1>4, <1>5

\* The types of what is written down.
LEMMA RecordTypes ==
  /\ NoOperation \in Operation
  /\ NoCall \in Call
  BY DEF NoOperation, NoCall, Operation, Call, Outcomes

\* The operation stays what it is, and a receipt may be written of it.
Quiet ==
  /\ Live
  /\ m' \in Memory /\ m'.needs = m.needs /\ m'.op = m.op
  /\ ed.inbox # {} => m'.attached = m.attached
  /\ receipt' = [needs |-> m'.needs, op |-> m'.op] \/ UNCHANGED receipt
  /\ UNCHANGED <<disk, ed, made>>

\* A step that changes nothing of the operation keeps the invariant.
LEMMA QuietKeeps ==
  ASSUME IndInv, Quiet, Leads, ControlInv', call' \in Call
  PROVE  IndInv'
<1> USE DEF IndInv
<1>1. /\ receipt' = receipt \/ (receipt'.needs = m'.needs /\ receipt'.op = m'.op)
      /\ receipt' \in [needs: BOOLEAN, op: Operation]
  BY DEF TypeOK, Quiet, Memory
<1>2. TypeOK'
  BY <1>1 DEF TypeOK, disk, Quiet, Memory
<1>3. Says
  BY <1>1 DEF Says, Quiet, Live, InboxInv, StoreInv, ProjectInv
<1> QED
  BY <1>2, <1>3, SaysKeeps

\* A launch that fails keeps the invariant.
LEMMA LaunchFailsKeeps ==
  ASSUME IndInv, LaunchFails
  PROVE  IndInv'
<1> USE DEF IndInv
<1>1. /\ pc \in {"launch", "attach", "settle", "announce"}
      /\ m' = [m EXCEPT !.state = "launch_failed"]
      /\ receipt' = [needs |-> m'.needs, op |-> m'.op] \/ UNCHANGED receipt
      /\ UNCHANGED <<disk, ed, made>>
      /\ pc' \in {"idle", "ended"} /\ call' = NoCall
  BY DEF LaunchFails, JournalTried, Journalled, NotJournalled, Ends
<1>2. Quiet
  BY <1>1 DEF TypeOK, States, Quiet, Live, Memory
<1>3. ControlInv'
  BY <1>1 DEF ControlInv, NoCall, Mutating, Restoring, Launching
<1>4. Leads
  BY <1>1 DEF Leads, NoCall
<1> QED
  BY <1>1, <1>2, <1>3, <1>4, RecordTypes, QuietKeeps

\* The attach after a launch keeps the invariant.
LEMMA LaunchAttachesKeeps ==
  ASSUME IndInv, LaunchAttaches
  PROVE  IndInv'
<1> USE DEF IndInv
<1>1. /\ pc = "attach" /\ pc' = "settle" /\ UNCHANGED call
      /\ m' = [m EXCEPT !.attached = ed.session, !.route = ed.session,
                        !.state = "waiting_for_files"]
      /\ UNCHANGED <<receipt, disk, ed, made>>
  BY DEF LaunchAttaches, Goes
<1>2. ed.inbox = {} /\ project # Missing
  BY <1>1 DEF InboxInv, ProjectInv, Restoring
<1>3. Quiet
  BY <1>1, <1>2 DEF TypeOK, States, Quiet, Live, Memory
<1>4. ControlInv'
  BY <1>1, <1>3 DEF ControlInv, Quiet, Live, Mutating, Restoring, Launching
<1>5. Leads
  BY <1>1, <1>2 DEF Leads, ControlInv, Mutating
<1>6. call' \in Call
  BY <1>1 DEF TypeOK
<1> QED
  BY <1>3, <1>4, <1>5, <1>6, QuietKeeps

\* The announcement of a launched editor keeps the invariant.
LEMMA LaunchAnnouncesKeeps ==
  ASSUME IndInv, LaunchAnnounces
  PROVE  IndInv'
<1> USE DEF IndInv
<1>1. /\ pc = "announce"
      /\ receipt' = [needs |-> m'.needs, op |-> m'.op] \/ UNCHANGED receipt
      /\ UNCHANGED <<m, disk, ed, made>>
      /\ \/ pc' \in {"idle", "ended"} /\ call' = NoCall
         \/ /\ pc' = call.ret /\ call.ret \in {"compare", "before"}
            /\ UNCHANGED call
  BY DEF LaunchAnnounces, Journalled, NotJournalled, Ends, TypeOK, Call
<1>2. ed.inbox = {} /\ project # Missing
  BY <1>1 DEF InboxInv, ProjectInv, Restoring
<1>3. Quiet
  BY <1>1 DEF TypeOK, Quiet, Live, Memory
<1>4. ControlInv'
  BY <1>1 DEF ControlInv, NoCall, Live, Mutating, Restoring, Launching
<1>5. Leads
  BY <1>1, <1>2 DEF Leads, NoCall, Mutating
<1>6. call' \in Call
  BY <1>1, RecordTypes DEF TypeOK
<1> QED
  BY <1>3, <1>4, <1>5, <1>6, QuietKeeps

\* An editor that runs is used: the invariant is kept.
LEMMA EnsureFineKeeps ==
  ASSUME IndInv, EnsureFine
  PROVE  IndInv'
<1> USE DEF IndInv
<1>1. /\ pc = "ensure" /\ Alive
      /\ UNCHANGED <<m, receipt, disk, ed, made>>
      /\ pc' = call.ret
      /\ call' = IF call.ret = "idle" THEN NoCall ELSE call
  BY DEF EnsureFine
<1>2. call.ret \in {"idle", "compare", "before"}
  BY <1>1 DEF TypeOK, Call, ControlInv, Launching
<1>3. project # Missing
  BY <1>1 DEF ProjectInv
<1>4. Quiet
  BY <1>1 DEF TypeOK, Quiet, Live, Memory
<1>5. ControlInv'
  BY <1>1, <1>2 DEF ControlInv, NoCall, Live, Mutating, Restoring, Launching
<1>6. Leads
  BY <1>1, <1>2, <1>3 DEF Leads, NoCall, Mutating
<1>7. call' \in Call
  BY <1>1, RecordTypes DEF TypeOK
<1> QED
  BY <1>4, <1>5, <1>6, <1>7, QuietKeeps

\* Refusing an editor that runs unattached, or after a failed restore, keeps the
\* invariant.
LEMMA EnsureRefusedKeeps ==
  ASSUME IndInv, EnsureRefused
  PROVE  IndInv'
<1> USE DEF IndInv
<1>1. /\ pc = "ensure" /\ UNCHANGED <<m, receipt, disk, ed, made>>
      /\ pc' \in {"idle", "ended"} /\ call' = NoCall
  BY DEF EnsureRefused, Ends
<1>2. Quiet
  BY <1>1 DEF TypeOK, Quiet, Live, Memory
<1>3. ControlInv'
  BY <1>1 DEF ControlInv, NoCall, Mutating, Restoring, Launching
<1>4. Leads
  BY <1>1 DEF Leads, NoCall
<1> QED
  BY <1>1, <1>2, <1>3, <1>4, RecordTypes, QuietKeeps

\* Giving up on an editor that was closed, or restarted before, keeps the
\* invariant.
LEMMA EnsureSpentKeeps ==
  ASSUME IndInv, EnsureSpent
  PROVE  IndInv'
<1> USE DEF IndInv
<1>1. /\ pc = "ensure"
      /\ m' = [m EXCEPT !.state = "stopped"]
      /\ receipt' = [needs |-> m'.needs, op |-> m'.op] \/ UNCHANGED receipt
      /\ UNCHANGED <<disk, ed, made>>
      /\ pc' \in {"idle", "ended"} /\ call' = NoCall
  BY DEF EnsureSpent, JournalTried, Journalled, NotJournalled, Ends
<1>2. Quiet
  BY <1>1 DEF TypeOK, States, Quiet, Live, Memory
<1>3. ControlInv'
  BY <1>1 DEF ControlInv, NoCall, Mutating, Restoring, Launching
<1>4. Leads
  BY <1>1 DEF Leads, NoCall
<1> QED
  BY <1>1, <1>2, <1>3, <1>4, RecordTypes, QuietKeeps

\* Deciding on a restart keeps the invariant.
LEMMA EnsureRestartsKeeps ==
  ASSUME IndInv, EnsureRestarts
  PROVE  IndInv'
<1> USE DEF IndInv
<1> DEFINE mem == [m EXCEPT !.restartUsed = TRUE, !.state = "restarting"]
<1>1. /\ pc = "ensure" /\ UNCHANGED <<disk, ed, made>>
      /\ \/ /\ receipt' = [needs |-> mem.needs, op |-> mem.op]
            /\ m' = [mem EXCEPT !.route = 0]
            /\ pc' = "launch" /\ UNCHANGED call
         \/ /\ UNCHANGED receipt
            /\ m' = mem
            /\ pc' \in {"idle", "ended"} /\ call' = NoCall
  BY DEF EnsureRestarts, Journalled, NotJournalled, Ends, Goes
<1>2. /\ mem \in Memory /\ mem.needs = m.needs /\ mem.op = m.op /\ mem.attached = m.attached
      /\ [mem EXCEPT !.route = 0] \in Memory
      /\ [mem EXCEPT !.route = 0].needs = m.needs
      /\ [mem EXCEPT !.route = 0].op = m.op
      /\ [mem EXCEPT !.route = 0].attached = m.attached
  BY DEF TypeOK, States, Memory
<1> HIDE DEF mem
<1>3. Quiet
  BY <1>1, <1>2 DEF Quiet, Live
<1>4. ControlInv'
  BY <1>1, <1>3 DEF ControlInv, Quiet, NoCall, Live, Mutating, Restoring, Launching
<1>5. Leads
  BY <1>1 DEF Leads, NoCall, Mutating
<1>6. call' \in Call
  BY <1>1, RecordTypes DEF TypeOK
<1> QED
  BY <1>3, <1>4, <1>5, <1>6, QuietKeeps

\* A call that makes sure of the editor keeps the invariant.
LEMMA RecoverEditorKeeps ==
  ASSUME IndInv, RecoverEditor
  PROVE  IndInv'
<1> USE DEF IndInv
<1>1. /\ pc = "idle" /\ UNCHANGED <<m, receipt, disk, ed, made>>
      /\ pc' = "ensure" /\ UNCHANGED call
  BY DEF RecoverEditor, Goes
<1>2. Quiet
  BY <1>1 DEF TypeOK, Quiet, Live, Memory
<1>3. ControlInv'
  BY <1>1 DEF ControlInv, Live, Mutating, Restoring, Launching
<1>4. Leads
  BY <1>1 DEF Leads, ControlInv
<1>5. call' \in Call
  BY <1>1 DEF TypeOK
<1> QED
  BY <1>2, <1>3, <1>4, <1>5, QuietKeeps

\* Comparing the editor with the one selected keeps the invariant.
LEMMA MutationComparedKeeps ==
  ASSUME IndInv, MutationCompared
  PROVE  IndInv'
<1> USE DEF IndInv
<1>1. /\ pc = "compare" /\ UNCHANGED <<m, receipt, disk, ed, made>>
      /\ \/ /\ SameEditor
            /\ pc' = "guard" /\ call' = [call EXCEPT !.lease = Active]
         \/ pc' \in {"idle", "ended"} /\ call' = NoCall
  BY DEF MutationCompared, Ends
<1>2. Quiet
  BY <1>1 DEF TypeOK, Quiet, Live, Memory
<1>3. call.ret = "compare" /\ project # Missing
  BY <1>1 DEF ControlInv, ProjectInv, Restoring
<1>4. CASE pc' = "guard" /\ SameEditor /\ call' = [call EXCEPT !.lease = Active]
  <2>1. Active \in Nat
    BY DEF Active, TypeOK
  <2>2. call' \in Call /\ call'.lease = Active /\ call'.prior = call.prior /\ call'.ret = "compare"
    BY <1>3, <1>4, <2>1 DEF TypeOK, Call
  <2>3. call'.lease = call'.prior
    BY <1>4, <2>2 DEF SameEditor
  <2>4. ControlInv'
    BY <1>1, <1>3, <1>4, <2>2, <2>3 DEF ControlInv, Live, Mutating, Restoring, Launching
  <2>5. Leads
    BY <1>1, <1>3, <1>4 DEF Leads, Mutating
  <2> QED
    BY <1>2, <2>2, <2>4, <2>5, QuietKeeps
<1>5. CASE pc' \in {"idle", "ended"} /\ call' = NoCall
  <2>1. ControlInv'
    BY <1>5 DEF ControlInv, NoCall, Mutating, Restoring, Launching
  <2>2. Leads
    BY <1>5 DEF Leads, NoCall
  <2> QED
    BY <1>2, <1>5, <2>1, <2>2, RecordTypes, QuietKeeps
<1> QED
  BY <1>1, <1>4, <1>5

\* The refusals of beforeMutation keep the invariant.
LEMMA MutationGuardedKeeps ==
  ASSUME IndInv, MutationGuarded
  PROVE  IndInv'
<1> USE DEF IndInv
<1>1. /\ pc = "guard" /\ UNCHANGED <<m, receipt, disk, ed, made>>
      /\ \/ /\ ~m.needs
            /\ pc' = "ensure" /\ call' = [call EXCEPT !.ret = "before"]
         \/ pc' \in {"idle", "ended"} /\ call' = NoCall
  BY DEF MutationGuarded, Ends
<1>2. Quiet
  BY <1>1 DEF TypeOK, Quiet, Live, Memory
<1>3. call.ret = "compare" /\ call.lease = call.prior
  BY <1>1 DEF ControlInv
<1>4. CASE ~m.needs /\ pc' = "ensure" /\ call' = [call EXCEPT !.ret = "before"]
  <2>1. /\ call' \in Call /\ call'.lease = call.lease /\ call'.prior = call.prior
        /\ call'.ret = "before"
    BY <1>4 DEF TypeOK, Call
  <2>2. ControlInv'
    BY <1>1, <1>3, <1>4, <2>1 DEF ControlInv, Live, Mutating, Restoring, Launching
  <2>3. Leads
    BY <1>1, <1>3, <1>4 DEF Leads, Mutating
  <2> QED
    BY <1>2, <2>1, <2>2, <2>3, QuietKeeps
<1>5. CASE pc' \in {"idle", "ended"} /\ call' = NoCall
  <2>1. ControlInv'
    BY <1>5 DEF ControlInv, NoCall, Mutating, Restoring, Launching
  <2>2. Leads
    BY <1>5 DEF Leads, NoCall
  <2> QED
    BY <1>2, <1>5, <2>1, <2>2, RecordTypes, QuietKeeps
<1> QED
  BY <1>1, <1>4, <1>5

\* The restore gives up, whatever it has done so far.
LEMMA RestoreFailedKeeps ==
  ASSUME IndInv, pc \in {"away", "fail", "installed"}, RestoreFailed
  PROVE  IndInv'
<1> USE DEF IndInv
<1>1. /\ m' = [m EXCEPT !.state = "restore_failed"]
      /\ receipt' = [needs |-> m'.needs, op |-> m'.op] \/ UNCHANGED receipt
      /\ UNCHANGED <<disk, ed, made>>
      /\ pc' \in {"idle", "ended"} /\ call' = NoCall
  BY DEF RestoreFailed, JournalTried, Journalled, NotJournalled, Ends
<1>2. Quiet
  BY <1>1 DEF TypeOK, States, Quiet, Live, Memory
<1>3. ControlInv'
  BY <1>1 DEF ControlInv, NoCall, Mutating, Restoring, Launching
<1>4. Leads
  BY <1>1 DEF Leads, NoCall
<1> QED
  BY <1>1, <1>2, <1>3, <1>4, RecordTypes, QuietKeeps

\* The call ends with the operation in another state.
Settles ==
  /\ pc \in {"answered", "after", "unprotected", "complete", "accept", "record", "prepare"}
  /\ m' \in Memory /\ m'.attached = m.attached
  /\ \/ receipt' = [needs |-> m'.needs, op |-> m'.op]
     \/ UNCHANGED receipt
  /\ ed.inbox # {} => m'.needs /\ m'.op.session \in {0, m.attached}
  /\ m'.op.outcome = "completed" => Protected(m'.op) /\ m'.op.after <= made.points
  /\ m'.op.preserved <= made.restores
  /\ project = Missing => Unfinished(m'.needs, m'.op)
  /\ UNCHANGED <<disk, ed, made>>
  /\ Ends

\* Ending a call with its operation settled keeps the invariant.
LEMMA SettlesKeeps ==
  ASSUME IndInv, Settles
  PROVE  IndInv'
<1> USE DEF IndInv
<1>1. pc' \in {"idle", "ended"} /\ call' = NoCall
  BY DEF Settles, Ends
<1>2. /\ receipt' = receipt \/ (receipt'.needs = m'.needs /\ receipt'.op = m'.op)
      /\ receipt' \in [needs: BOOLEAN, op: Operation]
  BY DEF TypeOK, Settles, Memory
<1>3. TypeOK'
  BY <1>1, <1>2, RecordTypes DEF TypeOK, disk, Settles, Memory
<1>4. ControlInv'
  BY <1>1 DEF ControlInv, NoCall, Mutating, Restoring, Launching
<1>5. Says
  BY <1>2 DEF Says, Settles, Live, Protected
<1>6. Leads
  BY <1>1 DEF Leads, NoCall
<1> QED
  BY <1>3, <1>4, <1>5, <1>6, SaysKeeps

\* Recording a failure keeps the invariant.
LEMMA FailureRecordedKeeps ==
  ASSUME IndInv, FailureRecorded
  PROVE  IndInv'
<1> USE DEF IndInv
<1> DEFINE o == IF call.answer = "not_started" THEN "not_started" ELSE "failed_or_unknown"
           settled == call.answer = "not_started"
           mem == [m EXCEPT !.op.outcome = o, !.needs = ~settled]
           mem2 == [mem EXCEPT !.needs = TRUE]
<1>1. /\ pc = "answered" /\ call.answer # "ok" /\ Ends /\ UNCHANGED <<disk, ed, made>>
      /\ \/ receipt' = [needs |-> mem.needs, op |-> mem.op] /\ m' = mem
         \/ UNCHANGED receipt /\ m' = mem2
  BY DEF FailureRecorded, Journalled, NotJournalled
<1>2. /\ o \in Outcomes /\ o # "completed"
  BY DEF Outcomes
<1> HIDE DEF o
<1>3. \A x \in {mem, mem2} :
        /\ x \in Memory /\ x.attached = m.attached
        /\ x.op.session = m.op.session /\ x.op.preserved = m.op.preserved
        /\ x.op.outcome # "completed"
  <2>1. /\ mem \in Memory /\ mem.attached = m.attached
        /\ mem.op.session = m.op.session /\ mem.op.preserved = m.op.preserved
        /\ mem.op.outcome = o
    BY <1>2 DEF TypeOK, Memory, Operation
  <2> HIDE DEF mem
  <2>2. /\ mem2 \in Memory /\ mem2.attached = mem.attached /\ mem2.op = mem.op
    BY <2>1 DEF Memory
  <2> HIDE DEF mem2
  <2> QED
    BY <1>2, <2>1, <2>2
<1>4. (mem.needs <=> ~settled) /\ mem2.needs
  BY DEF TypeOK
<1>5. ed.inbox # {} => ~settled /\ m.op.session \in {0, m.attached}
  BY <1>1 DEF InboxInv, Live
<1>6. project # Missing /\ m.op.preserved <= made.restores
  BY <1>1 DEF ProjectInv, Live, Restoring
<1> HIDE DEF mem, mem2, settled
<1>7. Settles
  BY <1>1, <1>3, <1>4, <1>5, <1>6 DEF Settles
<1> QED
  BY <1>7, SettlesKeeps

\* A failure after the change was made: the outcome says so, and stays unsettled.
LEMMA AppliedKeeps ==
  ASSUME IndInv, NEW o \in {"applied_persistence_failed", "applied_checkpoint_failed"},
         pc = "unprotected" \/ (pc = "answered" /\ call.answer = "ok"),
         JournalTried([m EXCEPT !.op.outcome = o]), Ends
  PROVE  IndInv'
<1> USE DEF IndInv
<1> DEFINE mem == [m EXCEPT !.op.outcome = o]
<1>1. /\ m' = mem /\ UNCHANGED <<disk, ed, made>>
      /\ receipt' = [needs |-> mem.needs, op |-> mem.op] \/ UNCHANGED receipt
  BY DEF JournalTried, Journalled, NotJournalled
<1>2. o \in Outcomes
  BY DEF Outcomes
<1>3. /\ mem \in Memory /\ mem.attached = m.attached
      /\ mem.op.preserved = m.op.preserved
      /\ mem.op.outcome # "completed"
  BY <1>2 DEF TypeOK, Memory, Operation
<1>4. ed.inbox = {}
  BY DEF InboxInv
<1>5. project # Missing /\ m.op.preserved <= made.restores
  BY DEF ProjectInv, Live, Restoring
<1> HIDE DEF mem
<1>6. Settles
  BY <1>1, <1>3, <1>4, <1>5 DEF Settles
<1> QED
  BY <1>6, SettlesKeeps

\* Recording a completion, with the checkpoint that holds it, keeps the
\* invariant.
LEMMA CompletionRecordedKeeps ==
  ASSUME IndInv, CompletionRecorded
  PROVE  IndInv'
<1> USE DEF IndInv
<1> DEFINE mem == [m EXCEPT !.op.outcome = "completed", !.op.after = made.points,
                            !.needs = FALSE]
           mem2 == [mem EXCEPT !.op.outcome = "applied_journal_failed", !.needs = TRUE]
<1>1. /\ pc = "complete" /\ Ends /\ UNCHANGED <<disk, ed, made>>
      /\ \/ receipt' = [needs |-> mem.needs, op |-> mem.op] /\ m' = mem
         \/ UNCHANGED receipt /\ m' = mem2
  BY DEF CompletionRecorded, Journalled, NotJournalled
<1>2. made.points \in Nat
  BY DEF TypeOK
<1>3. /\ mem \in Memory /\ mem.attached = m.attached
      /\ mem.op.preserved = m.op.preserved
      /\ mem.op.after = made.points /\ mem.op.id = m.op.id
  BY <1>2 DEF TypeOK, Memory, Operation, Outcomes
<1>4. /\ mem2 \in Memory /\ mem2.attached = m.attached
      /\ mem2.op.preserved = m.op.preserved
      /\ mem2.op.outcome # "completed"
  BY <1>2 DEF TypeOK, Memory, Operation, Outcomes
<1>5. ed.inbox = {}
  BY <1>1 DEF InboxInv
<1>6. project # Missing /\ m.op.preserved <= made.restores
  BY <1>1 DEF ProjectInv, Live, Restoring
<1> HIDE DEF mem, mem2
<1>7. Protected(mem.op) /\ mem.op.after <= made.points
  BY <1>1, <1>2, <1>3 DEF Protected, StoreInv
<1>8. Settles
  BY <1>1, <1>3, <1>4, <1>5, <1>6, <1>7 DEF Settles
<1> QED
  BY <1>8, SettlesKeeps

\* Recording an accepted checkpoint keeps the invariant.
LEMMA CheckpointRecordedKeeps ==
  ASSUME IndInv, CheckpointRecorded
  PROVE  IndInv'
<1> USE DEF IndInv
<1> DEFINE o == IF m.op.outcome = "none" THEN "none" ELSE "accepted"
           mem == [m EXCEPT !.needs = FALSE, !.op.outcome = o]
           mem2 == [mem EXCEPT !.needs = TRUE]
<1>1. /\ pc = "accept" /\ Ends /\ UNCHANGED <<disk, ed, made>>
      /\ \/ receipt' = [needs |-> mem.needs, op |-> mem.op] /\ m' = mem
         \/ UNCHANGED receipt /\ m' = mem2
  BY DEF CheckpointRecorded, Journalled, NotJournalled
<1>2. /\ o \in Outcomes /\ o # "completed"
  BY DEF Outcomes
<1> HIDE DEF o
<1>3. \A x \in {mem, mem2} :
        /\ x \in Memory /\ x.attached = m.attached
        /\ x.op.preserved = m.op.preserved
        /\ x.op.outcome # "completed"
  <2>1. /\ mem \in Memory /\ mem.attached = m.attached
        /\ mem.op.preserved = m.op.preserved
        /\ mem.op.outcome = o
    BY <1>2 DEF TypeOK, Memory, Operation
  <2> HIDE DEF mem
  <2>2. /\ mem2 \in Memory /\ mem2.attached = mem.attached /\ mem2.op = mem.op
    BY <2>1 DEF Memory
  <2> HIDE DEF mem2
  <2> QED
    BY <1>2, <2>1, <2>2
<1>4. ed.inbox = {}
  BY <1>1 DEF InboxInv
<1>5. project # Missing /\ m.op.preserved <= made.restores
  BY <1>1 DEF ProjectInv, Live, Restoring
<1> HIDE DEF mem, mem2
<1>6. Settles
  BY <1>1, <1>3, <1>4, <1>5 DEF Settles
<1> QED
  BY <1>6, SettlesKeeps

\* Recording a mutation as pending keeps the invariant.
LEMMA PendingRecordedKeeps ==
  ASSUME IndInv, PendingRecorded
  PROVE  IndInv'
<1> USE DEF IndInv
<1>1. /\ pc = "record" /\ UNCHANGED <<disk, store, project, staged, preserved, ed, made>>
      /\ m' = [m EXCEPT !.op = Pending, !.needs = TRUE]
      /\ \/ /\ receipt' = [needs |-> m'.needs, op |-> m'.op]
            /\ pc' = "dispatch" /\ UNCHANGED call
         \/ UNCHANGED receipt /\ Ends
  BY DEF PendingRecorded, Journalled, NotJournalled, Goes, disk
<1>2. /\ call.ret = "before" /\ made.mutations # 0 /\ ~m.needs /\ call.lease = call.prior
      /\ ed.inbox = {} /\ project # Missing
  BY <1>1 DEF ControlInv, InboxInv, ProjectInv, Live, Restoring, Mutating
<1>3. /\ Pending \in Operation /\ Pending.outcome = "pending" /\ Pending.id = made.mutations
      /\ Pending.session = m.attached /\ Pending.preserved = 0
  <2>1. made.mutations \in Nat /\ m.attached \in Nat /\ made.points \in Nat
    BY ManagedRecoveryAssumption DEF TypeOK
  <2> QED
    BY <2>1 DEF Pending, NoOperation, Operation, Outcomes
<1>4. m' \in Memory /\ m'.op = Pending /\ m'.needs /\ m'.attached = m.attached
  BY <1>1, <1>3 DEF TypeOK, Memory
<1>5. made.mutations \in Ids /\ made.restores \in Nat
  BY <1>2, ManagedRecoveryAssumption DEF TypeOK, Ids
<1>6. CASE UNCHANGED receipt /\ Ends
  <2>1. /\ m'.op.outcome # "completed"
        /\ m'.op.preserved <= made.restores
    BY <1>3, <1>4, <1>5
  <2>2. Settles
    BY <1>1, <1>2, <1>4, <1>6, <2>1 DEF Settles
  <2> QED
    BY <2>2, SettlesKeeps
<1>7. CASE /\ receipt' = [needs |-> m'.needs, op |-> m'.op]
           /\ pc' = "dispatch" /\ UNCHANGED call
  <2>1. /\ receipt' \in [needs: BOOLEAN, op: Operation] /\ receipt'.needs
        /\ receipt'.op = Pending
    BY <1>4, <1>7 DEF Memory
  <2>2. TypeOK'
    BY <1>1, <1>4, <1>7, <2>1 DEF TypeOK, Memory
  <2>3. ControlInv'
    BY <1>1, <1>2, <1>7 DEF ControlInv, Live, Mutating, Restoring, Launching
  <2>4. InboxInv'
    BY <1>1, <1>2, <1>3, <1>4, <1>7, <2>1 DEF InboxInv, Live, Alive
  <2>5. NumberInv'
    BY <1>1, <1>2, <1>7 DEF NumberInv, Live, Mutating
  <2>6. StoreInv'
    <3>1. Protected(m.op)' /\ Protected(receipt.op)'
      BY <1>3, <1>4, <2>1 DEF Protected
    <3>2. m'.op.id \in Ids
      BY <1>3, <1>4, <1>5
    <3>3. /\ m'.op.outcome # "completed" /\ receipt'.op.outcome # "completed"
      BY <1>3, <1>4, <2>1
    <3>4. \A i \in DOMAIN store : store[i].id <= made.points
      BY <1>1 DEF StoreInv, Live
    <3> QED
      BY <1>1, <1>7, <3>1, <3>2, <3>3, <3>4 DEF StoreInv
  <2>7. ProjectInv'
    <3>1. m'.op.preserved <= made.restores /\ receipt'.op.preserved <= made.restores
      BY <1>3, <1>4, <1>5, <2>1
    <3>2. \A n \in 1..MaxRestores : n > made.restores => preserved[n] = Missing
      BY <1>1 DEF ProjectInv, Live
    <3> QED
      BY <1>1, <1>2, <1>7, <3>1, <3>2 DEF ProjectInv, Restoring
  <2> QED
    BY <2>2, <2>3, <2>4, <2>5, <2>6, <2>7
<1> QED
  BY <1>1, <1>6, <1>7

\* Staging a restore and naming its directories keeps the invariant.
LEMMA RestorePreparedKeeps ==
  ASSUME IndInv, RestorePrepared
  PROVE  IndInv'
<1> USE DEF IndInv
<1> DEFINE op == [NoOperation EXCEPT !.outcome = "restore_prepared", !.preserved = made.restores]
<1>1. /\ pc = "prepare" /\ UNCHANGED <<disk, store, project, staged, preserved, ed, made>>
      /\ m' = [m EXCEPT !.state = "restoring", !.needs = TRUE, !.op = op]
      /\ \/ /\ receipt' = [needs |-> m'.needs, op |-> m'.op]
            /\ pc' = "stop" /\ UNCHANGED call
         \/ UNCHANGED receipt /\ Ends
  BY DEF RestorePrepared, Journalled, NotJournalled, Goes, disk
<1>2. made.restores \in Nat \ {0} /\ call.ret = "idle" /\ staged # Missing
  BY <1>1 DEF TypeOK, ProjectInv, ControlInv, Restoring
<1>3. /\ op \in Operation /\ op.outcome = "restore_prepared" /\ op.preserved = made.restores
      /\ op.session = 0
  BY <1>2 DEF NoOperation, Operation, Outcomes
<1> HIDE DEF op
<1>4. m' \in Memory /\ m'.op = op /\ m'.needs /\ m'.attached = m.attached
  BY <1>1, <1>3 DEF TypeOK, Memory, States
<1>5. project = Missing => Unfinished(TRUE, op)
  <2> SUFFICES ASSUME project = Missing PROVE Unfinished(TRUE, op)
    OBVIOUS
  <2>1. PICK n \in 1..m.op.preserved : preserved[n] # Missing
    BY <1>1 DEF ProjectInv, Unfinished, Live
  <2>2. m.op.preserved <= made.restores /\ m.op.preserved \in Nat
    BY <1>1 DEF ProjectInv, Live, TypeOK, Operation
  <2>3. n \in 1..made.restores
    BY <1>2, <2>2
  <2> QED
    BY <1>3, <2>1, <2>3 DEF Unfinished
<1>6. CASE UNCHANGED receipt /\ Ends
  <2>1. Unfinished(m'.needs, m'.op) <=> Unfinished(TRUE, op)
    BY <1>4 DEF Unfinished
  <2>2. /\ m'.op.outcome # "completed"
        /\ m'.op.preserved <= made.restores
        /\ m'.op.session \in {0, m.attached}
    BY <1>2, <1>3, <1>4
  <2>3. Settles
    BY <1>1, <1>4, <1>5, <1>6, <2>1, <2>2 DEF Settles
  <2> QED
    BY <2>3, SettlesKeeps
<1>7. CASE /\ receipt' = [needs |-> m'.needs, op |-> m'.op]
           /\ pc' = "stop" /\ UNCHANGED call
  <2>1. /\ receipt' \in [needs: BOOLEAN, op: Operation] /\ receipt'.needs
        /\ receipt'.op = op
    BY <1>4, <1>7 DEF Memory
  <2>2. TypeOK'
    BY <1>1, <1>4, <1>7, <2>1 DEF TypeOK, Memory
  <2>3. ControlInv'
    BY <1>1, <1>2, <1>7 DEF ControlInv, Live, Mutating, Restoring, Launching
  <2>4. InboxInv'
    BY <1>1, <1>2, <1>3, <1>4, <1>7, <2>1 DEF InboxInv, Live, Alive
  <2>5. NumberInv'
    BY <1>1, <1>2, <1>7 DEF NumberInv, Live, Mutating
  <2>6. StoreInv'
    <3>1. Protected(m.op)' /\ Protected(receipt.op)'
      BY <1>3, <1>4, <2>1 DEF Protected
    <3>2. /\ m'.op.outcome # "completed" /\ receipt'.op.outcome # "completed"
      BY <1>3, <1>4, <2>1
    <3>3. \A i \in DOMAIN store : store[i].id <= made.points
      BY <1>1 DEF StoreInv, Live
    <3> QED
      BY <1>1, <1>7, <3>1, <3>2, <3>3 DEF StoreInv, Mutating
  <2>7. ProjectInv'
    <3>1. project' = Missing => ~Alive'
      BY <1>1 DEF ProjectInv, Alive
    <3>2. project' = Missing => Unfinished(m.needs, m.op)' /\ Unfinished(receipt.needs, receipt.op)'
      BY <1>1, <1>4, <1>5, <2>1 DEF Unfinished
    <3>3. m'.op.preserved <= made.restores /\ receipt'.op.preserved <= made.restores
      BY <1>2, <1>3, <1>4, <2>1
    <3>4. \A n \in 1..MaxRestores : n > made.restores \/ n = made.restores => preserved[n] = Missing
      BY <1>1 DEF ProjectInv, Live
    <3> QED
      BY <1>1, <1>2, <1>3, <1>4, <1>7, <2>1, <3>1, <3>2, <3>3, <3>4 DEF ProjectInv, Restoring
  <2> QED
    BY <2>2, <2>3, <2>4, <2>5, <2>6, <2>7
<1> QED
  BY <1>1, <1>6, <1>7

-----------------------------------------------------------------------------
(* The editor's own steps, and the end of the server.                      *)

\* The death of the editor keeps the invariant.
LEMMA EditorExitsKeeps ==
  ASSUME IndInv, NEW how \in {"crashed", "closed"}, EditorExits(how)
  PROVE  IndInv'
<1> USE DEF IndInv
<1>1. UNCHANGED <<m, receipt, store, project, staged, preserved, call, pc, made>>
  BY DEF EditorExits, disk
<1>2. /\ ed'.run = how /\ ed'.inbox = {} /\ ed'.memory = {}
      /\ ed' \in [run: {"none", "running", "unproven", "crashed", "closed"}, session: Nat,
                  inbox: SUBSET Ids, memory: SUBSET Ids]
  BY DEF EditorExits, TypeOK
<1>3. ~Alive'
  BY <1>2 DEF Alive
<1>4. TypeOK'
  BY <1>1, <1>2 DEF TypeOK
<1>5. ControlInv'
  BY <1>1 DEF ControlInv, Live
<1>6. InboxInv'
  BY <1>1, <1>2, <1>3 DEF InboxInv, Live
<1>7. NumberInv'
  BY <1>2 DEF NumberInv
<1>8. StoreInv'
  BY <1>1, <1>2 DEF StoreInv, Protected, Live
<1>9. ProjectInv'
  BY <1>1, <1>3 DEF ProjectInv, Unfinished, Live
<1> QED
  BY <1>4, <1>5, <1>6, <1>7, <1>8, <1>9

\* The editor carrying out what it was sent keeps the invariant.
LEMMA EditorAppliesKeeps ==
  ASSUME IndInv, NEW id \in Ids, EditorApplies(id)
  PROVE  IndInv'
<1> USE DEF IndInv
<1>1. /\ UNCHANGED <<m, receipt, store, project, staged, preserved, call, pc, made>>
      /\ Alive /\ id \in ed.inbox
  BY DEF EditorApplies, disk
<1>2. /\ ed'.run = ed.run /\ ed'.inbox = ed.inbox \ {id} /\ ed'.memory = ed.memory \union {id}
      /\ ed' \in [run: {"none", "running", "unproven", "crashed", "closed"}, session: Nat,
                  inbox: SUBSET Ids, memory: SUBSET Ids]
  BY DEF EditorApplies, TypeOK
<1>3. Alive'
  BY <1>1, <1>2 DEF Alive
<1>4. TypeOK'
  BY <1>1, <1>2 DEF TypeOK
<1>5. ControlInv'
  BY <1>1 DEF ControlInv, Live
<1>6. InboxInv'
  BY <1>1, <1>2, <1>3 DEF InboxInv, Live
<1>7. NumberInv'
  BY <1>1, <1>2 DEF NumberInv, Live
<1>8. StoreInv'
  BY <1>1, <1>2 DEF StoreInv, Protected, Live
<1>9. ProjectInv'
  BY <1>1 DEF ProjectInv, Unfinished, Live
<1> QED
  BY <1>4, <1>5, <1>6, <1>7, <1>8, <1>9

\* Starting an editor keeps the invariant.
LEMMA LaunchStartsKeeps ==
  ASSUME IndInv, LaunchStarts
  PROVE  IndInv'
<1> USE DEF IndInv
<1>1. /\ UNCHANGED <<m, receipt, store, project, staged, preserved, call, made>>
      /\ pc = "launch" /\ pc' = "attach" /\ project # Missing
  BY DEF LaunchStarts, Goes, disk
<1>2. /\ ed'.run = "running" /\ ed'.inbox = {} /\ ed'.memory = {}
      /\ ed' \in [run: {"none", "running", "unproven", "crashed", "closed"}, session: Nat,
                  inbox: SUBSET Ids, memory: SUBSET Ids]
  BY DEF LaunchStarts, TypeOK
<1>3. Alive'
  BY <1>2 DEF Alive
<1>4. TypeOK'
  BY <1>1, <1>2 DEF TypeOK
<1>5. ControlInv'
  BY <1>1 DEF ControlInv, Live, Mutating, Restoring, Launching
<1>6. InboxInv'
  BY <1>1, <1>2, <1>3 DEF InboxInv
<1>7. NumberInv'
  BY <1>2 DEF NumberInv
<1>8. StoreInv'
  BY <1>1, <1>2 DEF StoreInv, Protected, Live, Mutating
<1>9. ProjectInv'
  BY <1>1 DEF ProjectInv, Unfinished, Live, Restoring
<1> QED
  BY <1>4, <1>5, <1>6, <1>7, <1>8, <1>9

\* The death of the server, at any point, keeps the invariant.
LEMMA HostEndsKeeps ==
  ASSUME IndInv, HostEnds
  PROVE  IndInv'
<1> USE DEF IndInv
<1>1. /\ UNCHANGED <<receipt, store, project, staged, preserved, ed>>
      /\ pc' = "ended" /\ call' = NoCall /\ m' = NewMemory /\ made' = NoneMade
  BY DEF HostEnds, disk
<1>2. /\ NewMemory \in Memory
      /\ NoneMade \in [points: Nat, mutations: 0..MaxMutations, restores: 0..MaxRestores,
                       asked: 0..MaxPoints, faults: 0..MaxFaults]
  BY RecordTypes, ManagedRecoveryAssumption DEF NewMemory, Memory, States, NoneMade
<1>3. TypeOK'
  BY <1>1, <1>2, RecordTypes DEF TypeOK, Memory
<1>4. ControlInv'
  BY <1>1 DEF ControlInv, Live, NoCall, Mutating, Restoring, Launching
<1>5. InboxInv'
  BY <1>1 DEF InboxInv, Live, Alive
<1>6. NumberInv'
  BY <1>1 DEF NumberInv, Live
<1>7. StoreInv'
  BY <1>1 DEF StoreInv, Protected, Live, Mutating
<1>8. ProjectInv'
  BY <1>1 DEF ProjectInv, Unfinished, Live, Restoring, Alive
<1> QED
  BY <1>3, <1>4, <1>5, <1>6, <1>7, <1>8

-----------------------------------------------------------------------------
(* Calls that begin.                                                       *)

\* A mutating call that arrives keeps the invariant.
LEMMA MutationCalledKeeps ==
  ASSUME IndInv, NEW kind \in {"scene", "file"}, MutationCalled(kind)
  PROVE  IndInv'
<1> USE DEF IndInv
<1>1. /\ UNCHANGED <<m, receipt, store, project, staged, preserved, ed>>
      /\ pc = "idle" /\ pc' = "ensure" /\ made.mutations < MaxMutations
  BY DEF MutationCalled, disk
<1>2. Active \in Nat
  BY DEF Active, TypeOK
<1>3. call' \in Call /\ call'.ret = "compare"
  BY <1>2 DEF MutationCalled, NoCall, Call
<1>4. /\ made'.mutations = made.mutations + 1
      /\ made'.points = made.points /\ made'.restores = made.restores
      /\ made' \in [points: Nat, mutations: 0..MaxMutations, restores: 0..MaxRestores,
                    asked: 0..MaxPoints, faults: 0..MaxFaults]
      /\ made.mutations \in Nat
  <2>1. made.mutations \in 0..MaxMutations
    BY DEF TypeOK
  <2>2. made.mutations + 1 \in 0..MaxMutations /\ made.mutations \in Nat
    BY <1>1, <2>1, ManagedRecoveryAssumption
  <2> QED
    BY <2>2 DEF MutationCalled, TypeOK
<1>5. TypeOK'
  BY <1>1, <1>3, <1>4 DEF TypeOK
<1>6. ControlInv'
  BY <1>1, <1>3, <1>4 DEF ControlInv, Live, Mutating, Restoring, Launching
<1>7. InboxInv'
  BY <1>1 DEF InboxInv, Live, Alive
<1>8. NumberInv'
  <2> SUFFICES ASSUME NEW id \in ed.inbox \union ed.memory
               PROVE  id < made'.mutations /\ id <= made'.mutations
    BY <1>1 DEF NumberInv
  <2>1. id \in Nat /\ id <= made.mutations
    BY <1>1, ManagedRecoveryAssumption DEF NumberInv, Live, TypeOK, Ids
  <2> QED
    BY <1>4, <2>1
<1>9. StoreInv'
  BY <1>1, <1>4 DEF StoreInv, Protected, Live, Mutating
<1>10. ProjectInv'
  BY <1>1, <1>4 DEF ProjectInv, Unfinished, Live, Restoring, Alive
<1> QED
  BY <1>5, <1>6, <1>7, <1>8, <1>9, <1>10

\* A restore that is asked for keeps the invariant.
LEMMA RestoreAskedKeeps ==
  ASSUME IndInv, RestoreAsked
  PROVE  IndInv'
<1> USE DEF IndInv
<1>1. /\ UNCHANGED <<m, receipt, store, project, preserved, ed, call>>
      /\ pc = "idle" /\ pc' = "prepare" /\ made.restores < MaxRestores
  BY DEF RestoreAsked, Goes
<1>2. staged' \in SUBSET Ids
  BY DEF RestoreAsked, StoreInv, TypeOK, Point
<1>3. staged' # Missing
  BY <1>2 DEF Missing, Ids
<1>4. /\ made'.restores = made.restores + 1
      /\ made'.points = made.points /\ made'.mutations = made.mutations
      /\ made' \in [points: Nat, mutations: 0..MaxMutations, restores: 0..MaxRestores,
                    asked: 0..MaxPoints, faults: 0..MaxFaults]
      /\ made.restores \in Nat
  <2>1. made.restores \in 0..MaxRestores
    BY DEF TypeOK
  <2>2. made.restores + 1 \in 0..MaxRestores /\ made.restores \in Nat
    BY <1>1, <2>1, ManagedRecoveryAssumption
  <2> QED
    BY <2>2 DEF RestoreAsked, TypeOK
<1>5. TypeOK'
  BY <1>1, <1>2, <1>4 DEF TypeOK, Content
<1>6. ControlInv'
  BY <1>1, <1>4 DEF ControlInv, Live, Mutating, Restoring, Launching
<1>7. InboxInv'
  BY <1>1 DEF InboxInv, Live, Alive
<1>8. NumberInv'
  BY <1>1, <1>4 DEF NumberInv, Live, ControlInv
<1>9. StoreInv'
  BY <1>1, <1>4 DEF StoreInv, Protected, Live, Mutating
<1>10. ProjectInv'
  <2>1. project = Missing =>
          /\ ~Alive'
          /\ Unfinished(receipt.needs, receipt.op)'
          /\ Unfinished(m.needs, m.op)'
    BY <1>1 DEF ProjectInv, Unfinished, Alive, Live
  <2>2. m.op.preserved <= made'.restores /\ receipt.op.preserved <= made'.restores
    <3>1. /\ m.op.preserved <= made.restores /\ receipt.op.preserved <= made.restores
          /\ m.op.preserved \in Nat /\ receipt.op.preserved \in Nat
      BY <1>1 DEF ProjectInv, Live, TypeOK, Operation
    <3> QED
      BY <1>4, <3>1
  <2>3. \A n \in 1..MaxRestores : n > made'.restores \/ n = made'.restores => preserved[n] = Missing
    <3>1. \A n \in 1..MaxRestores : n > made.restores => preserved[n] = Missing
      BY <1>1 DEF ProjectInv, Live
    <3> QED
      BY <1>4, <3>1, ManagedRecoveryAssumption
  <2> QED
    BY <1>1, <1>3, <1>4, <2>1, <2>2, <2>3 DEF ProjectInv, Restoring
<1> QED
  BY <1>5, <1>6, <1>7, <1>8, <1>9, <1>10

-----------------------------------------------------------------------------
(* The checkpoint store.                                                   *)

Counts == [points: Nat, mutations: 0..MaxMutations, restores: 0..MaxRestores,
           asked: 0..MaxPoints, faults: 0..MaxFaults]

\* Retention drops checkpoints and makes none.
LEMMA RetainedAreThere ==
  ASSUME NEW S, NEW s \in Seq(S)
  PROVE  /\ Retained(s) \in Seq(S)
         /\ \A i \in DOMAIN Retained(s) : \E j \in DOMAIN s : Retained(s)[i] = s[j]
<1>1. CASE Len(s) > Kept
  <2> DEFINE a == Len(s) - Kept + 1
  <2>1. Len(s) \in Nat /\ a \in Int /\ a >= 1 /\ a <= Len(s) /\ DOMAIN s = 1..Len(s)
    BY <1>1, ManagedRecoveryAssumption
  <2>2. Retained(s) = SubSeq(s, a, Len(s))
    BY <1>1 DEF Retained
  <2> HIDE DEF a
  <2>3. \A i \in a..Len(s) : s[i] \in S
    BY <2>1, ElementOfSeq
  <2>4. /\ SubSeq(s, a, Len(s)) \in Seq(S)
        /\ DOMAIN SubSeq(s, a, Len(s)) = 1..(Len(s) - a + 1)
        /\ \A i \in 1..(Len(s) - a + 1) : SubSeq(s, a, Len(s))[i] = s[a + i - 1]
    BY <2>1, <2>3, SubSeqProperties
  <2>5. \A i \in 1..(Len(s) - a + 1) : a + i - 1 \in DOMAIN s
    BY <2>1
  <2> QED
    BY <2>2, <2>4, <2>5
<1>2. CASE ~(Len(s) > Kept)
  BY <1>2 DEF Retained
<1> QED
  BY <1>1, <1>2

\* What a checkpoint, made or failed, does to the store: every checkpoint there is
\* was there before, or is the new one with the files of now.
Stored ==
  /\ UNCHANGED <<project, staged, preserved>>
  /\ store' \in Seq(Point)
  /\ made' \in Counts
  /\ made'.mutations = made.mutations /\ made'.restores = made.restores
  /\ made'.points \in {made.points, made.points + 1}
  /\ \A i \in DOMAIN store' :
       \/ \E j \in DOMAIN store : store'[i] = store[j]
       \/ /\ made'.points = made.points + 1
          /\ store'[i].id = made'.points /\ store'[i].files = project

\* The store with the new checkpoint, before retention.
LEMMA NewPoint ==
  ASSUME IndInv, project # Missing
  PROVE  LET s == Append(store, [id |-> NextPoint, files |-> project])
         IN  /\ s \in Seq(Point)
             /\ \A i \in DOMAIN s :
                  \/ \E j \in DOMAIN store : s[i] = store[j]
                  \/ s[i].id = made.points + 1 /\ s[i].files = project
<1> DEFINE new == [id |-> NextPoint, files |-> project]
<1>1. store \in Seq(Point)
  BY DEF IndInv, StoreInv
<1>2. new \in Point /\ new.id = made.points + 1 /\ new.files = project
  <2>1. project \in SUBSET Ids
    BY DEF IndInv, TypeOK, Content
  <2>2. made.points \in Nat
    BY DEF IndInv, TypeOK
  <2>3. NextPoint \in Nat /\ NextPoint = made.points + 1
    BY <2>2 DEF NextPoint
  <2> QED
    BY <2>1, <2>3 DEF Point
<1> HIDE DEF new
<1>3. /\ Append(store, new) \in Seq(Point)
      /\ DOMAIN Append(store, new) = 1..(Len(store) + 1)
      /\ \A i \in 1..Len(store) : Append(store, new)[i] = store[i]
      /\ Append(store, new)[Len(store) + 1] = new
  BY <1>1, <1>2, AppendProperties
<1>4. Len(store) \in Nat /\ DOMAIN store = 1..Len(store)
  BY <1>1
<1>5. \A i \in 1..(Len(store) + 1) : i \in 1..Len(store) \/ i = Len(store) + 1
  BY <1>4
<1> QED
  BY <1>2, <1>3, <1>4, <1>5 DEF new

\* A new checkpoint and the retention after it leave the store in order.
LEMMA RetainedStores ==
  ASSUME IndInv, project # Missing,
         store' = Retained(Append(store, [id |-> NextPoint, files |-> project])),
         made' \in Counts, made'.points = NextPoint,
         made'.mutations = made.mutations, made'.restores = made.restores,
         UNCHANGED <<project, staged, preserved>>
  PROVE  Stored
<1>1. PICK s : /\ s = Append(store, [id |-> NextPoint, files |-> project])
               /\ store' = Retained(s)
  OBVIOUS
<1>2. /\ s \in Seq(Point)
      /\ \A i \in DOMAIN s :
           \/ \E j \in DOMAIN store : s[i] = store[j]
           \/ s[i].id = made.points + 1 /\ s[i].files = project
  BY <1>1, NewPoint
<1>3. /\ store' \in Seq(Point)
      /\ \A i \in DOMAIN store' : \E j \in DOMAIN s : store'[i] = s[j]
  <2>1. /\ Retained(s) \in Seq(Point)
        /\ \A i \in DOMAIN Retained(s) : \E j \in DOMAIN s : Retained(s)[i] = s[j]
    BY <1>2, RetainedAreThere
  <2> QED
    BY <1>1, <2>1
<1>4. made'.points = made.points + 1
  BY DEF NextPoint
<1> QED
  BY <1>2, <1>3, <1>4 DEF Stored

\* CheckpointStore::create leaves the store in order.
LEMMA CreateStores ==
  ASSUME IndInv, Create
  PROVE  Stored /\ made'.points = made.points + 1 /\ project # Missing
<1>1. /\ made' \in Counts /\ made'.points = NextPoint
      /\ made'.mutations = made.mutations /\ made'.restores = made.restores
  BY DEF Create, IndInv, TypeOK, Counts, NextPoint
<1> QED
  BY <1>1, RetainedStores DEF Create, NextPoint

\* A create that fails, before or after it stored, leaves the store in order.
LEMMA CreateFailsStores ==
  ASSUME IndInv, CreateFails
  PROVE  Stored
<1>1. CASE UNCHANGED <<disk, made>>
  BY <1>1 DEF IndInv, TypeOK, StoreInv, Stored, Counts, disk
<1>2. CASE /\ project # Missing
           /\ made.faults < MaxFaults
           /\ store' = Append(store, [id |-> NextPoint, files |-> project])
           /\ made' = [made EXCEPT !.points = NextPoint, !.faults = @ + 1]
           /\ UNCHANGED <<project, staged, preserved>>
  <2>1. made.faults + 1 \in 0..MaxFaults /\ NextPoint \in Nat
    <3>1. made.faults \in 0..MaxFaults /\ made.points \in Nat
      BY DEF IndInv, TypeOK
    <3> QED
      BY <1>2, <3>1, ManagedRecoveryAssumption DEF NextPoint
  <2>2. /\ made' \in Counts /\ made'.points = made.points + 1
        /\ made'.mutations = made.mutations /\ made'.restores = made.restores
    BY <1>2, <2>1 DEF IndInv, TypeOK, Counts, NextPoint
  <2>3. /\ store' \in Seq(Point)
        /\ \A i \in DOMAIN store' :
             \/ \E j \in DOMAIN store : store'[i] = store[j]
             \/ store'[i].id = made.points + 1 /\ store'[i].files = project
    BY <1>2, NewPoint
  <2> QED
    BY <1>2, <2>2, <2>3 DEF Stored
<1> QED
  BY <1>1, <1>2 DEF CreateFails

\* The numbers still bound the store, and no completed operation loses its
\* checkpoint to the new one.
LEMMA StoredNumbers ==
  ASSUME IndInv, Live, Stored
  PROVE  /\ \A i \in DOMAIN store' : store'[i].id <= made'.points
         /\ \A op \in Operation :
              Protected(op) /\ (op.outcome = "completed" => op.after <= made.points) =>
                Protected(op)' /\ (op.outcome = "completed" => op.after <= made'.points)
<1>1. /\ made.points \in Nat /\ made'.points \in Nat
      /\ made'.points = made.points \/ made'.points = made.points + 1
  BY DEF IndInv, TypeOK, Stored, Counts
<1>2. \A j \in DOMAIN store : store[j].id \in Nat /\ store[j].id <= made.points
  BY DEF IndInv, TypeOK, StoreInv
<1>3. \A i \in DOMAIN store' : store'[i].id <= made'.points
  <2> SUFFICES ASSUME NEW i \in DOMAIN store' PROVE store'[i].id <= made'.points
    OBVIOUS
  <2>1. CASE \E j \in DOMAIN store : store'[i] = store[j]
    <3>1. PICK j \in DOMAIN store : store'[i] = store[j]
      BY <2>1
    <3>2. store'[i].id \in Nat /\ store'[i].id <= made.points
      BY <1>2, <3>1
    <3> QED
      BY <1>1, <3>2
  <2>2. CASE store'[i].id = made'.points
    BY <1>1, <2>2
  <2> QED
    BY <2>1, <2>2 DEF Stored
<1>4. ASSUME NEW op \in Operation, Protected(op),
             op.outcome = "completed" => op.after <= made.points
      PROVE  Protected(op)' /\ (op.outcome = "completed" => op.after <= made'.points)
  <2> SUFFICES ASSUME op.outcome = "completed"
               PROVE  /\ op.after <= made'.points
                      /\ \A i \in DOMAIN store' :
                           store'[i].id = op.after => op.id \in store'[i].files
    BY DEF Protected
  <2>1. op.after \in Nat /\ op.after <= made.points
    BY <1>4 DEF Operation
  <2>2. op.after <= made'.points
    BY <1>1, <2>1
  <2>3. ASSUME NEW i \in DOMAIN store', store'[i].id = op.after
        PROVE  op.id \in store'[i].files
    <3>1. ~(made'.points = made.points + 1 /\ store'[i].id = made'.points)
      BY <1>1, <2>1, <2>3
    <3>2. PICK j \in DOMAIN store : store'[i] = store[j]
      BY <3>1 DEF Stored
    <3> QED
      BY <1>4, <2>3, <3>2 DEF Protected
  <2> QED
    BY <2>2, <2>3
<1> QED
  BY <1>3, <1>4

\* A step that makes a checkpoint, or fails to.
Checkpoints ==
  /\ Live /\ Stored /\ UNCHANGED <<receipt, ed>>
  /\ m' \in Memory /\ call' \in Call
  /\ m'.op = m.op \/ m'.op.outcome # "completed"
  /\ m'.op.preserved = m.op.preserved
  /\ ed.inbox # {} => m'.needs /\ m'.op.session \in {0, m'.attached}
  /\ project = Missing => UNCHANGED m
  /\ pc' \in {"settle", "announce", "record", "idle", "complete", "unprotected", "accept", "launch"}
  /\ pc' \notin {"idle", "record", "launch"} => ed.inbox = {}
  /\ pc' \notin {"idle", "launch"} => project # Missing
  /\ pc' \in {"complete", "unprotected"} => pc = "after" /\ UNCHANGED m
  /\ pc' = "complete" => made'.points = made.points + 1
  /\ call'.ret \in {"compare", "before"} /\ pc' \notin Mutating =>
       call.ret \in {"compare", "before"} /\ pc \notin Mutating

\* Taking a checkpoint on behalf of a call keeps the invariant.
LEMMA CheckpointsKeeps ==
  ASSUME IndInv, Checkpoints, ControlInv'
  PROVE  IndInv'
<1> USE DEF IndInv
<1>1. /\ Live /\ Stored /\ UNCHANGED <<receipt, ed, project, staged, preserved>>
      /\ made'.mutations = made.mutations /\ made'.restores = made.restores
  BY DEF Checkpoints, Stored
<1>2. TypeOK'
  <2>1. \A i \in DOMAIN store' : store'[i] \in [id: Nat, files: SUBSET Ids]
    <3>1. \A s \in Seq(Point) : \A i \in DOMAIN s : s[i] \in Point
      OBVIOUS
    <3> QED
      BY <1>1, <3>1 DEF Stored, Point
  <2> QED
    BY <1>1, <2>1 DEF TypeOK, Stored, Counts, Checkpoints, Memory
<1>3. InboxInv'
  BY <1>1 DEF InboxInv, Checkpoints, Live, Alive
<1>4. NumberInv'
  BY <1>1 DEF NumberInv, Checkpoints, Live, Mutating
<1>5. StoreInv'
  <2>1. m.op \in Operation /\ m'.op \in Operation /\ receipt.op \in Operation
    BY DEF TypeOK, Checkpoints, Memory
  <2>2. /\ Protected(m.op) /\ (m.op.outcome = "completed" => m.op.after <= made.points)
        /\ Protected(receipt.op)
        /\ (receipt.op.outcome = "completed" => receipt.op.after <= made.points)
    BY <1>1 DEF StoreInv
  <2>3. /\ Protected(m'.op)
        /\ (m'.op.outcome = "completed" => m'.op.after <= made.points)
    BY <2>2 DEF Checkpoints, Protected
  <2>4. /\ m'.op.outcome = "completed" =>
             /\ \A i \in DOMAIN store' : store'[i].id = m'.op.after => m'.op.id \in store'[i].files
             /\ m'.op.after <= made'.points
        /\ receipt.op.outcome = "completed" =>
             /\ \A i \in DOMAIN store' :
                  store'[i].id = receipt.op.after => receipt.op.id \in store'[i].files
             /\ receipt.op.after <= made'.points
    BY <1>1, <2>1, <2>2, <2>3, StoredNumbers DEF Protected
  <2>5. Protected(m.op)' /\ Protected(receipt.op)'
    BY <1>1, <2>4 DEF Protected
  <2>6. pc' = "complete" =>
          \A i \in DOMAIN store' : store'[i].id = made'.points => m'.op.id \in store'[i].files
    <3> SUFFICES ASSUME pc' = "complete", NEW i \in DOMAIN store', store'[i].id = made'.points
                 PROVE  m'.op.id \in store'[i].files
      OBVIOUS
    <3>1. made'.points = made.points + 1 /\ made.points \in Nat /\ m.op.id \in project
          /\ UNCHANGED m
      BY DEF Checkpoints, TypeOK, StoreInv
    <3>2. \A j \in DOMAIN store : store[j].id \in Nat /\ store[j].id <= made.points
      BY <1>1 DEF TypeOK, StoreInv
    <3>3. ~ \E j \in DOMAIN store : store'[i] = store[j]
      BY <3>1, <3>2
    <3>4. store'[i].files = project
      BY <1>1, <3>3 DEF Stored
    <3> QED
      BY <3>1, <3>4
  <2>7. pc' \in Mutating => m'.op.id \in Ids
    BY DEF Checkpoints, StoreInv, Mutating
  <2>8. pc' \notin {"answered", "after"}
    BY DEF Checkpoints
  <2>9. store' \in Seq(Point)
    BY <1>1 DEF Stored
  <2> QED
    BY <1>1, <2>4, <2>5, <2>6, <2>7, <2>8, <2>9, StoredNumbers DEF StoreInv
<1>6. ProjectInv'
  <2>1. project = Missing =>
          /\ ~Alive'
          /\ Unfinished(receipt.needs, receipt.op)'
          /\ Unfinished(m.needs, m.op)'
    BY <1>1 DEF ProjectInv, Checkpoints, Unfinished, Alive
  <2>2. m'.op.preserved <= made'.restores /\ receipt'.op.preserved <= made'.restores
    BY <1>1 DEF ProjectInv, Checkpoints
  <2>3. \A n \in 1..MaxRestores : n > made'.restores => preserved'[n] = Missing
    BY <1>1 DEF ProjectInv
  <2>4. pc' \notin Restoring /\ (pc' \notin {"idle", "launch"} => project' # Missing)
    BY <1>1 DEF Checkpoints, Restoring
  <2> QED
    BY <1>1, <2>1, <2>2, <2>3, <2>4 DEF ProjectInv, Restoring
<1> QED
  BY <1>2, <1>3, <1>4, <1>5, <1>6

\* The checkpoint after a launch keeps the invariant.
LEMMA LaunchSettlesKeeps ==
  ASSUME IndInv, LaunchSettles
  PROVE  IndInv'
<1> USE DEF IndInv
<1>1. /\ pc = "settle" /\ pc' \in {"announce", "settle"} /\ UNCHANGED <<receipt, ed, call>>
      /\ m' = [m EXCEPT !.state = "ready"] \/ UNCHANGED m
  BY DEF LaunchSettles, Goes
<1>2. Stored
  BY CreateStores, CreateFailsStores DEF LaunchSettles
<1>3. m' \in Memory /\ m'.op = m.op /\ m'.needs = m.needs /\ m'.attached = m.attached
  BY <1>1 DEF TypeOK, Memory, States
<1>4. made'.mutations = made.mutations
  BY <1>2 DEF Stored
<1>5. ControlInv'
  BY <1>1, <1>3, <1>4 DEF ControlInv, Live, Mutating, Restoring, Launching
<1>6. ed.inbox = {} /\ project # Missing /\ call' \in Call
  BY <1>1 DEF InboxInv, ProjectInv, Restoring, TypeOK
<1>7. Checkpoints
  BY <1>1, <1>2, <1>3, <1>6 DEF Checkpoints, Live, Mutating
<1> QED
  BY <1>5, <1>7, CheckpointsKeeps

\* The checkpoint before a mutation keeps the invariant.
LEMMA BeforeCheckpointedKeeps ==
  ASSUME IndInv, BeforeCheckpointed
  PROVE  IndInv'
<1> USE DEF IndInv
<1>1. /\ pc = "before" /\ UNCHANGED <<m, receipt, ed>>
      /\ \/ pc' = "record" /\ UNCHANGED call
         \/ pc' \in {"idle", "ended"} /\ call' = NoCall
  BY DEF BeforeCheckpointed, Goes, Ends
<1>2. Stored
  BY CreateStores, CreateFailsStores DEF BeforeCheckpointed
<1>3. call.ret = "before" /\ pc' # "ended"
  BY <1>1 DEF ControlInv, BeforeCheckpointed, Goes, Ends
<1>4. made'.mutations = made.mutations
  BY <1>2 DEF Stored
<1>5. ControlInv'
  BY <1>1, <1>4 DEF ControlInv, Live, NoCall, Mutating, Restoring, Launching
<1>6. project # Missing /\ call' \in Call
  BY <1>1, RecordTypes DEF ProjectInv, Restoring, TypeOK
<1>7. m \in Memory /\ (ed.inbox # {} => m.needs /\ m.op.session \in {0, m.attached})
  BY <1>1 DEF TypeOK, Memory, InboxInv, Live
<1>8. Checkpoints
  BY <1>1, <1>2, <1>3, <1>6, <1>7 DEF Checkpoints, Live, Mutating, NoCall
<1> QED
  BY <1>5, <1>8, CheckpointsKeeps

\* The checkpoint after a mutation keeps the invariant.
LEMMA AfterCheckpointedKeeps ==
  ASSUME IndInv, AfterCheckpointed
  PROVE  IndInv'
<1> USE DEF IndInv
<1>1. /\ pc = "after" /\ UNCHANGED <<m, receipt, ed, call>>
      /\ pc' \in {"complete", "unprotected"}
      /\ pc' = "complete" => Create
      /\ pc' = "unprotected" => CreateFails
  BY DEF AfterCheckpointed, Goes
<1>2. Stored /\ (pc' = "complete" => made'.points = made.points + 1)
  BY <1>1, CreateStores, CreateFailsStores
<1>3. made'.mutations = made.mutations
  BY <1>2 DEF Stored
<1>4. ControlInv'
  BY <1>1, <1>3 DEF ControlInv, Live, Mutating, Restoring, Launching
<1>5. ed.inbox = {} /\ project # Missing /\ call' \in Call /\ m \in Memory
  BY <1>1 DEF InboxInv, ProjectInv, Restoring, TypeOK, Memory
<1>6. Checkpoints
  BY <1>1, <1>2, <1>5 DEF Checkpoints, Live, Mutating
<1> QED
  BY <1>4, <1>6, CheckpointsKeeps

\* A checkpoint the agent asks for keeps the invariant.
LEMMA CheckpointAskedKeeps ==
  ASSUME IndInv, NEW accept \in BOOLEAN, CheckpointAsked(accept)
  PROVE  IndInv'
<1> USE DEF IndInv
<1>1. /\ pc = "idle" /\ UNCHANGED <<m, receipt, ed, call>>
      /\ pc' \in {"accept", "idle"}
      /\ pc' = "accept" => project # Missing
  BY DEF CheckpointAsked, Goes
<1>2. Stored
  <2>1. CASE /\ project # Missing
             /\ store' = Retained(Append(store, [id |-> NextPoint, files |-> project]))
             /\ made' = [made EXCEPT !.points = NextPoint, !.asked = @ + 1]
             /\ UNCHANGED <<project, staged, preserved>>
    <3>1. made.asked \in 0..MaxPoints /\ made.asked < MaxPoints /\ made.points \in Nat
      BY DEF CheckpointAsked, TypeOK
    <3>2. made.asked + 1 \in 0..MaxPoints /\ NextPoint \in Nat
      BY <3>1, ManagedRecoveryAssumption DEF NextPoint
    <3>3. /\ made' \in Counts /\ made'.points = NextPoint
          /\ made'.mutations = made.mutations /\ made'.restores = made.restores
      BY <2>1, <3>2 DEF TypeOK, Counts
    <3> QED
      BY <2>1, <3>3, RetainedStores
  <2>2. CASE CreateFails
    BY <2>2, CreateFailsStores
  <2> QED
    BY <2>1, <2>2 DEF CheckpointAsked
<1>3. made'.mutations = made.mutations
  BY <1>2 DEF Stored
<1>4. ControlInv'
  BY <1>1, <1>3 DEF ControlInv, Live, Mutating, Restoring, Launching
<1>5. /\ call' \in Call /\ m \in Memory /\ call.ret = "idle"
      /\ ed.inbox # {} => m.needs /\ m.op.session \in {0, m.attached} /\ Alive
  BY <1>1 DEF ControlInv, InboxInv, TypeOK, Memory, Live
<1>6. ed.inbox = {}
  BY <1>5 DEF CheckpointAsked, MayAccept
<1>7. Checkpoints
  BY <1>1, <1>2, <1>5, <1>6 DEF Checkpoints, Live
<1> QED
  BY <1>4, <1>7, CheckpointsKeeps

\* The end of a restore keeps the invariant.
LEMMA RestoredKeeps ==
  ASSUME IndInv, Restored
  PROVE  IndInv'
<1> USE DEF IndInv
<1> DEFINE mem == [m EXCEPT !.op.outcome = "restored"]
           mem2 == [mem EXCEPT !.needs = FALSE]
<1>1. /\ pc = "installed" /\ UNCHANGED <<receipt, ed>>
      /\ m' = mem \/ m' = mem2
      /\ \/ pc' = "launch" /\ UNCHANGED call
         \/ pc' = (IF call.ret = "serve" THEN "ended" ELSE "idle") /\ call' = NoCall
  BY DEF Restored, Goes, Ends
<1>2. Stored
  BY CreateStores, CreateFailsStores DEF Restored
<1>3. call.ret = "idle" /\ pc' \in {"launch", "idle"}
  BY <1>1 DEF ControlInv, Restoring
<1>4. /\ mem \in Memory /\ mem.op.preserved = m.op.preserved
      /\ mem.op.outcome # "completed"
  BY DEF TypeOK, Memory, Operation, Outcomes
<1>5. /\ mem2 \in Memory /\ mem2.op.preserved = m.op.preserved
      /\ mem2.op.outcome # "completed"
  BY DEF TypeOK, Memory, Operation, Outcomes
<1> HIDE DEF mem, mem2
<1>6. made'.mutations = made.mutations
  BY <1>2 DEF Stored
<1>7. ControlInv'
  BY <1>1, <1>3, <1>6 DEF ControlInv, Live, NoCall, Mutating, Restoring, Launching
<1>8. ed.inbox = {} /\ project # Missing /\ call' \in Call
  BY <1>1, RecordTypes DEF InboxInv, ProjectInv, Restoring, TypeOK
<1>9. call'.ret = "idle"
  BY <1>1, <1>3 DEF NoCall
<1>10. Checkpoints
  BY <1>1, <1>2, <1>3, <1>4, <1>5, <1>8, <1>9 DEF Checkpoints, Live
<1> QED
  BY <1>7, <1>10, CheckpointsKeeps

-----------------------------------------------------------------------------
(* A mutation between its receipts.                                        *)

\* A call is answered: the rest of it stays.
LEMMA AnswersCall ==
  ASSUME TypeOK, NEW a \in {"none", "ok", "unknown", "not_started"}, Answers(a)
  PROVE  /\ pc' = "answered" /\ call' \in Call /\ call'.answer = a
         /\ call'.ret = call.ret /\ call'.kind = call.kind
         /\ call'.lease = call.lease /\ call'.prior = call.prior
  BY DEF Answers, TypeOK, Call

\* What holds of a mutation, and of what it may leave behind.
Carried ==
  /\ pc \in {"dispatch", "sent", "answered"}
  /\ call' \in Call /\ call'.ret = call.ret /\ call'.kind = call.kind
  /\ call'.lease = call.lease /\ call'.prior = call.prior
  /\ m' \in Memory /\ m'.op = m.op /\ m'.needs = m.needs /\ m'.attached = m.attached
  /\ UNCHANGED <<receipt, store, staged, preserved, made>>
  /\ project' \in SUBSET Ids /\ project \subseteq project'
  /\ ed' \in [run: {"none", "running", "unproven", "crashed", "closed"}, session: Nat,
              inbox: SUBSET Ids, memory: SUBSET Ids]
  /\ ed'.run = ed.run /\ ed'.memory = ed.memory

\* Nothing is sent but the mutation's own request, to an editor that is there, and
\* an answer is true.
Truthful ==
  /\ pc' \in {"sent", "answered", "after"}
  /\ \/ ed'.inbox \subseteq ed.inbox
     \/ /\ ed'.inbox = {m.op.id} /\ m.op.id <= made.mutations
        /\ Alive /\ receipt.needs /\ m.needs /\ m.op.session = m.attached
  /\ pc' = "sent" => /\ ed'.inbox \subseteq {m.op.id} /\ ed'.inbox \intersect ed.memory = {}
                     /\ call.kind = "scene"
  /\ pc' = "after" => ed'.inbox = {} /\ m.op.id \in project'
  /\ pc' = "answered" /\ call'.answer # "unknown" => ed'.inbox = {}
  /\ pc' = "answered" /\ call'.answer = "ok" =>
       IF call.kind = "file" THEN m.op.id \in project' ELSE m.op.id \in ed.memory

\* A step of a mutation on its way keeps the invariant.
LEMMA CarriedKeeps ==
  ASSUME IndInv, Carried, Truthful
  PROVE  IndInv'
<1> USE DEF IndInv
<1>1. /\ UNCHANGED <<receipt, store, staged, preserved, made>>
      /\ pc \in Mutating /\ pc' \in Mutating \ {"dispatch"}
      /\ call.ret = "before" /\ project # Missing /\ m.op.id \in Ids
  BY DEF Carried, Truthful, Mutating, ControlInv, ProjectInv, Restoring, StoreInv
<1>2. project' # Missing
  BY DEF Carried, Missing, Ids
<1>3. TypeOK'
  BY <1>1 DEF TypeOK, Carried, Memory, Content
<1>4. ControlInv'
  BY <1>1 DEF ControlInv, Carried, Truthful, Live, Mutating, Restoring, Launching
<1>5. InboxInv'
  BY <1>1 DEF InboxInv, Carried, Truthful, Live, Alive
<1>6. NumberInv'
  BY <1>1 DEF NumberInv, Carried, Truthful, Live
<1>7. StoreInv'
  BY <1>1 DEF StoreInv, Carried, Truthful, Protected, Live
<1>8. ProjectInv'
  <2>1. m'.op.preserved <= made.restores /\ receipt.op.preserved <= made.restores
    BY <1>1 DEF ProjectInv, Carried, Live
  <2>2. \A n \in 1..MaxRestores : n > made.restores => preserved[n] = Missing
    BY <1>1 DEF ProjectInv, Carried, Live
  <2> QED
    BY <1>1, <1>2, <2>1, <2>2 DEF ProjectInv, Restoring, Mutating
<1> QED
  BY <1>3, <1>4, <1>5, <1>6, <1>7, <1>8

\* Sending a mutation keeps the invariant.
LEMMA DispatchedKeeps ==
  ASSUME IndInv, Dispatched
  PROVE  IndInv'
<1> USE DEF IndInv
<1>1. /\ pc = "dispatch"
      /\ UNCHANGED <<m, receipt, store, staged, preserved, made>>
  BY DEF Dispatched
<1>2. /\ ed.inbox = {} /\ receipt.needs /\ m.needs
      /\ m.op.session = m.attached /\ m.op.id = made.mutations
      /\ project # Missing /\ call.ret = "before" /\ m.op.id \in Ids
  BY <1>1 DEF InboxInv, ProjectInv, Restoring, ControlInv, Mutating, StoreInv
<1>3. m \in Memory /\ project \in SUBSET Ids /\ m.op.id <= made.mutations
  BY <1>2, ManagedRecoveryAssumption DEF TypeOK, Memory, Content, Ids
<1>4. CASE /\ call.kind = "scene" /\ ed.run = "running" /\ ed.session = call.lease
           /\ ed' = [ed EXCEPT !.inbox = @ \union {m.op.id}]
           /\ Goes("sent")
           /\ UNCHANGED project
  <2>1. /\ ed'.run = ed.run /\ ed'.memory = ed.memory /\ ed'.inbox = {m.op.id}
        /\ ed' \in [run: {"none", "running", "unproven", "crashed", "closed"}, session: Nat,
                    inbox: SUBSET Ids, memory: SUBSET Ids]
    BY <1>2, <1>4 DEF TypeOK
  <2>2. Alive
    BY <1>4 DEF Alive
  <2>3. m.op.id \notin ed.memory
    <3>1. m.op.id \in ed.memory => m.op.id < made.mutations
      BY <1>1, <1>2 DEF NumberInv, Live, Mutating
    <3> QED
      BY <1>2, <3>1, ManagedRecoveryAssumption DEF Ids
  <2>4. Carried
    BY <1>1, <1>3, <1>4, <2>1 DEF Carried, Goes, TypeOK
  <2>5. Truthful
    BY <1>2, <1>3, <1>4, <2>1, <2>2, <2>3 DEF Truthful, Goes
  <2> QED
    BY <2>4, <2>5, CarriedKeeps
<1>5. CASE /\ call.kind = "scene"
           /\ Answers("not_started") \/ Answers("unknown")
           /\ UNCHANGED <<ed, project>>
  <2>1. /\ pc' = "answered" /\ call' \in Call /\ call'.answer \in {"not_started", "unknown"}
        /\ call'.ret = call.ret /\ call'.kind = call.kind
        /\ call'.lease = call.lease /\ call'.prior = call.prior
    BY <1>5, AnswersCall
  <2>2. Carried
    BY <1>1, <1>3, <1>5, <2>1 DEF Carried, TypeOK
  <2>3. Truthful
    BY <1>2, <1>5, <2>1 DEF Truthful
  <2> QED
    BY <2>2, <2>3, CarriedKeeps
<1>6. CASE /\ call.kind = "file"
           /\ \/ project' = project \union {m.op.id} /\ (Answers("ok") \/ Answers("unknown"))
              \/ project' = project /\ Answers("unknown")
           /\ UNCHANGED ed
  <2>1. /\ pc' = "answered" /\ call' \in Call
        /\ call'.answer = "ok" => m.op.id \in project'
        /\ call'.ret = call.ret /\ call'.kind = call.kind
        /\ call'.lease = call.lease /\ call'.prior = call.prior
    BY <1>6, AnswersCall
  <2>2. project' \in SUBSET Ids /\ project \subseteq project'
    BY <1>2, <1>3, <1>6
  <2>3. Carried
    BY <1>1, <1>3, <1>6, <2>1, <2>2 DEF Carried, TypeOK
  <2>4. Truthful
    BY <1>2, <1>6, <2>1 DEF Truthful
  <2> QED
    BY <2>3, <2>4, CarriedKeeps
<1> QED
  BY <1>4, <1>5, <1>6 DEF Dispatched

\* The answer to a mutation, or its absence, keeps the invariant.
LEMMA AnsweredKeeps ==
  ASSUME IndInv, Answered
  PROVE  IndInv'
<1> USE DEF IndInv
<1>1. /\ pc = "sent" /\ UNCHANGED <<receipt, store, project, staged, preserved, made>>
  BY DEF Answered, disk
<1>2. /\ project # Missing /\ m.op.id \in Ids
      /\ ed.inbox \subseteq {m.op.id} /\ ed.inbox \intersect ed.memory = {}
  BY <1>1 DEF InboxInv, ProjectInv, Restoring, Mutating, StoreInv
<1>3. m \in Memory /\ project \in SUBSET Ids
  BY <1>2 DEF TypeOK, Memory, Content
<1>4. CASE m.op.id \in ed.memory /\ Answers("ok") /\ UNCHANGED <<m, ed>>
  <2>1. /\ pc' = "answered" /\ call' \in Call
        /\ call'.ret = call.ret /\ call'.kind = call.kind
        /\ call'.lease = call.lease /\ call'.prior = call.prior
    BY <1>4, AnswersCall
  <2>2. Carried
    BY <1>1, <1>3, <1>4, <2>1 DEF Carried, TypeOK
  <2>3. ed.inbox = {}
    BY <1>2, <1>4
  <2>4. call.kind = "scene"
    BY <1>1 DEF ControlInv
  <2>5. Truthful
    BY <1>4, <2>1, <2>3, <2>4 DEF Truthful
  <2> QED
    BY <2>2, <2>5, CarriedKeeps
<1>5. CASE /\ m.op.id \in ed.inbox
           /\ ed' = [ed EXCEPT !.inbox = @ \ {m.op.id}]
           /\ Answers("not_started")
           /\ UNCHANGED m
  <2>1. /\ pc' = "answered" /\ call' \in Call /\ call'.answer = "not_started"
        /\ call'.ret = call.ret /\ call'.kind = call.kind
        /\ call'.lease = call.lease /\ call'.prior = call.prior
    BY <1>5, AnswersCall
  <2>2. /\ ed'.run = ed.run /\ ed'.memory = ed.memory /\ ed'.inbox = {}
        /\ ed' \in [run: {"none", "running", "unproven", "crashed", "closed"}, session: Nat,
                    inbox: SUBSET Ids, memory: SUBSET Ids]
    BY <1>2, <1>5 DEF TypeOK
  <2>3. Carried
    BY <1>1, <1>3, <1>5, <2>1, <2>2 DEF Carried
  <2>4. Truthful
    BY <2>1, <2>2 DEF Truthful
  <2> QED
    BY <2>3, <2>4, CarriedKeeps
<1>6. CASE Answers("unknown") /\ m' \in {m, [m EXCEPT !.route = 0]} /\ UNCHANGED ed
  <2>1. /\ pc' = "answered" /\ call' \in Call /\ call'.answer = "unknown"
        /\ call'.ret = call.ret /\ call'.kind = call.kind
        /\ call'.lease = call.lease /\ call'.prior = call.prior
    BY <1>6, AnswersCall
  <2>2. m' \in Memory /\ m'.op = m.op /\ m'.needs = m.needs /\ m'.attached = m.attached
    BY <1>3, <1>6 DEF Memory
  <2>3. Carried
    BY <1>1, <1>3, <1>6, <2>1, <2>2 DEF Carried, TypeOK
  <2>4. Truthful
    BY <1>6, <2>1 DEF Truthful
  <2> QED
    BY <2>3, <2>4, CarriedKeeps
<1> QED
  BY <1>4, <1>5, <1>6 DEF Answered

\* Saving the scenes keeps the invariant.
LEMMA SceneSavedKeeps ==
  ASSUME IndInv, SceneSaved
  PROVE  IndInv'
<1> USE DEF IndInv
<1>1. /\ pc = "answered" /\ call.answer = "ok" /\ pc' = "after"
      /\ UNCHANGED <<m, receipt, store, staged, preserved, ed, made, call>>
      /\ \/ call.kind = "file" /\ UNCHANGED project
         \/ call.kind = "scene" /\ ed.run = "running" /\ project' = project \union ed.memory
  BY DEF SceneSaved, Goes
<1>2. /\ project # Missing /\ ed.inbox = {}
      /\ IF call.kind = "file" THEN m.op.id \in project
                               ELSE ed.run = "running" => m.op.id \in ed.memory
  BY <1>1 DEF InboxInv, ProjectInv, Restoring, StoreInv
<1>3. m \in Memory /\ project \in SUBSET Ids /\ ed.memory \in SUBSET Ids
  BY <1>2 DEF TypeOK, Memory, Content
<1>4. project' \in SUBSET Ids /\ project \subseteq project' /\ m.op.id \in project'
  BY <1>1, <1>2, <1>3
<1>5. Carried
  BY <1>1, <1>3, <1>4 DEF Carried, TypeOK
<1>6. Truthful
  BY <1>1, <1>2, <1>4 DEF Truthful
<1> QED
  BY <1>5, <1>6, CarriedKeeps

-----------------------------------------------------------------------------
(* A restore, once its receipt is written.                                 *)

\* Stopping the editor for a restore keeps the invariant.
LEMMA EditorStoppedKeeps ==
  ASSUME IndInv, EditorStopped
  PROVE  IndInv'
<1> USE DEF IndInv
<1>1. /\ UNCHANGED <<receipt, store, project, staged, preserved, call, made>>
      /\ pc = "stop" /\ pc' = "away" /\ m' = [m EXCEPT !.route = 0]
  BY DEF EditorStopped, Goes, disk
<1>2. m' \in Memory /\ m'.op = m.op /\ m'.needs = m.needs /\ m'.attached = m.attached
  BY <1>1 DEF TypeOK, Memory
<1>3. /\ ed' \in [run: {"none", "running", "unproven", "crashed", "closed"}, session: Nat,
                  inbox: SUBSET Ids, memory: SUBSET Ids]
      /\ \/ ed'.inbox = ed.inbox /\ ed'.memory = ed.memory /\ (Alive' <=> Alive)
         \/ ed'.inbox = {} /\ ed'.memory = {} /\ ~Alive'
  <2>1. CASE ed' = ed
    BY <2>1 DEF TypeOK, Alive
  <2>2. CASE ed' = [ed EXCEPT !.run = "crashed", !.inbox = {}, !.memory = {}]
    BY <2>2 DEF TypeOK, Alive
  <2>3. CASE ed.run = "running" /\ ed' = [ed EXCEPT !.run = "unproven"]
    BY <2>3 DEF TypeOK, Alive
  <2> QED
    BY <2>1, <2>2, <2>3 DEF EditorStopped
<1>4. TypeOK'
  BY <1>1, <1>2, <1>3 DEF TypeOK, Memory
<1>5. ControlInv'
  BY <1>1, <1>2 DEF ControlInv, Live, Mutating, Restoring, Launching
<1>6. InboxInv'
  BY <1>1, <1>2, <1>3 DEF InboxInv, Live
<1>7. NumberInv'
  BY <1>1, <1>3 DEF NumberInv, Live, ControlInv, Restoring
<1>8. StoreInv'
  BY <1>1, <1>2 DEF StoreInv, Protected, Live, Mutating
<1>9. ProjectInv'
  <2>1. project = Missing =>
          /\ ~Alive'
          /\ Unfinished(receipt.needs, receipt.op)'
          /\ Unfinished(m.needs, m.op)'
    BY <1>1, <1>2, <1>3 DEF ProjectInv, Unfinished, Live
  <2> QED
    BY <1>1, <1>2, <2>1 DEF ProjectInv, Live, Restoring
<1> QED
  BY <1>4, <1>5, <1>6, <1>7, <1>8, <1>9

\* The directories move; the server's memory and the editor are left alone.
Moves ==
  /\ pc \in {"away", "in"} /\ pc' \in {"in", "installed", "fail"}
  /\ ~Alive
  /\ UNCHANGED <<m, receipt, store, ed, made, call>>
  /\ project' \in Content /\ staged' \in Content
  /\ preserved' \in [1..MaxRestores -> Content]
  /\ \A n \in 1..MaxRestores : n # made.restores => preserved'[n] = preserved[n]
  /\ project' = Missing => preserved'[made.restores] # Missing
  /\ pc' = "in" => project' = Missing /\ staged' # Missing
  /\ pc' = "installed" => project' # Missing

\* A rename of a restore, with the other half still known, keeps the invariant.
LEMMA MovesKeeps ==
  ASSUME IndInv, Moves
  PROVE  IndInv'
<1> USE DEF IndInv
<1>1. /\ UNCHANGED <<m, receipt, store, ed, made, call>>
      /\ pc \in {"away", "in"} /\ pc' \in {"in", "installed", "fail"} /\ ~Alive'
  BY DEF Moves, Alive
<1>2. TypeOK'
  BY DEF TypeOK, Moves
<1>3. ControlInv'
  BY <1>1 DEF ControlInv, Live, Mutating, Restoring, Launching
<1>4. InboxInv'
  BY <1>1 DEF InboxInv, Live, Alive
<1>5. NumberInv'
  BY <1>1 DEF NumberInv, Live, ControlInv, Restoring
<1>6. StoreInv'
  BY <1>1 DEF StoreInv, Protected, Live, Mutating
<1>7. ProjectInv'
  <2>1. /\ made.restores \in 1..MaxRestores
        /\ m.needs /\ m.op.outcome = "restore_prepared" /\ m.op.preserved = made.restores
        /\ receipt.needs /\ receipt.op.outcome = "restore_prepared"
        /\ receipt.op.preserved = made.restores
    <3>1. made.restores \in 0..MaxRestores /\ made.restores # 0
      BY <1>1 DEF TypeOK, ProjectInv, Restoring
    <3>2. made.restores \in 1..MaxRestores
      BY <3>1, ManagedRecoveryAssumption
    <3> QED
      BY <1>1, <3>2 DEF ProjectInv, Restoring
  <2>2. made.restores \in 1..made.restores
    BY <2>1, ManagedRecoveryAssumption
  <2>3. project' = Missing =>
          Unfinished(receipt.needs, receipt.op)' /\ Unfinished(m.needs, m.op)'
    BY <1>1, <2>1, <2>2 DEF Moves, Unfinished
  <2>4. \A n \in 1..MaxRestores : n > made.restores => preserved'[n] = Missing
    <3>1. \A n \in 1..MaxRestores : n > made.restores => preserved[n] = Missing
      BY <1>1 DEF ProjectInv, Live
    <3>2. \A n \in 1..MaxRestores : n > made.restores => n # made.restores
      BY <2>1, ManagedRecoveryAssumption
    <3> QED
      BY <3>1, <3>2 DEF Moves
  <2>5. m.op.preserved <= made.restores /\ receipt.op.preserved <= made.restores
    BY <1>1 DEF ProjectInv, Live
  <2>6. /\ pc' = "in" => project' = Missing /\ preserved'[made.restores] # Missing
                         /\ staged' # Missing
        /\ pc' = "installed" => project' # Missing
    BY DEF Moves
  <2>7. made.restores # 0
    BY <2>1, ManagedRecoveryAssumption
  <2> QED
    BY <1>1, <2>1, <2>3, <2>4, <2>5, <2>6, <2>7 DEF ProjectInv, Restoring
<1> QED
  BY <1>2, <1>3, <1>4, <1>5, <1>6, <1>7

\* Moving the project away keeps the invariant.
LEMMA MovedAwayKeeps ==
  ASSUME IndInv, MovedAway
  PROVE  IndInv'
<1> USE DEF IndInv
<1>1. made.restores \in 1..MaxRestores
  <2>1. made.restores \in 0..MaxRestores /\ made.restores # 0
    BY DEF MovedAway, TypeOK, ProjectInv, Restoring
  <2> QED
    BY <2>1, ManagedRecoveryAssumption
<1>2. /\ preserved' \in [1..MaxRestores -> Content]
      /\ preserved'[made.restores] = project
      /\ \A n \in 1..MaxRestores : n # made.restores => preserved'[n] = preserved[n]
  BY <1>1 DEF MovedAway, TypeOK
<1>3. staged # Missing /\ preserved[made.restores] = Missing
  BY <1>1 DEF MovedAway, ProjectInv, Live
<1>4. Moves
  BY <1>2, <1>3 DEF MovedAway, Goes, Moves, TypeOK, Content
<1> QED
  BY <1>4, MovesKeeps

\* Moving the staged copy in keeps the invariant.
LEMMA MovedInKeeps ==
  ASSUME IndInv, MovedIn
  PROVE  IndInv'
<1> USE DEF IndInv
<1>1. staged # Missing /\ ~Alive
  BY DEF MovedIn, ProjectInv, InboxInv
<1>2. Moves
  BY <1>1 DEF MovedIn, Goes, Moves, TypeOK, Content
<1> QED
  BY <1>2, MovesKeeps

\* Rolling a restore back, as far as it goes, keeps the invariant.
LEMMA RolledBackKeeps ==
  ASSUME IndInv, RolledBack
  PROVE  IndInv'
<1> USE DEF IndInv
<1>1. made.restores \in 1..MaxRestores
  <2>1. made.restores \in 0..MaxRestores /\ made.restores # 0
    BY DEF RolledBack, TypeOK, ProjectInv, Restoring
  <2> QED
    BY <2>1, ManagedRecoveryAssumption
<1>2. /\ ~Alive /\ project = Missing /\ preserved[made.restores] # Missing
      /\ preserved[made.restores] \in Content
  BY <1>1 DEF RolledBack, ProjectInv, InboxInv, TypeOK
<1>3. /\ preserved' \in [1..MaxRestores -> Content] /\ project' \in Content
      /\ \A n \in 1..MaxRestores : n # made.restores => preserved'[n] = preserved[n]
      /\ project' = Missing => preserved'[made.restores] # Missing
  <2>1. CASE UNCHANGED <<project, preserved>>
    BY <1>2, <2>1 DEF TypeOK
  <2>2. CASE /\ project' = preserved[made.restores]
             /\ preserved' = [preserved EXCEPT ![made.restores] = Missing]
    BY <1>1, <1>2, <2>2 DEF TypeOK, Content
  <2> QED
    BY <2>1, <2>2 DEF RolledBack
<1>4. Moves
  BY <1>2, <1>3 DEF RolledBack, Goes, Moves, TypeOK
<1> QED
  BY <1>4, MovesKeeps

-----------------------------------------------------------------------------
(* The invariant.                                                          *)

\* The invariant holds of a server that starts on a new project.
LEMMA InitHolds == Init => IndInv
<1> SUFFICES ASSUME Init PROVE IndInv
  OBVIOUS
<1> USE DEF Init
<1>1. /\ NewMemory \in Memory /\ NewMemory.op = NoOperation /\ ~NewMemory.needs
      /\ NoneMade \in Counts /\ NoneMade.points = 1 /\ NoneMade.restores = 0
  BY RecordTypes, ManagedRecoveryAssumption DEF NewMemory, Memory, States, NoneMade, Counts
<1>2. NoOperation.outcome = "none" /\ NoOperation.preserved = 0
  BY DEF NoOperation
<1>3. /\ store \in Seq(Point) /\ DOMAIN store = {1} /\ store[1].id = 1
      /\ store[1] \in Point
  BY DEF Point
<1>4. call \in Call /\ call.ret = "serve"
  BY DEF NoCall, Call
<1>5. /\ receipt \in [needs: BOOLEAN, op: Operation]
      /\ receipt.op = NoOperation
  BY RecordTypes
<1>6. project \in SUBSET Ids /\ project # Missing
  BY DEF Missing
<1>7. TypeOK
  BY <1>1, <1>3, <1>4, <1>5, <1>6 DEF TypeOK, Content, Memory, Counts, Point
<1>8. ControlInv
  BY <1>4 DEF ControlInv, Mutating, Restoring, Launching
<1>9. InboxInv
  BY DEF InboxInv, Alive
<1>10. NumberInv
  BY DEF NumberInv
<1>11. StoreInv
  BY <1>1, <1>2, <1>3, <1>5 DEF StoreInv, Protected, Mutating
<1>12. ProjectInv
  <2>1. m.op.preserved <= made.restores /\ receipt.op.preserved <= made.restores
    BY <1>1, <1>2, <1>5
  <2>2. \A n \in 1..MaxRestores : preserved[n] = Missing
    OBVIOUS
  <2>3. pc \notin Restoring /\ pc = "launch"
    BY DEF Restoring
  <2> QED
    BY <1>6, <2>1, <2>2, <2>3 DEF ProjectInv, Restoring
<1> QED
  BY <1>7, <1>8, <1>9, <1>10, <1>11, <1>12 DEF IndInv

\* Every step keeps the invariant.
LEMMA NextKeeps == IndInv /\ [Next]_vars => IndInv'
<1> SUFFICES ASSUME IndInv, [Next]_vars PROVE IndInv'
  OBVIOUS
<1>1. CASE UNCHANGED vars
  BY <1>1 DEF vars, IndInv, TypeOK, ControlInv, InboxInv, NumberInv, StoreInv, ProjectInv,
              Protected, Unfinished, Live, Alive
<1>2. CASE LaunchStarts
  BY <1>2, LaunchStartsKeeps
<1>3. CASE LaunchAttaches
  BY <1>3, LaunchAttachesKeeps
<1>4. CASE LaunchSettles
  BY <1>4, LaunchSettlesKeeps
<1>5. CASE LaunchAnnounces
  BY <1>5, LaunchAnnouncesKeeps
<1>6. CASE LaunchFails
  BY <1>6, LaunchFailsKeeps
<1>7. CASE EnsureFine
  BY <1>7, EnsureFineKeeps
<1>8. CASE EnsureRefused
  BY <1>8, EnsureRefusedKeeps
<1>9. CASE EnsureSpent
  BY <1>9, EnsureSpentKeeps
<1>10. CASE EnsureRestarts
  BY <1>10, EnsureRestartsKeeps
<1>11. CASE RecoverEditor
  BY <1>11, RecoverEditorKeeps
<1>12. CASE \E kind \in {"scene", "file"} : MutationCalled(kind)
  BY <1>12, MutationCalledKeeps
<1>13. CASE MutationCompared
  BY <1>13, MutationComparedKeeps
<1>14. CASE MutationGuarded
  BY <1>14, MutationGuardedKeeps
<1>15. CASE BeforeCheckpointed
  BY <1>15, BeforeCheckpointedKeeps
<1>16. CASE PendingRecorded
  BY <1>16, PendingRecordedKeeps
<1>17. CASE Dispatched
  BY <1>17, DispatchedKeeps
<1>18. CASE Answered
  BY <1>18, AnsweredKeeps
<1>19. CASE FailureRecorded
  BY <1>19, FailureRecordedKeeps
<1>20. CASE SceneSaved
  BY <1>20, SceneSavedKeeps
<1>21. CASE SaveFails
  BY <1>21, AppliedKeeps DEF SaveFails
<1>22. CASE AfterCheckpointed
  BY <1>22, AfterCheckpointedKeeps
<1>23. CASE AfterFailed
  BY <1>23, AppliedKeeps DEF AfterFailed
<1>24. CASE CompletionRecorded
  BY <1>24, CompletionRecordedKeeps
<1>25. CASE \E accept \in BOOLEAN : CheckpointAsked(accept)
  BY <1>25, CheckpointAskedKeeps
<1>26. CASE CheckpointRecorded
  BY <1>26, CheckpointRecordedKeeps
<1>27. CASE RestoreAsked
  BY <1>27, RestoreAskedKeeps
<1>28. CASE RestorePrepared
  BY <1>28, RestorePreparedKeeps
<1>29. CASE EditorStopped
  BY <1>29, EditorStoppedKeeps
<1>30. CASE StopUnproven
  BY <1>30, RestoreFailedKeeps DEF StopUnproven
<1>31. CASE MovedAway
  BY <1>31, MovedAwayKeeps
<1>32. CASE MoveAwayFails
  BY <1>32, RestoreFailedKeeps DEF MoveAwayFails
<1>33. CASE MovedIn
  BY <1>33, MovedInKeeps
<1>34. CASE RolledBack
  BY <1>34, RolledBackKeeps
<1>35. CASE RollbackRecorded
  BY <1>35, RestoreFailedKeeps DEF RollbackRecorded
<1>36. CASE Restored
  BY <1>36, RestoredKeeps
<1>37. CASE \E how \in {"crashed", "closed"} : EditorExits(how)
  BY <1>37, EditorExitsKeeps
<1>38. CASE \E id \in Ids : EditorApplies(id)
  BY <1>38, EditorAppliesKeeps
<1>39. CASE HostEnds
  BY <1>39, HostEndsKeeps
<1> QED
  BY <1>1, <1>2, <1>3, <1>4, <1>5, <1>6, <1>7, <1>8, <1>9, <1>10, <1>11, <1>12, <1>13,
     <1>14, <1>15, <1>16, <1>17, <1>18, <1>19, <1>20, <1>21, <1>22, <1>23, <1>24, <1>25,
     <1>26, <1>27, <1>28, <1>29, <1>30, <1>31, <1>32, <1>33, <1>34, <1>35, <1>36, <1>37,
     <1>38, <1>39
  DEF Next

\* The inductive invariant holds in every state a managed server can be in.
THEOREM RecoveryInvariant == Spec => []IndInv
  BY InitHolds, NextKeeps, PTL DEF Spec

\* What the members, the receipt, the store and the directories hold is what the
\* code declares them to hold.
THEOREM TypeCorrect == Spec => []TypeOK
<1>1. IndInv => TypeOK
  BY DEF IndInv
<1> QED
  BY <1>1, RecoveryInvariant, PTL

\* A mutation the editor may still carry out is unsettled in recovery.json, and in
\* the memory of a server that is running, however writes fail and whoever dies
\* (beforeMutation, afterMutation, checkpoint and restore of ManagedRecovery).
THEOREM OpenOutcomesAreRecorded == Spec => []UnsettledIsRecorded
<1>1. IndInv => UnsettledIsRecorded
  BY DEF IndInv, InboxInv, UnsettledIsRecorded, Live
<1> QED
  BY <1>1, RecoveryInvariant, PTL

\* A receipt that says completed names a checkpoint that holds the change, or one
\* that is no longer retained, for any number of retained checkpoints
\* (afterMutation; CheckpointStore::create).
THEOREM CompletionsAreProtected == Spec => []CompletedIsProtected
<1>1. IndInv => CompletedIsProtected
  BY DEF IndInv, StoreInv, Protected, CompletedIsProtected
<1> QED
  BY <1>1, RecoveryInvariant, PTL

\* While there is no project directory, the receipt says that a restore is
\* unfinished and the old project is at a place it preserved
\* (ManagedRecovery::restore, wherever it stops).
THEOREM MissingProjectsAreRecorded == Spec => []MissingProjectIsPreserved
<1>1. IndInv => MissingProjectIsPreserved
  BY DEF IndInv, ProjectInv, Unfinished, MissingProjectIsPreserved
<1> QED
  BY <1>1, RecoveryInvariant, PTL

-----------------------------------------------------------------------------
(* What no step does.                                                      *)

\* Only a dispatch sends anything to the editor, and it sends it to the one its
\* call was made for.
LEMMA StepNeverSentToRestarted ==
  ASSUME IndInv, [Next]_vars
  PROVE  [\A id \in Ids : id \in ed'.inbox \ ed.inbox => ed'.session = call.prior]_vars
<1>1. CASE Dispatched
  <2>1. CASE ed' = ed
    BY <2>1
  <2>2. CASE /\ ed.session = call.lease
             /\ ed' = [ed EXCEPT !.inbox = @ \union {m.op.id}]
    <3>1. call.lease = call.prior
      BY <1>1 DEF IndInv, ControlInv, Mutating, Dispatched
    <3>2. ed'.session = ed.session
      BY <2>2 DEF IndInv, TypeOK
    <3> QED
      BY <2>2, <3>1, <3>2
  <2> QED
    BY <1>1, <2>1, <2>2 DEF Dispatched
<1>2. CASE Answered
  <2>1. ed'.inbox \subseteq ed.inbox
    BY <1>2 DEF Answered, IndInv, TypeOK
  <2> QED
    BY <2>1
<1>3. CASE \E how \in {"crashed", "closed"} : EditorExits(how)
  <2>1. ed'.inbox = {}
    BY <1>3 DEF EditorExits, IndInv, TypeOK
  <2> QED
    BY <2>1
<1>4. CASE \E id \in Ids : EditorApplies(id)
  <2>1. ed'.inbox \subseteq ed.inbox
    BY <1>4 DEF EditorApplies, IndInv, TypeOK
  <2> QED
    BY <2>1
<1>5. CASE LaunchStarts
  <2>1. ed'.inbox = {}
    BY <1>5 DEF LaunchStarts
  <2> QED
    BY <2>1
<1>6. CASE EditorStopped
  <2>1. ed'.inbox \subseteq ed.inbox
    BY <1>6 DEF EditorStopped, IndInv, TypeOK
  <2> QED
    BY <2>1
<1>7. CASE UNCHANGED ed
  BY <1>7
<1>8. CASE UNCHANGED vars
  BY <1>8 DEF vars
<1>9. CASE \/ \E kind \in {"scene", "file"} : MutationCalled(kind)
           \/ \E accept \in BOOLEAN : CheckpointAsked(accept)
  BY <1>7, <1>9 DEF MutationCalled, CheckpointAsked
<1>10. CASE LaunchAttaches \/ LaunchSettles \/ LaunchAnnounces \/ LaunchFails \/ EnsureFine
            \/ EnsureRefused \/ EnsureSpent \/ EnsureRestarts \/ RecoverEditor
  BY <1>7, <1>10 DEF LaunchAttaches, LaunchSettles, LaunchAnnounces, LaunchFails, EnsureFine,
     EnsureRefused, EnsureSpent, EnsureRestarts, RecoverEditor, JournalTried
<1>11. CASE MutationCompared \/ MutationGuarded \/ BeforeCheckpointed \/ PendingRecorded
            \/ FailureRecorded \/ SceneSaved \/ SaveFails \/ AfterCheckpointed \/ AfterFailed
            \/ CompletionRecorded \/ CheckpointRecorded
  BY <1>7, <1>11 DEF MutationCompared, MutationGuarded, BeforeCheckpointed, PendingRecorded,
     FailureRecorded, SceneSaved, SaveFails, AfterCheckpointed, AfterFailed,
     CompletionRecorded, CheckpointRecorded, JournalTried
<1>12. CASE RestoreAsked \/ RestorePrepared \/ StopUnproven \/ MovedAway \/ MoveAwayFails
            \/ MovedIn \/ RolledBack \/ RollbackRecorded \/ Restored \/ HostEnds
  BY <1>7, <1>12 DEF RestoreAsked, RestorePrepared, StopUnproven, MovedAway, MoveAwayFails,
     MovedIn, RolledBack, RollbackRecorded, Restored, HostEnds, RestoreFailed, JournalTried
<1> QED
  BY <1>1, <1>2, <1>3, <1>4, <1>5, <1>6, <1>8, <1>9, <1>10, <1>11, <1>12 DEF Next

\* A scene edit only ever reaches the editor that was selected when it was asked
\* for, although either ensureEditor on the way may have restarted it
\* (ToolRegistry::callTool and ManagedRecovery::ensureEditor).
THEOREM EditsGoWhereTheyWereAsked == Spec => NeverSentToRestarted
<1>1. IndInv /\ [Next]_vars =>
        [\A id \in Ids : id \in ed'.inbox \ ed.inbox => ed'.session = call.prior]_vars
  BY StepNeverSentToRestarted
<1> QED
  BY <1>1, RecoveryInvariant, PTL DEF Spec, NeverSentToRestarted

-----------------------------------------------------------------------------
(* The checkpoint before an open mutation.                                 *)

\* The store holds the last checkpoints made, all of them or at least as many as
\* are retained.
Numbered(s, last) ==
  /\ 1 <= last
  /\ Len(s) <= last
  /\ Len(s) = last \/ Len(s) >= Kept
  /\ \A i \in 1..Len(s) : s[i].id + Len(s) = last + i

NumberedInv == Live => Numbered(store, made.points)

Open == m.op.outcome \in {"pending", "failed_or_unknown", "applied_persistence_failed",
                          "applied_checkpoint_failed", "applied_journal_failed"}

\* Of the checkpoints made since the one before an open mutation, beyond those that
\* a failed retention left behind: its own, that of the one restart, and that of an
\* acceptance about to be written down.
Unprotected == {"dispatch", "sent", "answered", "after"}
Relaunching == {"launch", "attach", "settle"}
One(p) == IF p THEN 1 ELSE 0
Since == One(pc \notin Unprotected) + One(m.restartUsed /\ pc \notin Relaunching)
         + One(pc = "accept")

OpenInv ==
  /\ pc \in Mutating => Open
  /\ Open =>
       /\ Live /\ call.ret # "serve" /\ m.needs
       /\ m.op.before \in 1..made.points
       /\ pc \in Relaunching => m.restartUsed
       /\ made.points <= m.op.before + made.faults + Since

KeptInv == NumberedInv /\ OpenInv

\* A checkpoint added to a store is its last one.
LEMMA AppendNumbered ==
  ASSUME NEW s \in Seq(Point), NEW last \in Nat, Numbered(s, last),
         NEW new \in Point, new.id = last + 1
  PROVE  Append(s, new) \in Seq(Point) /\ Numbered(Append(s, new), last + 1)
<1>1. /\ Append(s, new) \in Seq(Point)
      /\ Len(Append(s, new)) = Len(s) + 1
      /\ \A i \in 1..Len(s) : Append(s, new)[i] = s[i]
      /\ Append(s, new)[Len(s) + 1] = new
  BY AppendProperties
<1>2. Len(s) \in Nat /\ Kept \in Nat
  BY ManagedRecoveryAssumption
<1>3. ASSUME NEW i \in 1..(Len(s) + 1)
      PROVE  Append(s, new)[i].id + (Len(s) + 1) = (last + 1) + i
  <2>1. CASE i = Len(s) + 1
    BY <1>1, <1>2, <2>1
  <2>2. CASE i \in 1..Len(s)
    <3>1. s[i] \in Point
      BY <2>2, ElementOfSeq
    <3>2. s[i].id \in Nat /\ s[i].id + Len(s) = last + i
      BY <2>2, <3>1 DEF Numbered, Point
    <3>3. PICK x \in Nat, n \in Nat : x = s[i].id /\ n = Len(s) /\ x + n = last + i
      BY <1>2, <3>2
    <3>4. i \in Int
      OBVIOUS
    <3>6. x + (n + 1) = (last + 1) + i
      BY <3>3, <3>4
    <3>5. Append(s, new)[i].id = x
      BY <1>1, <2>2, <3>3
    <3> QED
      BY <3>3, <3>5, <3>6
  <2> QED
    BY <1>2, <2>1, <2>2
<1> QED
  BY <1>1, <1>2, <1>3 DEF Numbered

\* Where a checkpoint is in what retention leaves, and where the one before an open
\* mutation is in the store.
LEMMA Shifted ==
  ASSUME NEW x \in Int, NEW n \in Int, NEW last \in Int, NEW a \in Int, NEW i \in Int,
         NEW kept \in Int, x + n = last + (a + i - 1), a + kept = n + 1
  PROVE  x + kept = last + i
  OBVIOUS

\* The before checkpoint's place in the store, when p were ever made and n are kept.
LEMMA PlaceOf ==
  ASSUME NEW p \in Int, NEW n \in Int, NEW b \in Int, NEW f \in Int, NEW d \in Int,
         NEW kept \in Int, 1 <= b, b <= p, p <= b + f + d, d <= 3, f + 4 <= kept, n <= p,
         n = p \/ n >= kept
  PROVE  (n + b) - p \in 1..n
  OBVIOUS

\* Retention keeps the newest.
LEMMA RetainedNumbered ==
  ASSUME NEW s \in Seq(Point), NEW last \in Nat, Numbered(s, last)
  PROVE  Numbered(Retained(s), last)
<1>1. CASE Len(s) > Kept
  <2> DEFINE a == Len(s) - Kept + 1
  <2>1. /\ Len(s) \in Nat /\ Kept \in Nat /\ a \in Int /\ a >= 1 /\ a <= Len(s)
        /\ Len(s) - a + 1 = Kept
    BY <1>1, ManagedRecoveryAssumption
  <2>2. Retained(s) = SubSeq(s, a, Len(s))
    BY <1>1 DEF Retained
  <2>3. a + Kept = Len(s) + 1
    BY <2>1
  <2> HIDE DEF a
  <2>4. \A i \in a..Len(s) : s[i] \in Point
    BY <2>1, ElementOfSeq
  <2>5. /\ Len(SubSeq(s, a, Len(s))) = Kept
        /\ \A i \in 1..Kept : SubSeq(s, a, Len(s))[i] = s[a + i - 1]
    BY <2>1, <2>4, SubSeqProperties
  <2>6. ASSUME NEW i \in 1..Kept
        PROVE  s[a + i - 1].id + Kept = last + i
    <3>1. a + i - 1 \in 1..Len(s) /\ a + i - 1 \in a..Len(s)
      BY <2>1, <2>3
    <3>2. s[a + i - 1].id \in Nat
      BY <2>4, <3>1 DEF Point
    <3>3. s[a + i - 1].id + Len(s) = last + (a + i - 1)
      BY <3>1 DEF Numbered
    <3>4. PICK x \in Nat, n \in Nat : /\ x = s[a + i - 1].id /\ n = Len(s)
                                     /\ x + n = last + (a + i - 1) /\ a + Kept = n + 1
      BY <2>1, <2>3, <3>2, <3>3
    <3>5. /\ i \in Int /\ a \in Int /\ Kept \in Int /\ x \in Int /\ n \in Int /\ last \in Int
          /\ x + n = last + (a + i - 1) /\ a + Kept = n + 1
      BY <2>1, <3>4
    <3>6. x + Kept = last + i
      BY <3>5, Shifted
    <3> QED
      BY <3>4, <3>6
  <2>7. Kept <= last
    BY <1>1, <2>1 DEF Numbered
  <2>8. PICK r : r = Retained(s)
    OBVIOUS
  <2>9. /\ Len(r) = Kept
        /\ \A i \in 1..Kept : r[i].id + Kept = last + i
    BY <2>2, <2>5, <2>6, <2>8
  <2>10. Kept >= Kept
    BY <2>1
  <2>11. Numbered(r, last)
    BY <2>7, <2>9, <2>10 DEF Numbered
  <2> QED
    BY <2>8, <2>11
<1>2. CASE ~(Len(s) > Kept)
  BY <1>2 DEF Retained
<1> QED
  BY <1>1, <1>2

\* Three things a step may do to the store: nothing, a checkpoint and the retention
\* after it, or a checkpoint whose retention fails.
Untouched == /\ store' = store
             /\ made'.points = made.points /\ made'.faults = made.faults
Adds == made'.points = made.points + 1 /\ made'.faults = made.faults
AddsAndFails == made'.points = made.points + 1 /\ made'.faults = made.faults + 1
Counted == /\ Untouched \/ Adds \/ AddsAndFails
           /\ NumberedInv'

\* The new checkpoint, before and after retention.
LEMMA NewPointNumbered ==
  ASSUME IndInv, NumberedInv, Live, project # Missing
  PROVE  LET s == Append(store, [id |-> NextPoint, files |-> project])
         IN  Numbered(s, made.points + 1) /\ Numbered(Retained(s), made.points + 1)
<1> DEFINE new == [id |-> NextPoint, files |-> project]
<1>1. store \in Seq(Point) /\ made.points \in Nat /\ made.points + 1 \in Nat
  BY DEF IndInv, StoreInv, TypeOK
<1>2. new \in Point /\ new.id = made.points + 1
  <2>1. project \in SUBSET Ids
    BY DEF IndInv, TypeOK, Content
  <2>2. NextPoint \in Nat /\ NextPoint = made.points + 1
    BY <1>1 DEF NextPoint
  <2> QED
    BY <2>1, <2>2 DEF Point
<1>3. Numbered(store, made.points)
  BY DEF NumberedInv
<1> HIDE DEF new
<1>4. Append(store, new) \in Seq(Point) /\ Numbered(Append(store, new), made.points + 1)
  BY <1>1, <1>2, <1>3, AppendNumbered
<1>5. Numbered(Retained(Append(store, new)), made.points + 1)
  BY <1>1, <1>4, RetainedNumbered
<1> QED
  BY <1>4, <1>5 DEF new

\* CheckpointStore::create counts one.
LEMMA CreateCounted ==
  ASSUME IndInv, NumberedInv, Live, Create
  PROVE  Adds /\ NumberedInv'
<1>1. made'.points = made.points + 1 /\ made'.faults = made.faults
  BY DEF Create, IndInv, TypeOK, NextPoint
<1>2. Numbered(store', made'.points)
  BY <1>1, NewPointNumbered DEF Create
<1> QED
  BY <1>1, <1>2 DEF Adds, NumberedInv

\* One that fails counts none, or one and a fault.
LEMMA CreateFailsCounted ==
  ASSUME IndInv, NumberedInv, Live, CreateFails
  PROVE  (Untouched \/ AddsAndFails) /\ NumberedInv'
<1>1. CASE UNCHANGED <<disk, made>>
  BY <1>1 DEF disk, Untouched, NumberedInv
<1>2. CASE /\ project # Missing
           /\ store' = Append(store, [id |-> NextPoint, files |-> project])
           /\ made' = [made EXCEPT !.points = NextPoint, !.faults = @ + 1]
  <2>1. made'.points = made.points + 1 /\ made'.faults = made.faults + 1
    BY <1>2 DEF IndInv, TypeOK, NextPoint
  <2>2. Numbered(store', made'.points)
    BY <1>2, <2>1, NewPointNumbered
  <2> QED
    BY <2>1, <2>2 DEF AddsAndFails, NumberedInv
<1> QED
  BY <1>1, <1>2 DEF CreateFails

\* A step that leaves the store alone, and from which a mutation that is open was
\* open before, leaves the count of newer checkpoints no smaller.
Carries ==
  /\ Untouched
  /\ Live' => Live
  /\ pc' \in Mutating => Open'
  /\ Open' => /\ Open
              /\ m'.op.before = m.op.before
              /\ Live' /\ call'.ret # "serve" /\ m'.needs
              /\ m.restartUsed => m'.restartUsed
              /\ pc' \in Unprotected => pc \in Unprotected
              /\ pc' \in Relaunching =>
                   m'.restartUsed /\ (pc \in Relaunching \/ ~m.restartUsed)
              /\ pc = "accept" => pc' = "accept"

\* A step that makes no checkpoint and opens no mutation keeps the count.
LEMMA CarriesKeeps ==
  ASSUME IndInv, KeptInv, Carries
  PROVE  KeptInv'
<1>1. NumberedInv'
  BY DEF KeptInv, NumberedInv, Carries, Untouched
<1>2. ASSUME Open' PROVE made'.points <= m'.op.before + made'.faults + Since'
  <2>1. made.points \in Nat /\ made.faults \in Nat
    BY DEF IndInv, TypeOK
  <2>2. m.op.before \in Nat
    BY DEF IndInv, TypeOK, Operation
  <2>3. made.points <= m.op.before + made.faults + Since
    BY <1>2 DEF KeptInv, OpenInv, Carries
  <2>4. PICK a, b, c, a1, b1, c1 :
          /\ a = One(pc \notin Unprotected) /\ a1 = One(pc' \notin Unprotected)
          /\ b = One(m.restartUsed /\ pc \notin Relaunching)
          /\ b1 = One(m'.restartUsed /\ pc' \notin Relaunching)
          /\ c = One(pc = "accept") /\ c1 = One(pc' = "accept")
    OBVIOUS
  <2>5. Since = a + b + c /\ Since' = a1 + b1 + c1
    BY <2>4 DEF Since
  <2>6. /\ a \in {0, 1} /\ b \in {0, 1} /\ c \in {0, 1}
        /\ a1 \in {0, 1} /\ b1 \in {0, 1} /\ c1 \in {0, 1}
    BY <2>4 DEF One
  <2>7. a <= a1 /\ b <= b1 /\ c <= c1
    BY <1>2, <2>4 DEF One, Carries
  <2> QED
    BY <1>2, <2>1, <2>2, <2>3, <2>5, <2>6, <2>7 DEF Carries, Untouched
<1>3. OpenInv'
  BY <1>2 DEF KeptInv, OpenInv, Carries, Untouched
<1> QED
  BY <1>1, <1>3 DEF KeptInv

\* The steps that only move the server through a call, or the editor, leave the
\* count alone.
LEMMA CarryingSteps ==
  ASSUME IndInv, KeptInv,
         \/ LaunchStarts \/ LaunchAttaches \/ LaunchAnnounces \/ LaunchFails
         \/ EnsureFine \/ EnsureRefused \/ EnsureSpent \/ EnsureRestarts \/ RecoverEditor
         \/ \E kind \in {"scene", "file"} : MutationCalled(kind)
         \/ MutationCompared \/ MutationGuarded
  PROVE  Carries
<1> USE DEF Carries, Untouched, Live, Ends, Goes, disk
<1>1. m \in Memory /\ made \in Counts
  BY DEF IndInv, TypeOK, Memory, Counts
<1>2. Open => call.ret # "serve" /\ m.needs /\ (pc \in Relaunching => m.restartUsed)
  BY DEF KeptInv, OpenInv
<1>3. CASE LaunchStarts
  BY <1>2, <1>3 DEF LaunchStarts, Open, Unprotected, Relaunching, Mutating
<1>4. CASE LaunchAttaches
  BY <1>1, <1>2, <1>4 DEF LaunchAttaches, Open, Unprotected, Relaunching, Mutating, Memory
<1>5. CASE LaunchAnnounces
  <2>1. call.ret \in {"serve", "idle", "compare", "before"}
    BY DEF IndInv, TypeOK, Call
  <2> QED
    BY <1>2, <1>5, <2>1 DEF LaunchAnnounces, Open, Unprotected, Relaunching, Mutating, NoCall
<1>6. CASE LaunchFails
  BY <1>1, <1>2, <1>6 DEF LaunchFails, JournalTried, Open, Unprotected, Relaunching, Mutating, Memory, NoCall
<1>7. CASE EnsureFine
  <2>1. call.ret \in {"serve", "idle", "compare", "before"}
    BY DEF IndInv, TypeOK, Call
  <2> QED
    BY <1>2, <1>7, <2>1 DEF EnsureFine, Open, Unprotected, Relaunching, Mutating, NoCall, IndInv, ControlInv, Launching
<1>8. CASE EnsureRefused
  BY <1>2, <1>8 DEF EnsureRefused, Open, Unprotected, Relaunching, Mutating, NoCall
<1>9. CASE EnsureSpent
  BY <1>1, <1>2, <1>9 DEF EnsureSpent, JournalTried, Open, Unprotected, Relaunching, Mutating, Memory, NoCall
<1>10. CASE EnsureRestarts
  <2>1. /\ m'.op = m.op /\ m'.needs = m.needs /\ m'.restartUsed = TRUE
        /\ UNCHANGED <<disk, made>> /\ pc = "ensure" /\ ~m.restartUsed
    BY <1>1, <1>10 DEF EnsureRestarts, Memory
  <2>2. (pc' = "launch" /\ call' = call) \/ (pc' \in {"idle", "ended"} /\ call' = NoCall)
    BY <1>10 DEF EnsureRestarts
  <2>3. pc' = "ended" => call.ret = "serve"
    BY <1>10 DEF EnsureRestarts
  <2> QED
    BY <1>2, <2>1, <2>2, <2>3 DEF Open, Unprotected, Relaunching, Mutating, NoCall
<1>11. CASE RecoverEditor
  BY <1>2, <1>11 DEF RecoverEditor, Open, Unprotected, Relaunching, Mutating
<1>12. CASE \E kind \in {"scene", "file"} : MutationCalled(kind)
  <2>1. PICK kind \in {"scene", "file"} : MutationCalled(kind)
    BY <1>12
  <2>2. made'.points = made.points /\ made'.faults = made.faults
    BY <1>1, <2>1 DEF MutationCalled, Counts
  <2>3. call'.ret = "compare" /\ pc' = "ensure" /\ pc = "idle" /\ UNCHANGED <<m, disk>>
    BY <2>1 DEF MutationCalled, NoCall
  <2> QED
    BY <1>2, <2>2, <2>3 DEF Open, Unprotected, Relaunching, Mutating
<1>13. CASE MutationCompared
  <2>1. /\ pc = "compare" /\ UNCHANGED <<m, disk, made>>
        /\ pc' \in {"guard", "idle", "ended"}
        /\ call'.ret # "serve"
        /\ pc' = "ended" => call.ret = "serve"
    <3>1. call.ret = "compare" /\ call \in Call
      BY <1>13 DEF MutationCompared, IndInv, ControlInv, TypeOK
    <3> QED
      BY <1>13, <3>1 DEF MutationCompared, NoCall, Call
  <2> QED
    BY <1>2, <2>1 DEF Open, Unprotected, Relaunching, Mutating
<1>14. CASE MutationGuarded
  <2>1. /\ pc = "guard" /\ UNCHANGED <<m, disk, made>>
        /\ pc' \in {"ensure", "idle", "ended"}
        /\ call'.ret # "serve"
        /\ pc' = "ended" => call.ret = "serve"
    <3>1. call.ret = "compare" /\ call \in Call
      BY <1>14 DEF MutationGuarded, IndInv, ControlInv, TypeOK
    <3> QED
      BY <1>14, <3>1 DEF MutationGuarded, NoCall, Call
  <2> QED
    BY <1>2, <2>1 DEF Open, Unprotected, Relaunching, Mutating
<1> QED
  BY <1>3, <1>4, <1>5, <1>6, <1>7, <1>8, <1>9, <1>10, <1>11, <1>12, <1>13, <1>14

\* So do those of a mutation after its receipt, and those of a restore.
LEMMA CarryingCalls ==
  ASSUME IndInv, KeptInv,
         \/ Dispatched \/ Answered \/ FailureRecorded \/ SceneSaved \/ SaveFails
         \/ AfterFailed \/ CompletionRecorded \/ CheckpointRecorded
         \/ RestoreAsked \/ RestorePrepared \/ EditorStopped \/ StopUnproven
         \/ MovedAway \/ MoveAwayFails \/ MovedIn \/ RolledBack \/ RollbackRecorded
         \/ \E how \in {"crashed", "closed"} : EditorExits(how)
         \/ \E id \in Ids : EditorApplies(id)
  PROVE  Carries
<1> USE DEF Carries, Untouched, Live, Ends, Goes, disk
<1>1. m \in Memory /\ made \in Counts /\ call \in Call /\ m.op \in Operation
  BY DEF IndInv, TypeOK, Memory, Counts
<1>2. Open => call.ret # "serve" /\ m.needs /\ (pc \in Relaunching => m.restartUsed)
  BY DEF KeptInv, OpenInv
<1>3. pc \in Restoring \ {"prepare"} => ~Open
  BY DEF IndInv, ProjectInv, Open
<1>4. pc \in Mutating \union Restoring \union {"accept"} => call.ret # "serve"
  BY DEF IndInv, ControlInv
<1>5. CASE Dispatched
  <2>1. /\ pc = "dispatch" /\ pc' \in {"sent", "answered"} /\ call'.ret = call.ret
        /\ UNCHANGED <<m, store, made>>
    BY <1>1, <1>5 DEF Dispatched, Answers, Call
  <2> QED
    BY <1>2, <2>1 DEF Open, Unprotected, Relaunching, Mutating, KeptInv, OpenInv
<1>6. CASE Answered
  <2>1. /\ pc = "sent" /\ pc' = "answered" /\ call'.ret = call.ret
        /\ UNCHANGED <<store, made>>
    BY <1>1, <1>6 DEF Answered, Answers, Call
  <2>2. m'.op = m.op /\ m'.needs = m.needs /\ m'.restartUsed = m.restartUsed
    BY <1>1, <1>6 DEF Answered, Memory
  <2> QED
    BY <1>2, <2>1, <2>2 DEF Open, Unprotected, Relaunching, Mutating, KeptInv, OpenInv
<1>7. CASE FailureRecorded
  <2>1. /\ pc = "answered" /\ pc' = "idle" /\ call'.ret = "idle"
        /\ UNCHANGED <<store, made>>
    BY <1>4, <1>7 DEF FailureRecorded, NoCall, Mutating
  <2>2. /\ m'.op.before = m.op.before /\ m'.restartUsed = m.restartUsed
        /\ m'.op.outcome \in {"not_started", "failed_or_unknown"}
        /\ m'.op.outcome = "failed_or_unknown" => m'.needs
    <3> DEFINE settled == call.answer = "not_started"
               o == IF settled THEN "not_started" ELSE "failed_or_unknown"
               mem == [m EXCEPT !.op.outcome = o, !.needs = ~settled]
               mem2 == [mem EXCEPT !.needs = TRUE]
    <3>1. m' = mem \/ m' = mem2
      BY <1>7 DEF FailureRecorded
    <3>2. o \in Outcomes /\ o \in {"not_started", "failed_or_unknown"}
          /\ (o = "failed_or_unknown" => ~settled)
      BY DEF Outcomes
    <3> HIDE DEF o
    <3>3. /\ mem \in Memory /\ mem.op.before = m.op.before /\ mem.op.outcome = o
          /\ mem.restartUsed = m.restartUsed /\ (mem.needs <=> ~settled)
      BY <1>1, <3>2 DEF Memory, Operation
    <3> HIDE DEF mem
    <3>4. mem2.op = mem.op /\ mem2.restartUsed = mem.restartUsed /\ mem2.needs
      BY <3>3 DEF Memory
    <3> HIDE DEF mem2, settled
    <3> QED
      BY <3>1, <3>2, <3>3, <3>4
  <2>3. Open
    BY <2>1 DEF KeptInv, OpenInv, Mutating
  <2> QED
    BY <1>2, <2>1, <2>2, <2>3 DEF Open, Unprotected, Relaunching, Mutating
<1>8. CASE SceneSaved
  <2>1. pc = "answered" /\ pc' = "after" /\ UNCHANGED <<m, call, store, made>>
    BY <1>8 DEF SceneSaved
  <2> QED
    BY <1>2, <2>1 DEF Open, Unprotected, Relaunching, KeptInv, OpenInv, Mutating
<1>9. CASE SaveFails \/ AfterFailed
  <2>1. /\ pc \in {"answered", "unprotected"} /\ pc' = "idle" /\ call'.ret = "idle"
        /\ UNCHANGED <<store, made>>
    BY <1>4, <1>9 DEF SaveFails, AfterFailed, JournalTried, NoCall, Mutating
  <2>2. /\ m'.op.before = m.op.before /\ m'.restartUsed = m.restartUsed /\ m'.needs = m.needs
    BY <1>1, <1>9 DEF SaveFails, AfterFailed, JournalTried, Memory, Operation
  <2>3. Open
    BY <2>1 DEF KeptInv, OpenInv, Mutating
  <2> QED
    BY <1>2, <2>1, <2>2, <2>3 DEF Unprotected, Relaunching, Mutating
<1>10. CASE CompletionRecorded
  <2>1. /\ pc = "complete" /\ pc' = "idle" /\ call'.ret = "idle"
        /\ UNCHANGED <<store, made>>
    BY <1>4, <1>10 DEF CompletionRecorded, NoCall, Mutating
  <2>2. /\ m'.op.before = m.op.before /\ m'.restartUsed = m.restartUsed
        /\ m'.op.outcome \in {"completed", "applied_journal_failed"}
        /\ m'.op.outcome = "applied_journal_failed" => m'.needs
    <3> DEFINE mem == [m EXCEPT !.op.outcome = "completed", !.op.after = made.points,
                                !.needs = FALSE]
               mem2 == [mem EXCEPT !.op.outcome = "applied_journal_failed", !.needs = TRUE]
    <3>1. m' = mem \/ m' = mem2
      BY <1>10 DEF CompletionRecorded
    <3>2. /\ mem \in Memory /\ mem.op.before = m.op.before /\ mem.op.outcome = "completed"
          /\ mem.restartUsed = m.restartUsed
      BY <1>1 DEF Memory, Operation, Outcomes, Counts
    <3> HIDE DEF mem
    <3>3. /\ mem2.op.before = mem.op.before /\ mem2.op.outcome = "applied_journal_failed"
          /\ mem2.restartUsed = mem.restartUsed /\ mem2.needs
      BY <3>2 DEF Memory, Operation
    <3> HIDE DEF mem2
    <3> QED
      BY <3>1, <3>2, <3>3
  <2>3. Open
    BY <2>1 DEF KeptInv, OpenInv, Mutating
  <2> QED
    BY <1>2, <2>1, <2>2, <2>3 DEF Open, Unprotected, Relaunching, Mutating
<1>11. CASE CheckpointRecorded
  <2>1. /\ pc = "accept" /\ pc' = "idle" /\ UNCHANGED <<store, made>>
    BY <1>4, <1>11 DEF CheckpointRecorded
  <2>2. m'.op.outcome \in {"none", "accepted"}
    <3> DEFINE o == IF m.op.outcome = "none" THEN "none" ELSE "accepted"
               mem == [m EXCEPT !.needs = FALSE, !.op.outcome = o]
               mem2 == [mem EXCEPT !.needs = TRUE]
    <3>1. m' = mem \/ m' = mem2
      BY <1>11 DEF CheckpointRecorded
    <3>2. o \in {"none", "accepted"}
      OBVIOUS
    <3> HIDE DEF o
    <3>3. mem \in [state : States, needs : BOOLEAN, restartUsed : BOOLEAN,
                   attached : Nat, route : Nat, op : Operation] /\ mem.op.outcome = o
      BY <1>1, <3>2 DEF Memory, Operation, Outcomes
    <3> HIDE DEF mem
    <3>4. mem2.op = mem.op
      BY <3>3
    <3> HIDE DEF mem2
    <3> QED
      BY <3>1, <3>2, <3>3, <3>4
  <2> QED
    BY <2>1, <2>2 DEF Open, Mutating
<1>12. CASE RestoreAsked
  <2>1. /\ pc = "idle" /\ pc' = "prepare" /\ UNCHANGED <<m, call, store>>
        /\ made'.points = made.points /\ made'.faults = made.faults
    BY <1>1, <1>12 DEF RestoreAsked, Counts
  <2> QED
    BY <1>2, <2>1 DEF Open, Unprotected, Relaunching, Mutating
<1>13. CASE RestorePrepared
  <2>1. /\ pc = "prepare" /\ pc' \in {"stop", "idle"} /\ UNCHANGED <<store, made>>
    BY <1>4, <1>13 DEF RestorePrepared, Restoring
  <2>2. m'.op.outcome = "restore_prepared"
    BY <1>1, <1>13 DEF RestorePrepared, Memory, NoOperation
  <2> QED
    BY <2>1, <2>2 DEF Open, Mutating
<1>14. CASE EditorStopped \/ StopUnproven \/ MovedAway \/ MoveAwayFails \/ MovedIn
            \/ RolledBack \/ RollbackRecorded
  <2>1. /\ pc \in Restoring \ {"prepare"} /\ UNCHANGED <<store, made>>
        /\ pc' \in {"away", "in", "installed", "fail", "idle"}
        /\ m'.op = m.op
    BY <1>1, <1>4, <1>14
    DEF EditorStopped, StopUnproven, MovedAway, MoveAwayFails, MovedIn, RolledBack,
        RollbackRecorded, RestoreFailed, JournalTried, Memory, Restoring
  <2> QED
    BY <1>3, <2>1 DEF Open, Mutating, Restoring
<1>15. CASE \/ \E how \in {"crashed", "closed"} : EditorExits(how)
            \/ \E id \in Ids : EditorApplies(id)
  <2>1. CASE \E how \in {"crashed", "closed"} : EditorExits(how)
    BY <2>1 DEF EditorExits, Open, KeptInv, OpenInv
  <2>2. CASE \E id \in Ids : EditorApplies(id)
    BY <2>2 DEF EditorApplies, Open, KeptInv, OpenInv
  <2> QED
    BY <1>15, <2>1, <2>2
<1> QED
  BY <1>5, <1>6, <1>7, <1>8, <1>9, <1>10, <1>11, <1>12, <1>13, <1>14, <1>15

\* A step that makes a checkpoint counts it: an open mutation was open before, and
\* the checkpoint is one of the three, or one more fault.
CountsOne ==
  /\ Live /\ NumberedInv'
  /\ pc' \in Mutating => Open'
  /\ Open' => /\ Open
              /\ m'.op.before = m.op.before
              /\ Live' /\ call'.ret # "serve" /\ m'.needs
              /\ pc' \in Relaunching => m'.restartUsed
  /\ made'.points \in {made.points, made.points + 1}
  /\ Open' => made'.points + made.faults + Since <= made.points + made'.faults + Since'

\* A step that may make one checkpoint, and counts it, keeps the count.
LEMMA CountsOneKeeps ==
  ASSUME IndInv, KeptInv, CountsOne, IndInv'
  PROVE  KeptInv'
<1>1. ASSUME Open'
      PROVE  /\ m'.op.before \in 1..made'.points
             /\ made'.points <= m'.op.before + made'.faults + Since'
  <2>1. /\ made.points \in Nat /\ made.faults \in Nat
        /\ made'.points \in Nat /\ made'.faults \in Nat
    BY DEF IndInv, TypeOK
  <2>2. Since \in Nat /\ Since' \in Nat
    BY DEF Since, One
  <2>3. m.op.before \in 1..made.points /\ made.points <= m.op.before + made.faults + Since
    BY <1>1 DEF KeptInv, OpenInv, CountsOne
  <2> HIDE DEF Since
  <2> QED
    BY <1>1, <2>1, <2>2, <2>3 DEF CountsOne
<1> QED
  BY <1>1 DEF KeptInv, OpenInv, CountsOne

\* The steps that may make a checkpoint.
LEMMA CountingSteps ==
  ASSUME IndInv, KeptInv,
         \/ LaunchSettles \/ BeforeCheckpointed \/ AfterCheckpointed
         \/ \E accept \in BOOLEAN : CheckpointAsked(accept)
         \/ Restored
  PROVE  CountsOne
<1> USE DEF Live, Ends, Goes
<1>1. /\ m \in Memory /\ made \in Counts /\ call \in Call /\ m.op \in Operation
      /\ made.points \in Nat /\ made.faults \in Nat
  BY DEF IndInv, TypeOK, Memory, Counts
<1>2. NumberedInv
  BY DEF KeptInv
<1>3. Open => call.ret # "serve" /\ m.needs /\ (pc \in Relaunching => m.restartUsed)
  BY DEF KeptInv, OpenInv
<1>4. ASSUME Live, CreateFails
      PROVE  /\ made'.points \in {made.points, made.points + 1} /\ NumberedInv'
             /\ made'.points + made.faults = made.points + made'.faults
             /\ made'.faults \in Nat
  BY <1>1, <1>2, <1>4, CreateFailsCounted DEF Untouched, AddsAndFails
<1>5. ASSUME Live, Create
      PROVE  /\ made'.points = made.points + 1 /\ made'.faults = made.faults /\ NumberedInv'
  BY <1>2, <1>5, CreateCounted DEF Adds
<1>6. CASE LaunchSettles
  <2>1. pc = "settle" /\ UNCHANGED call
    BY <1>6 DEF LaunchSettles
  <2>2. CASE Create /\ m' = [m EXCEPT !.state = "ready"] /\ Goes("announce")
    <3>1. m'.op = m.op /\ m'.needs = m.needs /\ m'.restartUsed = m.restartUsed
      BY <1>1, <2>2 DEF Memory
    <3>2. pc' = "announce"
      BY <2>2
    <3>3. Open' => Open /\ Since = 1 /\ Since' = 2
      BY <1>3, <2>1, <3>1, <3>2 DEF Open, Since, One, Unprotected, Relaunching
    <3> QED
      BY <1>1, <1>3, <1>5, <2>1, <2>2, <3>1, <3>2, <3>3 DEF CountsOne, Relaunching, Mutating, Open
  <2>3. CASE CreateFails /\ UNCHANGED m /\ Goes("settle")
    <3>1. Since' = Since /\ Since \in Nat /\ (Open' <=> Open)
      BY <2>1, <2>3 DEF Since, One, Open
    <3> QED
      BY <1>1, <1>3, <1>4, <2>1, <2>3, <3>1 DEF CountsOne, Mutating
  <2> QED
    BY <1>6, <2>2, <2>3 DEF LaunchSettles
<1>7. CASE BeforeCheckpointed
  <2>1. pc = "before" /\ UNCHANGED m /\ call.ret = "before" /\ ~Open
    <3>1. pc = "before" /\ UNCHANGED m
      BY <1>7 DEF BeforeCheckpointed
    <3> QED
      BY <1>3, <3>1 DEF IndInv, ControlInv, Mutating
  <2>2. pc' \in {"record", "idle"} /\ ~Open'
    BY <1>7, <2>1 DEF BeforeCheckpointed, Open
  <2>3. made'.points \in {made.points, made.points + 1} /\ NumberedInv'
    BY <1>4, <1>5, <1>7, <2>1 DEF BeforeCheckpointed
  <2> QED
    BY <2>1, <2>2, <2>3 DEF CountsOne, Mutating
<1>8. CASE AfterCheckpointed
  <2>1. pc = "after" /\ UNCHANGED <<m, call>> /\ Open
    BY <1>8 DEF AfterCheckpointed, KeptInv, OpenInv, Mutating
  <2>2. pc' \in {"complete", "unprotected"} /\ Open'
    BY <1>8, <2>1 DEF AfterCheckpointed, Open
  <2>3. Since \in Nat /\ Since' = Since + 1
    BY <2>1, <2>2 DEF Since, One, Unprotected, Relaunching
  <2>4. CASE Create
    BY <1>1, <1>3, <1>5, <2>1, <2>2, <2>3, <2>4 DEF CountsOne, Relaunching
  <2>5. CASE CreateFails
    BY <1>1, <1>3, <1>4, <2>1, <2>2, <2>3, <2>5 DEF CountsOne, Relaunching
  <2> QED
    BY <1>8, <2>4, <2>5 DEF AfterCheckpointed
<1>9. CASE \E accept \in BOOLEAN : CheckpointAsked(accept)
  <2>1. PICK accept \in BOOLEAN : CheckpointAsked(accept)
    BY <1>9
  <2>2. pc = "idle" /\ UNCHANGED <<m, call>> /\ (Open' <=> Open)
    BY <2>1 DEF CheckpointAsked, Open
  <2>3. CASE /\ project # Missing
             /\ store' = Retained(Append(store, [id |-> NextPoint, files |-> project]))
             /\ made' = [made EXCEPT !.points = NextPoint, !.asked = @ + 1]
             /\ Goes("accept")
    <3>1. made'.points = made.points + 1 /\ made'.faults = made.faults
      BY <1>1, <2>3 DEF Counts, NextPoint
    <3>2. NumberedInv'
      BY <1>2, <2>2, <2>3, <3>1, NewPointNumbered DEF NumberedInv
    <3>3. Since \in Nat /\ Since' = Since + 1
      BY <2>2, <2>3 DEF Since, One, Unprotected, Relaunching
    <3> QED
      BY <1>1, <1>3, <2>2, <2>3, <3>1, <3>2, <3>3 DEF CountsOne, Mutating, Relaunching
  <2>4. CASE CreateFails /\ Goes("idle")
    <3>1. Since' = Since /\ Since \in Nat
      BY <2>2, <2>4 DEF Since, One
    <3> QED
      BY <1>1, <1>3, <1>4, <2>2, <2>4, <3>1 DEF CountsOne, Mutating, Relaunching
  <2> QED
    BY <2>1, <2>3, <2>4 DEF CheckpointAsked
<1>10. CASE Restored
  <2>1. /\ pc = "installed" /\ m'.op.outcome = "restored" /\ pc' \in {"launch", "idle", "ended"}
        /\ Create \/ CreateFails
    BY <1>1, <1>10 DEF Restored, Memory, Operation
  <2> QED
    BY <1>4, <1>5, <2>1 DEF CountsOne, Open, Mutating
<1> QED
  BY <1>6, <1>7, <1>8, <1>9, <1>10

\* The receipt of a mutation names the checkpoint just made.
LEMMA PendingRecordedCounts ==
  ASSUME IndInv, KeptInv, PendingRecorded
  PROVE  KeptInv'
<1> USE DEF Live, Ends, Goes
<1>1. m \in Memory /\ made.points \in Nat /\ made.faults \in Nat
  BY DEF IndInv, TypeOK, Memory
<1>2. /\ pc = "record" /\ pc' \in {"dispatch", "idle"} /\ call'.ret # "serve"
      /\ UNCHANGED <<store, made>>
  <2>1. call.ret = "before"
    BY DEF PendingRecorded, IndInv, ControlInv
  <2> QED
    BY <2>1 DEF PendingRecorded, NoCall, disk
<1>3. /\ m'.needs = TRUE /\ m'.op.outcome = "pending" /\ m'.op.before = made.points
  BY <1>1 DEF PendingRecorded, Pending, NoOperation, Memory
<1>4. NumberedInv'
  BY <1>2 DEF KeptInv, NumberedInv
<1>5. 1 <= made.points
  BY <1>2 DEF KeptInv, NumberedInv, Numbered
<1>6. Since' \in Nat
  BY DEF Since, One
<1>7. made'.points <= m'.op.before + made'.faults + Since'
  BY <1>1, <1>2, <1>3, <1>6
<1>8. OpenInv'
  BY <1>1, <1>2, <1>3, <1>5, <1>7 DEF OpenInv, Open, Relaunching
<1> QED
  BY <1>4, <1>8 DEF KeptInv

\* The count holds at the start, and every step keeps it.
LEMMA InitCounts == Init => KeptInv
<1> SUFFICES ASSUME Init PROVE KeptInv
  OBVIOUS
<1>1. Len(store) = 1 /\ store[1].id = 1 /\ made.points = 1 /\ m.op.outcome = "none"
  BY DEF Init, NoneMade, NewMemory, NoOperation
<1>2. ~Open /\ pc \notin Mutating
  BY <1>1 DEF Open, Mutating, Init
<1>3. Numbered(store, made.points)
  BY <1>1 DEF Numbered
<1> QED
  BY <1>2, <1>3 DEF KeptInv, NumberedInv, OpenInv

\* Every step of the server, the editor and the crash keeps the count.
LEMMA NextCounts == IndInv /\ IndInv' /\ KeptInv /\ [Next]_vars => KeptInv'
<1> SUFFICES ASSUME IndInv, IndInv', KeptInv, [Next]_vars PROVE KeptInv'
  OBVIOUS
<1>1. CASE UNCHANGED vars
  BY <1>1 DEF vars, KeptInv, NumberedInv, OpenInv, Open, Live, Since
<1>2. CASE \/ LaunchStarts \/ LaunchAttaches \/ LaunchAnnounces \/ LaunchFails
           \/ EnsureFine \/ EnsureRefused \/ EnsureSpent \/ EnsureRestarts \/ RecoverEditor
           \/ \E kind \in {"scene", "file"} : MutationCalled(kind)
           \/ MutationCompared \/ MutationGuarded
  BY <1>2, CarryingSteps, CarriesKeeps
<1>3. CASE \/ Dispatched \/ Answered \/ FailureRecorded \/ SceneSaved \/ SaveFails
           \/ AfterFailed \/ CompletionRecorded \/ CheckpointRecorded
           \/ RestoreAsked \/ RestorePrepared \/ EditorStopped \/ StopUnproven
           \/ MovedAway \/ MoveAwayFails \/ MovedIn \/ RolledBack \/ RollbackRecorded
           \/ \E how \in {"crashed", "closed"} : EditorExits(how)
           \/ \E id \in Ids : EditorApplies(id)
  BY <1>3, CarryingCalls, CarriesKeeps
<1>4. CASE \/ LaunchSettles \/ BeforeCheckpointed \/ AfterCheckpointed
           \/ \E accept \in BOOLEAN : CheckpointAsked(accept)
           \/ Restored
  BY <1>4, CountingSteps, CountsOneKeeps
<1>5. CASE PendingRecorded
  BY <1>5, PendingRecordedCounts
<1>6. CASE HostEnds
  <2>1. pc' = "ended" /\ m'.op.outcome = "none"
    BY <1>6 DEF HostEnds, NewMemory, NoOperation
  <2> QED
    BY <2>1 DEF KeptInv, NumberedInv, OpenInv, Open, Live, Mutating
<1> QED
  BY <1>1, <1>2, <1>3, <1>4, <1>5, <1>6 DEF Next

\* The checkpoints made since are counted in every state of a managed server.
THEOREM LaterCheckpointsAreCounted == Spec => []KeptInv
  BY InitCounts, NextCounts, RecoveryInvariant, PTL DEF Spec

\* While the outcome of a mutation is open, the checkpoint taken before it is still
\* in the store, as long as no more retentions have failed than the store has room
\* for beyond four checkpoints: the one before, the one after, the one of the only
\* automatic restart and that of an acceptance (beforeMutation, afterMutation,
\* ensureEditor, checkpoint; CheckpointStore::create).  The code retains five.
THEOREM CheckpointBeforeIsKept == Spec => [](made.faults + 4 <= Kept => BeforeIsKept)
<1>1. IndInv /\ KeptInv => (made.faults + 4 <= Kept => BeforeIsKept)
  <2> SUFFICES ASSUME IndInv, KeptInv, made.faults + 4 <= Kept, Open
               PROVE  \E i \in DOMAIN store : store[i].id = m.op.before
    BY DEF BeforeIsKept, Open
  <2>1. /\ made.points \in Nat /\ made.faults \in Nat /\ Kept \in Nat /\ m.op.before \in Nat
        /\ Len(store) \in Nat /\ DOMAIN store = 1..Len(store)
    <3>1. m.op \in Operation /\ made \in Counts /\ store \in Seq(Point)
      BY DEF IndInv, TypeOK, StoreInv, Counts
    <3>2. made.points \in Nat /\ made.faults \in Nat
      BY <3>1, ManagedRecoveryAssumption DEF Counts
    <3>3. m.op.before \in Nat
      BY <3>1 DEF Operation
    <3> QED
      BY <3>1, <3>2, <3>3, ManagedRecoveryAssumption
  <2>2. Since \in 0..3
    BY DEF Since, One
  <2>3. /\ m.op.before \in 1..made.points
        /\ made.points <= m.op.before + made.faults + Since
        /\ Numbered(store, made.points)
    BY DEF KeptInv, OpenInv, NumberedInv
  <2>4. PICK p \in Nat, n \in Nat, b \in Nat, f \in Nat, d \in 0..3 :
          /\ p = made.points /\ n = Len(store) /\ b = m.op.before /\ f = made.faults /\ d = Since
    BY <2>1, <2>2
  <2>5. /\ 1 <= b /\ b <= p /\ p <= b + f + d /\ f + 4 <= Kept /\ n <= p
        /\ n = p \/ n >= Kept
        /\ \A i \in 1..n : store[i].id + n = p + i
    BY <2>3, <2>4 DEF Numbered
  <2>6. (n + b) - p \in 1..n
    <3>1. d \in Int /\ d <= 3 /\ p \in Int /\ n \in Int /\ b \in Int /\ f \in Int /\ Kept \in Int
      BY <2>1
    <3> QED
      BY <2>5, <3>1, PlaceOf
  <2>7. PICK i \in 1..n : i = (n + b) - p
    BY <2>6
  <2>8. store[i] \in Point
    BY <2>1, <2>4, <2>7, ElementOfSeq DEF IndInv, StoreInv
  <2>9. PICK x \in Nat : x = store[i].id
    BY <2>8 DEF Point
  <2>10. x + n = p + i /\ i \in Int
    BY <2>5, <2>7, <2>9
  <2>11. x = b
    <3>1. \A u \in Int, v \in Int, w \in Int, q \in Int :
            u + v = w + ((v + q) - w) => u = q
      OBVIOUS
    <3> QED
      BY <2>7, <2>10, <3>1
  <2> QED
    BY <2>1, <2>4, <2>7, <2>9, <2>11
<1> QED
  BY <1>1, RecoveryInvariant, LaterCheckpointsAreCounted, PTL

==============================================================================
