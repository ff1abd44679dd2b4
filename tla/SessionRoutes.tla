--------------------------- MODULE SessionRoutes ---------------------------
(***************************************************************************)
(* Routes from server processes to Godot sessions (RuntimeSessionClient in  *)
(* src/src/runtime/session_client.cpp), the session locks they hold         *)
(* (src/src/common/file_lock.cpp, its POSIX half) and the life of the       *)
(* sessions (src/src/gdextension/session_host.cpp, gdextension_ipc.cpp).    *)
(*                                                                         *)
(* A process may hold a route to a session only with the session's lock, an *)
(* flock on <session>.lock.  Opening a route reads the counters of          *)
(* deliberate releases, takes the lock, connects and handshakes outside the *)
(* process's mutex, and commits under it.  The threads of a process (its    *)
(* loop and its jobs) and other processes run between those steps.          *)
(*                                                                         *)
(* A lock belongs to an inode, not to the path: a lock file that is removed *)
(* and created again is another inode.  A FileLock is shared by pointer     *)
(* between the route that owns it and the attaches that borrowed it; refs   *)
(* is who points to it, and it is unlocked when nobody does.  Letting go of *)
(* a route moves it, and its lock, into a local of the thread, which closes *)
(* the connection outside the mutex and frees the lock after that.          *)
(*                                                                         *)
(* A connection may break at any time, and be seen to be broken by some and *)
(* not by others: whether a route is live is a choice.  Left out: the       *)
(* connections a live call makes on its own (reconnectRuntimeRoute), and    *)
(* m_explicitSessionId, which only reports read.                            *)
(***************************************************************************)
EXTENDS Naturals, FiniteSets

CONSTANTS Procs,       \* the server processes
          Threads,     \* their threads
          ProcOf,      \* the process of each thread
          Sessions,    \* session ids: random, never used twice
          Editors,     \* the sessions whose kind is editor
          NoSession,
          Inodes,      \* bound: how many lock files can be created
          NoInode,
          MaxRoutes,   \* kMaxHeldRoutes
          MaxCalls     \* bound: how many calls are made and processes ended

ASSUME SessionRoutesAssumption ==
  /\ ProcOf \in [Threads -> Procs]
  /\ Editors \subseteq Sessions
  /\ NoSession \notin Sessions
  /\ NoInode \notin Inodes
  /\ Threads \intersect (Procs \X Sessions) = {}      \* a thread is not a route
  /\ MaxRoutes \in Nat /\ MaxCalls \in Nat

VARIABLES host,        \* what became of each session
          file,        \* the inode <session>.lock names
          made,        \* the session whose lock file each inode was created as
          refs,        \* who points to the FileLock on each inode
          proc,        \* the RuntimeSessionClient of each process
          thr,         \* the call each thread is in
          calls        \* how many calls were made (the bound's count)

vars == <<host, file, made, refs, proc, thr, calls>>

\* up: serving, descriptor published.  draining: the IPC server has stopped, the
\* descriptor is still there.  retired: the descriptor is gone, the process may
\* live on.  crashed: the process is gone, the descriptor is not.
HostStates == {"up", "draining", "retired", "crashed", "exited"}

Route == [lock: Inodes \union {NoInode}, gen: Nat]
NoRoute == [lock |-> NoInode, gen |-> 0]

Client == [route: [Sessions -> Route], selected: Sessions \union {NoSession},
           auto: BOOLEAN, busy: BOOLEAN,
           epoch: Nat, torn: [Sessions -> Nat], next: Nat]

\* leased: between taking a lease on a route and the end of the live call on it;
\* lease is the route's generation.
\* dropping, leaving: the connections to the sessions `leaving' are being closed,
\* before a route is opened or as the last thing the call does.
\* undone (history): since the attach read the counters, its process has
\* deliberately let go of the session it attaches to.
Thread == [stage: {"idle", "dropping", "begin", "open", "lock", "connect", "commit",
                   "leaving", "leased", "reapLock", "reapRemove"},
           kind: {"attach", "open", "auto"}, session: Sessions \union {NoSession},
           inode: Inodes \union {NoInode}, epoch: Nat, torn: Nat,
           lease: Nat, leaving: SUBSET Sessions, undone: BOOLEAN]

Pointers == Threads \union (Procs \X Sessions)

TypeOK ==
  /\ host \in [Sessions -> HostStates]
  /\ file \in [Sessions -> Inodes \union {NoInode}]
  /\ made \in [Inodes -> Sessions \union {NoSession}]
  /\ refs \in [Inodes -> SUBSET Pointers]
  /\ proc \in [Procs -> Client]
  /\ thr \in [Threads -> Thread]
  /\ calls \in 0..MaxCalls

NewClient == [route |-> [s \in Sessions |-> NoRoute], selected |-> NoSession,
              auto |-> TRUE, busy |-> FALSE,
              epoch |-> 0, torn |-> [s \in Sessions |-> 0], next |-> 1]

Idle == [stage |-> "idle", kind |-> "open", session |-> NoSession, inode |-> NoInode,
         epoch |-> 0, torn |-> 0, lease |-> 0, leaving |-> {}, undone |-> FALSE]

Init ==
  /\ host = [s \in Sessions |-> "up"]
  /\ file = [s \in Sessions |-> NoInode]
  /\ made = [n \in Inodes |-> NoSession]
  /\ refs = [n \in Inodes |-> {}]
  /\ proc = [p \in Procs |-> NewClient]
  /\ thr = [t \in Threads |-> Idle]
  /\ calls = 0

\* A thread that is in no call makes one.
Calls(t) ==
  /\ thr[t].stage = "idle"
  /\ calls < MaxCalls
  /\ calls' = calls + 1

-----------------------------------------------------------------------------
(* Sessions.                                                               *)

HasDescriptor(s) == host[s] \in {"up", "draining", "crashed"}
ProvenStale(s) == host[s] \in {"crashed", "exited"}

\* GDExtensionIpc::stop: the IPC server stops first ...
ServerStops(s) ==
  /\ host[s] = "up"
  /\ host' = [host EXCEPT ![s] = "draining"]
  /\ UNCHANGED <<file, made, refs, proc, thr, calls>>

\* ... then the session's descriptor is retired.
DescriptorRetired(s) ==
  /\ host[s] = "draining"
  /\ host' = [host EXCEPT ![s] = "retired"]
  /\ UNCHANGED <<file, made, refs, proc, thr, calls>>

\* The Godot process ends, in order or not.
EngineExits(s) ==
  /\ ~ProvenStale(s)
  /\ host' = [host EXCEPT ![s] = IF HasDescriptor(s) THEN "crashed" ELSE "exited"]
  /\ UNCHANGED <<file, made, refs, proc, thr, calls>>

-----------------------------------------------------------------------------
(* Letting go of routes.                                                   *)

Held(c) == {s \in Sessions : c.route[s] # NoRoute}

\* Mutant: the selection still names a route that is gone.
Without_selectionKept(c, D) ==
  [c EXCEPT !.route = [s \in Sessions |-> IF s \in D THEN NoRoute ELSE c.route[s]]]

\* The entries of D leave m_routes, and the selection with them.
Without(c, D) ==
  [c EXCEPT !.route = [s \in Sessions |-> IF s \in D THEN NoRoute ELSE c.route[s]],
            !.selected = IF @ \in D THEN NoSession ELSE @]

\* Nobody in xs points to a FileLock any more.
Unpoint(xs) == [n \in Inodes |-> refs[n] \ xs]

\* Mutant: the locks are freed with the entries, before the connections are closed.
HandOver_freed(t, D) == Unpoint({ProcOf[t]} \X D)

\* Thread t has the routes D of its process in a local, and their locks with them.
HandOver(t, D) ==
  LET gone == {ProcOf[t]} \X D
  IN  [n \in Inodes |-> IF refs[n] \intersect gone = {} THEN refs[n]
                                                       ELSE (refs[n] \ gone) \union {t}]

\* The call has only the connections to D left to close.
Leaving(D) == IF D = {} THEN Idle ELSE [Idle EXCEPT !.stage = "leaving", !.leaving = D]

\* The threads of p whose attach to a session of D has read the counters.
InFlight(p, D) ==
  {t \in Threads : /\ ProcOf[t] = p
                   /\ thr[t].stage \in {"open", "lock", "connect", "commit"}
                   /\ thr[t].session \in D}

\* Deliberate teardown of the routes D of the process of thread t: c is its
\* client without them.  Attaches in flight to `forgotten' are overtaken by it.
LetGo(t, c, D, forgotten) ==
  LET p == ProcOf[t]
  IN  /\ proc' = [proc EXCEPT ![p] = c]
      /\ refs' = HandOver(t, D)
      /\ thr' = [u \in Threads |->
                   IF u = t THEN Leaving(D)
                   ELSE IF u \in InFlight(p, forgotten) THEN [thr[u] EXCEPT !.undone = TRUE]
                   ELSE thr[u]]
      /\ UNCHANGED <<host, file, made>>

takeRouteLocked(c, s) == [Without(c, {s}) EXCEPT !.torn[s] = @ + 1]

disconnect(t) ==
  LET c == proc[ProcOf[t]]
  IN  /\ Calls(t)
      /\ LetGo(t, [Without(c, Sessions) EXCEPT !.auto = FALSE, !.epoch = @ + 1],
               Held(c), Sessions)

\* With nothing selected this only stops auto-selection.
detachSession(t) ==
  LET c == [proc[ProcOf[t]] EXCEPT !.auto = FALSE]
  IN  /\ Calls(t)
      /\ IF c.selected \in Held(c)
           THEN LetGo(t, takeRouteLocked(c, c.selected), {c.selected}, {c.selected})
           ELSE LetGo(t, c, {}, {})

closeSessionRoute(t, s) ==
  LET c == proc[ProcOf[t]]
  IN  /\ Calls(t)
      /\ s \in Held(c)
      /\ LetGo(t, takeRouteLocked(c, s), {s}, {s})

\* acquireRouteLease, acquireRouteLeaseFor: a live call takes a route and its
\* generation.
leaseFor(t, s) ==
  /\ Calls(t)
  /\ s \in Held(proc[ProcOf[t]])
  /\ thr' = [thr EXCEPT ![t].stage = "leased", ![t].session = s,
                        ![t].lease = proc[ProcOf[t]].route[s].gen]
  /\ UNCHANGED <<host, file, made, refs, proc>>

\* The route the lease was taken on is still the one that is held.
StillLeased(t) ==
  LET c == proc[ProcOf[t]]
  IN  thr[t].session \in Held(c) /\ c.route[thr[t].session].gen = thr[t].lease

\* The live call failed: quarantineRoute, and quarantineIfCurrent, which tells
\* the route by its connection.
quarantineRoute(t) ==
  LET s == thr[t].session
  IN  /\ thr[t].stage = "leased"
      /\ StillLeased(t)
      /\ LetGo(t, [takeRouteLocked(proc[ProcOf[t]], s) EXCEPT !.auto = FALSE], {s}, {s})
      /\ UNCHANGED calls

\* The live call was answered, or its route is another by now.
LeaseEnds(t) ==
  /\ thr[t].stage = "leased"
  /\ thr' = [thr EXCEPT ![t] = Idle]
  /\ UNCHANGED <<host, file, made, refs, proc, calls>>

\* Routes whose process is proven gone, dropped before anything reads them.
\* This is not a teardown: an attach that replaces the route goes on.
Exited(c) == {s \in Held(c) : ProvenStale(s)}

releaseExitedRoutes(t) ==
  LET D == Exited(proc[ProcOf[t]])
  IN  /\ thr[t].stage = "idle"
      /\ D # {}
      /\ proc' = [proc EXCEPT ![ProcOf[t]] = Without(@, D)]
      /\ refs' = HandOver(t, D)
      /\ thr' = [thr EXCEPT ![t] = Leaving(D)]
      /\ UNCHANGED <<host, file, made, calls>>

\* What releaseDeadRoutes may drop: also routes whose connection is broken.
DeadRoutes(c) == {D \in SUBSET Held(c) : Exited(c) \subseteq D}

-----------------------------------------------------------------------------
(* Opening a route.                                                        *)

\* A call moves on to attach the session s it found.
Attaching(t, kind, s) ==
  [thr[t] EXCEPT !.stage = "begin", !.kind = kind, !.session = s, !.leaving = {}]

\* attachSession and openSessionRoute: dead routes go first.  (A request that names
\* a session already routed, by a connection that is up, uses that route as it
\* stands and gets no further.)
openRoute(t, kind, s) ==
  LET p == ProcOf[t]
      c == IF kind = "attach" THEN [proc[p] EXCEPT !.auto = FALSE] ELSE proc[p]
  IN  /\ kind \in {"attach", "open"}
      /\ Calls(t)
      /\ \E D \in DeadRoutes(c) :
           /\ proc' = [proc EXCEPT ![p] = Without(c, D)]
           /\ refs' = HandOver(t, D)
           /\ thr' = [thr EXCEPT ![t].stage = "dropping", ![t].kind = kind,
                                 ![t].session = s, ![t].leaving = D]
      /\ UNCHANGED <<host, file, made>>

\* There is room, and the session is found and may be attached to.
SessionFound(t) ==
  LET s == thr[t].session
      c == proc[ProcOf[t]]
  IN  /\ thr[t].stage = "dropping"
      /\ s \in Held(c) \/ Cardinality(Held(c)) < MaxRoutes
      /\ HasDescriptor(s) /\ ~ProvenStale(s)
      /\ thr' = [thr EXCEPT ![t] = Attaching(t, thr[t].kind, s)]
      /\ refs' = Unpoint({t})
      /\ UNCHANGED <<host, file, made, proc, calls>>

\* The process is full, or the session is not there, is stale, or belongs to another
\* project than the server and the caller did not allow that.
OpenRefused(t) ==
  /\ thr[t].stage = "dropping"
  /\ thr' = [thr EXCEPT ![t] = Idle]
  /\ refs' = Unpoint({t})
  /\ UNCHANGED <<host, file, made, proc, calls>>

\* The one live session of this project, or the one editor among several.
Matching == {s \in Sessions : HasDescriptor(s) /\ ~ProvenStale(s)}
Guess == IF Cardinality(Matching) = 1 THEN Matching
         ELSE IF Cardinality(Matching \intersect Editors) = 1 THEN Matching \intersect Editors
         ELSE {}

\* isConnected with nothing selected: guess a session and attach to it.
tryAutoAttach(t) ==
  LET c == proc[ProcOf[t]]
  IN  /\ Calls(t)
      /\ c.selected \notin Held(c)
      /\ c.auto /\ ~c.busy
      /\ \E s \in Guess : thr' = [thr EXCEPT ![t] = Attaching(t, "auto", s)]
      /\ proc' = [proc EXCEPT ![ProcOf[t]].busy = TRUE]
      /\ UNCHANGED <<host, file, made, refs>>

\* attachDescriptorInner, under the mutex: read the counters, and borrow the
\* lock of a route to this session the process already owns.
AttachBegins(t) ==
  LET p == ProcOf[t]
      s == thr[t].session
      n == proc[p].route[s].lock
  IN  /\ thr[t].stage = "begin"
      /\ thr' = [thr EXCEPT ![t].stage = IF n = NoInode THEN "open" ELSE "connect",
                            ![t].inode = n,
                            ![t].epoch = proc[p].epoch,
                            ![t].torn = proc[p].torn[s]]
      /\ refs' = IF n = NoInode THEN refs ELSE [refs EXCEPT ![n] = @ \union {t}]
      /\ UNCHANGED <<host, file, made, proc, calls>>

Unmade == {n \in Inodes : made[n] = NoSession}

\* FileLock::acquire opens the lock file, creating it if it is not there ...
LockFileOpened(t) ==
  LET s == thr[t].session
  IN  /\ thr[t].stage = "open"
      /\ \/ /\ file[s] # NoInode
            /\ thr' = [thr EXCEPT ![t].stage = "lock", ![t].inode = file[s]]
            /\ UNCHANGED <<file, made>>
         \/ /\ file[s] = NoInode
            /\ Unmade # {}
            /\ LET n == CHOOSE k \in Unmade : TRUE
               IN  /\ thr' = [thr EXCEPT ![t].stage = "lock", ![t].inode = n]
                   /\ file' = [file EXCEPT ![s] = n]
                   /\ made' = [made EXCEPT ![n] = s]
      /\ UNCHANGED <<host, refs, proc, calls>>

\* The call ends: its references go, and so does its claim to auto-attach.
FreeAuto(c, t) == IF thr[t].kind = "auto" THEN [c EXCEPT !.busy = FALSE] ELSE c

\* ... and locks the inode it opened, or is refused with 423.
LockTaken(t) ==
  /\ thr[t].stage = "lock"
  /\ refs[thr[t].inode] = {}
  /\ refs' = [refs EXCEPT ![thr[t].inode] = {t}]
  /\ thr' = [thr EXCEPT ![t].stage = "connect"]
  /\ UNCHANGED <<host, file, made, proc, calls>>

\* The attach fails: the lock is held by another, or could not be opened or
\* written, or the session does not answer.
AttachFails(t) ==
  /\ \/ thr[t].stage = "open"
     \/ thr[t].stage = "lock" /\ refs[thr[t].inode] # {}
     \/ thr[t].stage = "connect"
  /\ thr' = [thr EXCEPT ![t] = Idle]
  /\ refs' = Unpoint({t})
  /\ proc' = [proc EXCEPT ![ProcOf[t]] = FreeAuto(@, t)]
  /\ UNCHANGED <<host, file, made, calls>>

\* Connected and authenticated.
Handshaken(t) ==
  /\ thr[t].stage = "connect"
  /\ host[thr[t].session] = "up"
  /\ thr' = [thr EXCEPT ![t].stage = "commit"]
  /\ UNCHANGED <<host, file, made, refs, proc, calls>>

\* Mutant: only a release of everything overtakes an attach.
Superseded_epochOnly(t) == proc[ProcOf[t]].epoch # thr[t].epoch

\* The counters have moved since the attach read them.
Superseded(t) ==
  LET c == proc[ProcOf[t]]
  IN  c.epoch # thr[t].epoch \/ c.torn[thr[t].session] # thr[t].torn

Selecting(c, t) ==
  LET s == thr[t].session
  IN  [c EXCEPT !.selected = IF thr[t].kind = "open" THEN @ ELSE s]

\* The attach has only its own connection left to close.
GivingUp(t) ==
  [thr[t] EXCEPT !.stage = "leaving", !.leaving = {thr[t].session}, !.undone = FALSE]

\* Overtaken by a deliberate release: the new connection goes, and its lock.
AttachSuperseded(t) ==
  /\ thr[t].stage = "commit"
  /\ Superseded(t)
  /\ thr' = [thr EXCEPT ![t] = GivingUp(t)]
  /\ UNCHANGED <<host, file, made, refs, proc, calls>>

\* A live route to the session is held already, and stays.
AttachKeepsExisting(t) ==
  LET c == proc[ProcOf[t]]
  IN  /\ thr[t].stage = "commit"
      /\ ~Superseded(t)
      /\ thr[t].session \in Held(c)
      /\ thr' = [thr EXCEPT ![t] = GivingUp(t)]
      /\ proc' = [proc EXCEPT ![ProcOf[t]] = Selecting(c, t)]
      /\ UNCHANGED <<host, file, made, refs, calls>>

\* The connections a call had left to close are closed, and then what the thread
\* pointed to is let go.
Disconnected(t) ==
  /\ thr[t].stage = "leaving"
  /\ thr' = [thr EXCEPT ![t] = Idle]
  /\ refs' = Unpoint({t})
  /\ proc' = [proc EXCEPT ![ProcOf[t]] = FreeAuto(@, t)]
  /\ UNCHANGED <<host, file, made, calls>>

\* The new route is installed, in place of one whose connection is broken if
\* there is one; it owns the lock.
AttachInstalls(t) ==
  LET p == ProcOf[t]
      s == thr[t].session
      c == proc[p]
  IN  /\ thr[t].stage = "commit"
      /\ ~Superseded(t)
      /\ proc' = [proc EXCEPT ![p] =
                    FreeAuto(Selecting([c EXCEPT !.route[s] = [lock |-> thr[t].inode,
                                                               gen |-> c.next],
                                                 !.next = @ + 1], t), t)]
      /\ refs' = [Unpoint({t, <<p, s>>}) EXCEPT ![thr[t].inode] = @ \union {<<p, s>>}]
      /\ thr' = [thr EXCEPT ![t] = Idle]
      /\ UNCHANGED <<host, file, made, calls>>

-----------------------------------------------------------------------------
(* What a scan of the descriptor directory cleans up on the way.           *)

\* The descriptor of a session proven stale is retired.
StaleDescriptorRetired(s) ==
  /\ host[s] = "crashed"
  /\ host' = [host EXCEPT ![s] = "exited"]
  /\ UNCHANGED <<file, made, refs, proc, thr, calls>>

\* Mutant: a lock file is a candidate whether or not its session is there.
ReapBegins_anySession(t, s) ==
  /\ Calls(t)
  /\ file[s] # NoInode
  /\ thr' = [thr EXCEPT ![t].stage = "reapLock", ![t].session = s,
                        ![t].inode = file[s]]
  /\ UNCHANGED <<host, file, made, refs, proc>>

\* reapOrphanedSessionLock: no descriptor beside the lock file, so it is opened.
ReapBegins(t, s) ==
  /\ Calls(t)
  /\ file[s] # NoInode
  /\ ~HasDescriptor(s)
  /\ thr' = [thr EXCEPT ![t].stage = "reapLock", ![t].session = s,
                        ![t].inode = file[s]]
  /\ UNCHANGED <<host, file, made, refs, proc>>

\* Held by another: the file is left alone.  Free: it is taken.
ReapLocks(t) ==
  /\ thr[t].stage = "reapLock"
  /\ \/ /\ refs[thr[t].inode] # {}
        /\ thr' = [thr EXCEPT ![t] = Idle]
        /\ UNCHANGED refs
     \/ /\ refs[thr[t].inode] = {}
        /\ refs' = [refs EXCEPT ![thr[t].inode] = {t}]
        /\ thr' = [thr EXCEPT ![t].stage = "reapRemove"]
  /\ UNCHANGED <<host, file, made, proc, calls>>

\* releaseAndRemove: the path is unlinked, whatever it names now, and the lock
\* released after it.
ReapRemoves(t) ==
  /\ thr[t].stage = "reapRemove"
  /\ file' = [file EXCEPT ![thr[t].session] = NoInode]
  /\ refs' = Unpoint({t})
  /\ thr' = [thr EXCEPT ![t] = Idle]
  /\ UNCHANGED <<host, made, proc, calls>>

-----------------------------------------------------------------------------

\* A server process ends, however: the system drops its locks.  A new one takes
\* its place.
ProcessEnds(p) ==
  LET mine == {t \in Threads : ProcOf[t] = p}
  IN  /\ calls < MaxCalls
      /\ calls' = calls + 1
      /\ proc' = [proc EXCEPT ![p] = NewClient]
      /\ refs' = Unpoint(mine \union ({p} \X Sessions))
      /\ thr' = [t \in Threads |-> IF t \in mine THEN Idle ELSE thr[t]]
      /\ UNCHANGED <<host, file, made>>

ThreadSteps(t) ==
  \/ disconnect(t) \/ detachSession(t) \/ quarantineRoute(t) \/ LeaseEnds(t)
  \/ releaseExitedRoutes(t) \/ Disconnected(t) \/ SessionFound(t) \/ OpenRefused(t)
  \/ tryAutoAttach(t) \/ AttachBegins(t) \/ LockFileOpened(t) \/ LockTaken(t)
  \/ AttachFails(t) \/ Handshaken(t)
  \/ AttachSuperseded(t) \/ AttachKeepsExisting(t) \/ AttachInstalls(t)
  \/ ReapLocks(t) \/ ReapRemoves(t)

Next ==
  \/ \E t \in Threads : ThreadSteps(t)
  \/ \E t \in Threads, s \in Sessions :
       \/ closeSessionRoute(t, s) \/ leaseFor(t, s) \/ ReapBegins(t, s)
       \/ openRoute(t, "attach", s) \/ openRoute(t, "open", s)
  \/ \E p \in Procs : ProcessEnds(p)
  \/ \E s \in Sessions :
       ServerStops(s) \/ DescriptorRetired(s) \/ EngineExits(s) \/ StaleDescriptorRetired(s)

Spec == Init /\ [][Next]_vars

-----------------------------------------------------------------------------
(* Properties.                                                             *)

\* Process p has a connection to session s, or is making or closing one: for its
\* route, for an attach, or left over from a route that was let go or an attach that
\* gave up.
Uses(p, s) ==
  \/ s \in Held(proc[p])
  \/ \E t \in Threads : /\ ProcOf[t] = p
                       /\ \/ thr[t].stage \in {"connect", "commit"} /\ thr[t].session = s
                          \/ s \in thr[t].leaving

\* Somebody in process p holds the lock on the file that <session>.lock names.
Locks(p, s) ==
  \E n \in Inodes :
    /\ n = file[s]
    /\ \/ \E r \in Sessions : <<p, r>> \in refs[n]
       \/ \E t \in Threads : ProcOf[t] = p /\ t \in refs[n]

\* Two server processes are never both on the same running session, with a route, a
\* half-made connection or one that is still being closed, although lock files are
\* removed while others have them open: a file is only removed once its session has
\* stopped serving, and no session serves again (attachDescriptorInner,
\* reapOrphanedSessionLock, GDExtensionIpc::stop).
OneOwner ==
  \A p, q \in Procs, s \in Sessions :
    p # q /\ host[s] = "up" => ~(Uses(p, s) /\ Uses(q, s))

\* The lock of a running session is held by a process from before its first
\* connection to it until after its last one, and no longer, whatever becomes of the
\* route in between: let go by one thread (detach, close, quarantine, disconnect, a
\* broken connection) while another attaches with its lock or closes what it had
\* (takeRouteLocked, attachDescriptorInner, FileLock::~FileLock).
LockFollowsUse ==
  \A p \in Procs, s \in Sessions : host[s] = "up" => (Locks(p, s) <=> Uses(p, s))

\* The selection names a route that is held, or nothing: it never keeps naming
\* an engine that is gone or was let go.
SelectedIsHeld ==
  \A p \in Procs : proc[p].selected \in Held(proc[p]) \union {NoSession}

\* A route that was let go deliberately while an attach to its session was
\* shaking hands is not brought back by that attach.
ReleasedStaysReleased ==
  [][\A t \in Threads : AttachInstalls(t) \/ AttachKeepsExisting(t) => ~thr[t].undone]_vars
=============================================================================
