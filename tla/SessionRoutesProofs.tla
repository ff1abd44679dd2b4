------------------------ MODULE SessionRoutesProofs ------------------------
(***************************************************************************)
(* Proofs about SessionRoutes, for any number of processes, threads and     *)
(* sessions, and any number of lock files created and removed.              *)
(*                                                                         *)
(* That a session has one owner rests on two things.  A lock is only ever   *)
(* pointed to from one process; and while a session serves, its lock file   *)
(* is the one inode that every route and every attach to it uses, because   *)
(* a thread that is about to remove the file has seen that the session's    *)
(* descriptor is gone, and it never comes back.                             *)
(***************************************************************************)
EXTENDS SessionRoutes, TLAPS

-----------------------------------------------------------------------------
(* The inductive invariant.                                                *)

\* An attach past AttachBegins, one that has an inode for its session, and a
\* thread that holds the lock it opened.
\* Closing: connections are being closed, and what they used is in a local.
Flying == {"open", "lock", "connect", "commit"}
Locking == {"lock", "connect", "commit"}
Holding == {"connect", "commit", "reapRemove"}
Reaping == {"reapLock", "reapRemove"}
Closing == {"dropping", "leaving"}

Owner(x) == IF x \in Threads THEN ProcOf[x] ELSE x[1]

\* A route is there with the inode it holds.
RouteInv ==
  /\ \A p \in Procs, s \in Sessions :
       proc[p].route[s] # NoRoute => proc[p].route[s].lock \in Inodes
  /\ \A p \in Procs, s \in Sessions, n \in Inodes :
       <<p, s>> \in refs[n] <=> n = proc[p].route[s].lock

\* What a thread points to.
HoldInv ==
  \A t \in Threads :
    /\ thr[t].stage \in Locking \union Reaping => thr[t].inode \in Inodes
    /\ thr[t].stage \notin {"idle", "leaving"} => thr[t].session \in Sessions
    /\ thr[t].stage \notin Closing =>
         /\ thr[t].leaving = {}
         /\ \A n \in Inodes : t \in refs[n] <=> thr[t].stage \in Holding /\ n = thr[t].inode

\* An inode is only ever used for the session it was created for.
TieInv ==
  /\ \A s \in Sessions : file[s] # NoInode => made[file[s]] = s
  /\ \A p \in Procs, s \in Sessions :
       proc[p].route[s] # NoRoute => made[proc[p].route[s].lock] = s
  /\ \A t \in Threads :
       /\ thr[t].stage \in Locking \union Reaping => made[thr[t].inode] = thr[t].session
       /\ thr[t].stage \in Closing =>
            \A n \in Inodes : t \in refs[n] => made[n] \in thr[t].leaving

\* Only one process points to a lock.
ProcessInv == \A n \in Inodes : \A x, y \in refs[n] : Owner(x) = Owner(y)

\* While a session serves, the inode of its lock file is the only one in use.
UpInv ==
  \A s \in Sessions : host[s] = "up" =>
    /\ \A p \in Procs : proc[p].route[s] # NoRoute => proc[p].route[s].lock = file[s]
    /\ \A t \in Threads : thr[t].stage \in Locking /\ thr[t].session = s
                            => thr[t].inode = file[s]
    /\ \A t \in Threads : s \in thr[t].leaving => file[s] \in Inodes /\ t \in refs[file[s]]

\* A lock file is only about to be removed when its session has gone for good.
ReapInv ==
  \A t \in Threads : thr[t].stage \in Reaping => host[thr[t].session] \in {"retired", "exited"}

\* The counters an attach read are in the past, and behind once it is overtaken.
Behind(k, c) ==
  /\ k.undone => k.stage \in Flying
  /\ k.stage \in Flying =>
       /\ k.epoch <= c.epoch
       /\ k.torn <= c.torn[k.session]
       /\ k.undone => k.epoch < c.epoch \/ k.torn < c.torn[k.session]

CounterInv == \A t \in Threads : Behind(thr[t], proc[ProcOf[t]])

IndInv ==
  /\ TypeOK
  /\ RouteInv
  /\ HoldInv
  /\ TieInv
  /\ ProcessInv
  /\ UpInv
  /\ ReapInv
  /\ SelectedIsHeld
  /\ CounterInv

-----------------------------------------------------------------------------
(* Facts.                                                                  *)

\* No route holds no lock.
LEMMA NoRouteFacts == NoRoute \in Route /\ NoRoute.lock = NoInode
BY DEF NoRoute, Route

\* An idle thread is well typed.
LEMMA IdleFacts ==
  Idle \in Thread /\ Idle.stage = "idle" /\ ~Idle.undone /\ Idle.leaving = {}
BY DEF Idle, Thread

\* A new process holds and selects nothing.
LEMMA NewClientFacts ==
  /\ NewClient \in Client
  /\ \A s \in Sessions : NewClient.route[s] = NoRoute
  /\ NewClient.selected = NoSession
BY NoRouteFacts DEF NewClient, Client

\* A thread is not a route, and what a pointer belongs to.
LEMMA PointerFacts ==
  /\ \A p \in Procs, s \in Sessions : <<p, s>> \notin Threads /\ Owner(<<p, s>>) = p
  /\ \A t \in Threads : t \notin Procs \X Sessions /\ Owner(t) = ProcOf[t] /\ ProcOf[t] \in Procs
BY SessionRoutesAssumption DEF Owner

-----------------------------------------------------------------------------
(* What becomes of a client and of a thread.                               *)

\* Client c without the routes D.
Sheds(c, d, D) ==
  /\ d \in Client
  /\ \A s \in Sessions : d.route[s] = IF s \in D THEN NoRoute ELSE c.route[s]
  /\ d.selected \in Held(d) \union {NoSession}

\* The counters of d are not behind those of c.
Ahead(c, d) == c.epoch <= d.epoch /\ \A s \in Sessions : c.torn[s] <= d.torn[s]

\* The thread is in no call, or about to attach, and lets go of what it held.
Rests(u, T) ==
  /\ thr'[u] \in Thread
  /\ thr'[u].stage \in {"idle", "begin", "leased"} /\ ~thr'[u].undone
  /\ thr'[u].leaving = {}
  /\ thr'[u].stage # "idle" => thr'[u].session \in Sessions
  /\ u \in T \/ thr[u].stage \notin Holding \union Closing

\* The thread, which pointed to nothing, has the routes D of its process to close.
Takes(u, p, D) ==
  /\ thr'[u] \in Thread
  /\ thr'[u].stage \in Closing /\ ~thr'[u].undone
  /\ thr'[u].leaving = D /\ D \subseteq Held(proc[p])
  /\ thr'[u].stage # "leaving" => thr'[u].session \in Sessions
  /\ ProcOf[u] = p
  /\ thr[u].stage \notin Holding \union Closing

\* The thread, which attached, has its own connection to close.
GivesUp(u, T) ==
  /\ u \notin T
  /\ thr'[u] \in Thread
  /\ thr'[u].stage = "leaving" /\ ~thr'[u].undone
  /\ thr'[u].leaving = {thr[u].session}
  /\ thr[u].stage = "commit"

\* The thread is where it was.
Stays(u, T) == u \notin T /\ thr'[u] = thr[u]

\* The thread is where it was, and overtaken: client d is ahead of what it read.
Overtaken(u, T, d) ==
  /\ u \notin T
  /\ thr'[u] \in Thread
  /\ thr'[u].stage = thr[u].stage /\ thr'[u].session = thr[u].session
  /\ thr'[u].inode = thr[u].inode /\ thr'[u].leaving = thr[u].leaving
  /\ thr'[u].epoch = thr[u].epoch /\ thr'[u].torn = thr[u].torn
  /\ thr[u].stage \in Flying
  /\ thr[u].epoch < d.epoch \/ thr[u].torn < d.torn[thr[u].session]

\* Process p becomes d, without the routes D; the threads of T let go of what they
\* pointed to, and those of R, if any, take what the routes pointed to.
Release(p, d, D, T, R) ==
  /\ D \subseteq Sessions /\ T \subseteq Threads /\ R \subseteq Threads
  /\ Sheds(proc[p], d, D)
  /\ proc' = [proc EXCEPT ![p] = d]
  /\ refs' \in [Inodes -> SUBSET Pointers]
  /\ \A n \in Inodes : \A x :
       x \in refs'[n] <=> (x \in refs[n] /\ x \notin T /\ x \notin {p} \X D)
                          \/ (x \in R /\ \E s \in D : <<p, s>> \in refs[n])
  /\ DOMAIN thr' = Threads /\ thr' = [u \in Threads |-> thr'[u]]
  /\ \A u \in R : Takes(u, p, D)
  /\ \A u \in Threads \ R :
       \/ Rests(u, T)
       \/ GivesUp(u, T)
       \/ Stays(u, T) /\ (ProcOf[u] = p => Ahead(proc[p], d))
       \/ Overtaken(u, T, d) /\ ProcOf[u] = p /\ Ahead(proc[p], d)
  /\ UNCHANGED <<host, file, made>>
  /\ calls' \in 0..MaxCalls

\* A process that lets routes go, and the locks with them, keeps the invariant.
LEMMA ReleaseKeeps ==
  ASSUME IndInv, NEW p \in Procs, NEW d, NEW D, NEW T, NEW R, Release(p, d, D, T, R)
  PROVE  IndInv'
<1>1. /\ host \in [Sessions -> HostStates]
      /\ proc \in [Procs -> Client] /\ thr \in [Threads -> Thread]
      /\ refs \in [Inodes -> SUBSET Pointers]
  BY DEF IndInv, TypeOK
<1>2. /\ proc' \in [Procs -> Client]
      /\ proc'[p] = d /\ \A q \in Procs : q # p => proc'[q] = proc[q]
  BY <1>1 DEF Release, Sheds
<1>3. \A q \in Procs, s \in Sessions :
        \/ q = p /\ s \in D /\ proc'[q].route[s] = NoRoute
        \/ ~(q = p /\ s \in D) /\ proc'[q].route[s] = proc[q].route[s]
  BY <1>2 DEF Release, Sheds
<1>4. \A n \in Inodes : \A x :
        x \in refs'[n] <=> (x \in refs[n] /\ x \notin T /\ x \notin {p} \X D)
                          \/ (x \in R /\ \E s \in D : <<p, s>> \in refs[n])
  BY DEF Release
<1>5. UNCHANGED <<host, file, made>>
  BY DEF Release
<1>6. ASSUME NEW u \in Threads
      PROVE  \/ u \in R /\ Takes(u, p, D)
             \/ u \notin R /\ Rests(u, T)
             \/ u \notin R /\ GivesUp(u, T)
             \/ /\ u \notin R /\ u \notin T /\ thr'[u] \in Thread
                /\ thr'[u].stage = thr[u].stage /\ thr'[u].session = thr[u].session
                /\ thr'[u].inode = thr[u].inode /\ thr'[u].leaving = thr[u].leaving
  <2>1. thr[u] \in Thread
    BY <1>1
  <2>2. CASE u \in R
    BY <2>2 DEF Release
  <2>3. CASE u \notin R
    <3>1. Rests(u, T) \/ GivesUp(u, T) \/ Stays(u, T) \/ Overtaken(u, T, d)
      BY <2>3 DEF Release
    <3> QED
      BY <2>1, <2>3, <3>1 DEF Stays, Overtaken
  <2> QED
    BY <2>2, <2>3
<1>7. \A u \in Threads, n \in Inodes :
        u \in refs'[n] <=> (u \in refs[n] /\ u \notin T)
                          \/ (u \in R /\ \E s \in D : <<p, s>> \in refs[n])
  <2>1. {p} \X D \subseteq Procs \X Sessions
    BY DEF Release
  <2>2. \A u \in Threads : u \notin {p} \X D
    BY <2>1, PointerFacts
  <2> QED
    BY <1>4, <2>2
<1>8. TypeOK'
  <2>1. \A u \in Threads : thr'[u] \in Thread
    BY <1>6 DEF Takes, Rests, GivesUp
  <2>2. thr' \in [Threads -> Thread]
    BY <2>1 DEF Release
  <2> QED
    BY <1>2, <2>2 DEF IndInv, TypeOK, Release
<1>9. RouteInv'
  <2>1. \A q \in Procs, s \in Sessions, n \in Inodes :
          <<q, s>> \in refs'[n] <=> <<q, s>> \in refs[n] /\ ~(q = p /\ s \in D)
    <3>1. \A q \in Procs, s \in Sessions : <<q, s>> \in {p} \X D <=> q = p /\ s \in D
      OBVIOUS
    <3>2. \A q \in Procs, s \in Sessions : <<q, s>> \notin T /\ <<q, s>> \notin R
      BY PointerFacts DEF Release
    <3> QED
      BY <1>4, <3>1, <3>2
  <2> QED
    BY <1>3, <2>1, NoRouteFacts, SessionRoutesAssumption DEF IndInv, RouteInv
<1>10. HoldInv'
  <2> SUFFICES ASSUME NEW u \in Threads
               PROVE  /\ thr'[u].stage \in Locking \union Reaping => thr'[u].inode \in Inodes
                      /\ thr'[u].stage \notin {"idle", "leaving"} => thr'[u].session \in Sessions
                      /\ thr'[u].stage \notin Closing =>
                           /\ thr'[u].leaving = {}
                           /\ \A n \in Inodes : u \in refs'[n] <=>
                                thr'[u].stage \in Holding /\ n = thr'[u].inode
    BY DEF HoldInv
  <2>1. CASE u \in R /\ Takes(u, p, D)
    BY <2>1 DEF Takes, Locking, Reaping, Closing
  <2>2. CASE u \notin R /\ Rests(u, T)
    <3>1. \A n \in Inodes : u \in refs'[n] <=> u \in refs[n] /\ u \notin T
      BY <1>7, <2>2
    <3>2. u \notin T => \A n \in Inodes : u \notin refs[n]
      BY <2>2 DEF Rests, IndInv, HoldInv
    <3> QED
      BY <2>2, <3>1, <3>2 DEF Rests, Locking, Reaping, Holding
  <2>3. CASE u \notin R /\ GivesUp(u, T)
    BY <2>3 DEF GivesUp, Locking, Reaping, Closing
  <2>4. CASE /\ u \notin R /\ u \notin T /\ thr'[u] \in Thread
             /\ thr'[u].stage = thr[u].stage /\ thr'[u].session = thr[u].session
             /\ thr'[u].inode = thr[u].inode /\ thr'[u].leaving = thr[u].leaving
    BY <1>7, <2>4 DEF IndInv, HoldInv
  <2> QED
    BY <1>6, <2>1, <2>2, <2>3, <2>4
<1>11. TieInv'
  <2>1. \A q \in Procs, s \in Sessions :
          proc'[q].route[s] # NoRoute => made'[proc'[q].route[s].lock] = s
    BY <1>3, <1>5 DEF IndInv, TieInv
  <2>2. ASSUME NEW u \in Threads
        PROVE  /\ thr'[u].stage \in Locking \union Reaping => made'[thr'[u].inode] = thr'[u].session
               /\ thr'[u].stage \in Closing =>
                    \A n \in Inodes : u \in refs'[n] => made'[n] \in thr'[u].leaving
    <3>1. CASE u \in R /\ Takes(u, p, D)
      <4>1. \A n \in Inodes : u \notin refs[n]
        BY <3>1 DEF Takes, IndInv, HoldInv
      <4>2. \A n \in Inodes : u \in refs'[n] => \E s \in D : <<p, s>> \in refs[n]
        BY <1>7, <4>1
      <4>3. \A n \in Inodes, s \in D : <<p, s>> \in refs[n] => made[n] = s
        BY NoRouteFacts, SessionRoutesAssumption DEF IndInv, RouteInv, TieInv, Release
      <4> QED
        BY <1>5, <3>1, <4>2, <4>3 DEF Takes, Locking, Reaping, Closing
    <3>2. CASE u \notin R /\ Rests(u, T)
      BY <3>2 DEF Rests, Locking, Reaping, Closing
    <3>3. CASE u \notin R /\ GivesUp(u, T)
      <4>1. /\ made[thr[u].inode] = thr[u].session
            /\ \A n \in Inodes : u \in refs[n] => n = thr[u].inode
        BY <3>3 DEF GivesUp, IndInv, TieInv, HoldInv, Locking, Closing
      <4> QED
        BY <1>5, <1>7, <3>3, <4>1 DEF GivesUp, Locking, Reaping
    <3>4. CASE /\ u \notin R /\ u \notin T /\ thr'[u] \in Thread
               /\ thr'[u].stage = thr[u].stage /\ thr'[u].session = thr[u].session
               /\ thr'[u].inode = thr[u].inode /\ thr'[u].leaving = thr[u].leaving
      BY <1>5, <1>7, <3>4 DEF IndInv, TieInv
    <3> QED
      BY <1>6, <3>1, <3>2, <3>3, <3>4
  <2> QED
    BY <1>5, <2>1, <2>2 DEF IndInv, TieInv
<1>12. ProcessInv'
  <2> SUFFICES ASSUME NEW n \in Inodes, NEW x \in refs'[n], NEW y \in refs'[n]
               PROVE  Owner(x) = Owner(y)
    BY DEF ProcessInv
  <2>1. \A s \in D : Owner(<<p, s>>) = p
    BY PointerFacts DEF Release
  <2>2. \A u \in R : Owner(u) = p
    BY PointerFacts DEF Release, Takes
  <2>3. ASSUME NEW z \in refs'[n]
        PROVE  z \in refs[n] \/ (Owner(z) = p /\ \E s \in D : <<p, s>> \in refs[n])
    BY <1>4, <2>2
  <2>4. \A v, w \in refs[n] : Owner(v) = Owner(w)
    BY DEF IndInv, ProcessInv
  <2>5. CASE \E s \in D : <<p, s>> \in refs[n]
    <3>1. \A v \in refs[n] : Owner(v) = p
      BY <2>1, <2>4, <2>5
    <3> QED
      BY <2>3, <3>1
  <2>6. CASE ~\E s \in D : <<p, s>> \in refs[n]
    BY <2>3, <2>4, <2>6
  <2> QED
    BY <2>5, <2>6
<1>13. UpInv'
  <2> SUFFICES ASSUME NEW s \in Sessions, host[s] = "up"
               PROVE  /\ \A q \in Procs : proc'[q].route[s] # NoRoute
                                            => proc'[q].route[s].lock = file[s]
                      /\ \A u \in Threads : thr'[u].stage \in Locking /\ thr'[u].session = s
                                              => thr'[u].inode = file[s]
                      /\ \A u \in Threads : s \in thr'[u].leaving
                                              => file[s] \in Inodes /\ u \in refs'[file[s]]
    BY <1>5 DEF UpInv
  <2>1. /\ \A q \in Procs : proc[q].route[s] # NoRoute => proc[q].route[s].lock = file[s]
        /\ \A u \in Threads : thr[u].stage \in Locking /\ thr[u].session = s
                                => thr[u].inode = file[s]
        /\ \A u \in Threads : s \in thr[u].leaving => file[s] \in Inodes /\ u \in refs[file[s]]
    BY DEF IndInv, UpInv
  <2>2. \A q \in Procs : proc'[q].route[s] # NoRoute => proc'[q].route[s].lock = file[s]
    BY <1>3, <2>1
  <2>3. \A u \in Threads : thr'[u].stage \in Locking /\ thr'[u].session = s
                              => thr'[u].inode = file[s]
    BY <1>6, <2>1 DEF Takes, Rests, GivesUp, Locking, Closing
  <2>4. ASSUME NEW u \in Threads, s \in thr'[u].leaving
        PROVE  file[s] \in Inodes /\ u \in refs'[file[s]]
    <3>1. CASE u \in R /\ Takes(u, p, D)
      <4>1. s \in D /\ proc[p].route[s] # NoRoute
        BY <2>4, <3>1 DEF Takes, Held
      <4>2. file[s] = proc[p].route[s].lock /\ file[s] \in Inodes
        BY <2>1, <4>1 DEF IndInv, RouteInv
      <4>3. <<p, s>> \in refs[file[s]]
        BY <4>2 DEF IndInv, RouteInv
      <4> QED
        BY <1>7, <3>1, <4>1, <4>2, <4>3
    <3>2. CASE u \notin R /\ Rests(u, T)
      BY <2>4, <3>2 DEF Rests
    <3>3. CASE u \notin R /\ GivesUp(u, T)
      <4>1. thr[u].stage = "commit" /\ s = thr[u].session /\ u \notin T
        BY <2>4, <3>3 DEF GivesUp
      <4>2. thr[u].inode = file[s] /\ thr[u].inode \in Inodes
        BY <2>1, <4>1 DEF IndInv, HoldInv, Locking
      <4>3. u \in refs[file[s]]
        BY <4>1, <4>2 DEF IndInv, HoldInv, Holding, Closing
      <4> QED
        BY <1>7, <4>1, <4>2, <4>3
    <3>4. CASE /\ u \notin R /\ u \notin T /\ thr'[u] \in Thread
               /\ thr'[u].stage = thr[u].stage /\ thr'[u].session = thr[u].session
               /\ thr'[u].inode = thr[u].inode /\ thr'[u].leaving = thr[u].leaving
      BY <1>7, <2>1, <2>4, <3>4
    <3> QED
      BY <1>6, <3>1, <3>2, <3>3, <3>4
  <2> QED
    BY <2>2, <2>3, <2>4
<1>14. ReapInv'
  BY <1>5, <1>6 DEF IndInv, ReapInv, Reaping, Takes, Rests, GivesUp, Closing
<1>15. SelectedIsHeld'
  BY <1>2 DEF IndInv, SelectedIsHeld, Release, Sheds, Held
<1>16. CounterInv'
  <2> SUFFICES ASSUME NEW u \in Threads
               PROVE  Behind(thr'[u], proc'[ProcOf[u]])
    BY DEF CounterInv
  <2> DEFINE c == proc[ProcOf[u]]
             e == proc'[ProcOf[u]]
             s == thr[u].session
  <2>1. /\ ProcOf[u] \in Procs /\ c \in Client /\ e \in Client
        /\ thr[u].epoch \in Nat /\ thr[u].torn \in Nat
        /\ c.epoch \in Nat /\ e.epoch \in Nat
        /\ \A x \in Sessions : c.torn[x] \in Nat /\ e.torn[x] \in Nat
    BY <1>1, <1>2, PointerFacts DEF Client, Thread
  <2>2. /\ thr[u].undone => thr[u].stage \in Flying
        /\ thr[u].stage \in Flying =>
             /\ s \in Sessions
             /\ thr[u].epoch <= c.epoch
             /\ thr[u].torn <= c.torn[s]
             /\ thr[u].undone => thr[u].epoch < c.epoch \/ thr[u].torn < c.torn[s]
    BY DEF IndInv, CounterInv, Behind, HoldInv, Flying
  <2>3. CASE Rests(u, T) \/ GivesUp(u, T) \/ Takes(u, p, D)
    BY <2>3 DEF Rests, GivesUp, Takes, Closing, Behind, Flying
  <2>4. CASE Stays(u, T) /\ (ProcOf[u] = p => Ahead(proc[p], d))
    <3>1. c.epoch <= e.epoch /\ \A x \in Sessions : c.torn[x] <= e.torn[x]
      BY <1>2, <2>1, <2>4 DEF Ahead
    <3>2. thr'[u] = thr[u]
      BY <2>4 DEF Stays
    <3> HIDE DEF c, e, s
    <3>3. thr[u].stage \in Flying =>
             /\ thr[u].epoch <= e.epoch
             /\ thr[u].torn <= e.torn[s]
             /\ thr[u].undone => thr[u].epoch < e.epoch \/ thr[u].torn < e.torn[s]
      BY <2>1, <2>2, <3>1
    <3> QED
      BY <2>2, <3>2, <3>3 DEF e, s, Behind
  <2>5. CASE Overtaken(u, T, d) /\ ProcOf[u] = p /\ Ahead(proc[p], d)
    <3>1. e = d /\ c.epoch <= d.epoch /\ \A x \in Sessions : c.torn[x] <= d.torn[x]
      BY <1>2, <2>5 DEF Ahead
    <3>2. /\ thr'[u].stage = thr[u].stage /\ thr'[u].session = s
          /\ thr'[u].epoch = thr[u].epoch /\ thr'[u].torn = thr[u].torn
          /\ thr[u].stage \in Flying
          /\ thr[u].epoch < d.epoch \/ thr[u].torn < d.torn[s]
      BY <2>5 DEF Overtaken
    <3> HIDE DEF c, e, s
    <3>3. thr[u].epoch <= d.epoch /\ thr[u].torn <= d.torn[s]
      BY <2>1, <2>2, <3>1, <3>2
    <3> QED
      BY <3>1, <3>2, <3>3 DEF e, Behind
  <2> QED
    BY <2>3, <2>4, <2>5 DEF Release
<1> QED
  BY <1>8, <1>9, <1>10, <1>11, <1>12, <1>13, <1>14, <1>15, <1>16 DEF IndInv

\* Thread t goes on as k, and points to what k says; a lock file may come, or go if
\* its session has stopped serving.
Move(t, k) ==
  /\ k \in Thread /\ k.stage \notin Closing /\ k.leaving = {} /\ thr[t].stage \notin Closing
  /\ thr' = [thr EXCEPT ![t] = k]
  /\ refs' \in [Inodes -> SUBSET Pointers]
  /\ \A n \in Inodes : \A x : x # t => (x \in refs'[n] <=> x \in refs[n])
  /\ \A n \in Inodes : t \in refs'[n] <=> k.stage \in Holding /\ n = k.inode
  /\ \A n \in Inodes : t \in refs'[n] => \A x \in refs[n] : Owner(x) = ProcOf[t]
  /\ file' \in [Sessions -> Inodes \union {NoInode}]
  /\ made' \in [Inodes -> Sessions \union {NoSession}]
  /\ \A s \in Sessions : host[s] = "up" => file[s] \in {file'[s], NoInode}
  /\ \A s \in Sessions : file'[s] # NoInode => made'[file'[s]] = s
  /\ \A n \in Inodes : made[n] # NoSession => made'[n] = made[n]
  /\ k.stage \in Locking \union Reaping => made'[k.inode] = k.session
  /\ k.stage \in Locking \union Reaping => k.inode \in Inodes
  /\ k.stage # "idle" => k.session \in Sessions
  /\ k.stage \in Locking /\ host[k.session] = "up" => k.inode = file'[k.session]
  /\ k.stage \in Reaping => host[k.session] \in {"retired", "exited"}
  /\ Behind(k, proc[ProcOf[t]])
  /\ UNCHANGED <<host, proc>>
  /\ calls' \in 0..MaxCalls

\* A thread that moves on alone keeps the invariant.
LEMMA MoveKeeps ==
  ASSUME IndInv, NEW t \in Threads, NEW k, Move(t, k)
  PROVE  IndInv'
<1>1. /\ proc \in [Procs -> Client] /\ thr \in [Threads -> Thread]
  BY DEF IndInv, TypeOK
<1>2. thr'[t] = k /\ \A u \in Threads : u # t => thr'[u] = thr[u]
  BY <1>1 DEF Move
<1>3. TypeOK'
  BY <1>1 DEF Move, IndInv, TypeOK
<1>4. RouteInv'
  BY PointerFacts DEF Move, IndInv, RouteInv
<1>5. HoldInv'
  BY <1>2 DEF Move, IndInv, HoldInv
<1>11. TieInv'
  <2>1. \A s \in Sessions : s # NoSession
    BY SessionRoutesAssumption
  <2>2. \A p \in Procs, s \in Sessions :
          proc[p].route[s] # NoRoute => made'[proc[p].route[s].lock] = s
    BY <2>1 DEF Move, IndInv, TieInv, RouteInv
  <2>3. ASSUME NEW u \in Threads, u # t
        PROVE  /\ thr[u].stage \in Locking \union Reaping => made'[thr[u].inode] = thr[u].session
               /\ thr[u].stage \in Closing =>
                    \A n \in Inodes : u \in refs'[n] => made'[n] \in thr[u].leaving
    <3>1. thr[u].stage \in Locking \union Reaping => made'[thr[u].inode] = thr[u].session
      BY <2>1, <2>3 DEF Move, IndInv, TieInv, HoldInv, Locking, Reaping
    <3>2. ASSUME thr[u].stage \in Closing, NEW n \in Inodes, u \in refs'[n]
          PROVE  made'[n] \in thr[u].leaving
      <4>1. u \in refs[n]
        BY <2>3, <3>2 DEF Move
      <4>2. made[n] \in thr[u].leaving
        BY <3>2, <4>1 DEF IndInv, TieInv
      <4>3. thr[u].leaving \subseteq Sessions
        BY <1>1 DEF Thread
      <4> QED
        BY <2>1, <4>2, <4>3 DEF Move
    <3> QED
      BY <3>1, <3>2
  <2>4. /\ thr'[t].stage \in Locking \union Reaping => made'[thr'[t].inode] = thr'[t].session
        /\ thr'[t].stage \notin Closing
    BY <1>2 DEF Move
  <2>5. \A s \in Sessions : file'[s] # NoInode => made'[file'[s]] = s
    BY DEF Move
  <2>6. proc' = proc
    BY DEF Move
  <2> QED
    BY <1>2, <2>2, <2>3, <2>4, <2>5, <2>6 DEF TieInv
<1>6. ProcessInv'
  <2> SUFFICES ASSUME NEW n \in Inodes, NEW x \in refs'[n], NEW y \in refs'[n]
               PROVE  Owner(x) = Owner(y)
    BY DEF ProcessInv
  <2>1. Owner(t) = ProcOf[t]
    BY PointerFacts
  <2>2. CASE t \notin refs'[n]
    BY <2>2 DEF Move, IndInv, ProcessInv
  <2>3. CASE t \in refs'[n]
    <3>1. \A z \in refs'[n] : Owner(z) = ProcOf[t]
      BY <2>1, <2>3 DEF Move
    <3> QED
      BY <3>1
  <2> QED
    BY <2>2, <2>3
<1>7. UpInv'
  <2> SUFFICES ASSUME NEW s \in Sessions, host[s] = "up"
               PROVE  /\ \A p \in Procs : proc[p].route[s] # NoRoute
                                            => proc[p].route[s].lock = file'[s]
                      /\ \A u \in Threads : thr'[u].stage \in Locking /\ thr'[u].session = s
                                              => thr'[u].inode = file'[s]
                      /\ \A u \in Threads : s \in thr'[u].leaving
                                              => file'[s] \in Inodes /\ u \in refs'[file'[s]]
    BY DEF UpInv, Move
  <2>1. file[s] \in {file'[s], NoInode}
    BY DEF Move
  <2>2. \A p \in Procs : proc[p].route[s] # NoRoute => proc[p].route[s].lock = file'[s]
    BY <2>1, SessionRoutesAssumption DEF IndInv, UpInv, RouteInv
  <2>3. \A u \in Threads : thr[u].stage \in Locking /\ thr[u].session = s
                              => thr[u].inode = file'[s]
    BY <2>1, SessionRoutesAssumption DEF IndInv, UpInv, HoldInv
  <2>4. ASSUME NEW u \in Threads, s \in thr'[u].leaving
        PROVE  file'[s] \in Inodes /\ u \in refs'[file'[s]]
    <3>1. u # t
      BY <1>2, <2>4 DEF Move
    <3>2. file[s] \in Inodes /\ u \in refs[file[s]]
      BY <1>2, <2>4, <3>1 DEF IndInv, UpInv
    <3>3. file'[s] = file[s]
      BY <2>1, <3>2, SessionRoutesAssumption
    <3> QED
      BY <3>1, <3>2, <3>3 DEF Move
  <2> QED
    BY <1>2, <2>2, <2>3, <2>4 DEF Move
<1>8. ReapInv'
  BY <1>2 DEF Move, IndInv, ReapInv
<1>9. SelectedIsHeld'
  BY DEF Move, IndInv, SelectedIsHeld
<1>10. CounterInv'
  <2> SUFFICES ASSUME NEW u \in Threads
               PROVE  Behind(thr'[u], proc'[ProcOf[u]])
    BY DEF CounterInv
  <2>1. proc' = proc
    BY DEF Move
  <2> QED
    BY <1>2, <2>1 DEF Move, IndInv, CounterInv
<1> QED
  BY <1>3, <1>4, <1>5, <1>6, <1>7, <1>8, <1>9, <1>10, <1>11 DEF IndInv

\* A session stops serving, loses its descriptor or its process ends.
LEMMA HostKeeps ==
  ASSUME IndInv, NEW s \in Sessions,
         \/ ServerStops(s) \/ DescriptorRetired(s) \/ EngineExits(s)
         \/ StaleDescriptorRetired(s)
  PROVE  IndInv'
<1>1. UNCHANGED <<file, made, refs, proc, thr, calls>>
  BY DEF ServerStops, DescriptorRetired, EngineExits, StaleDescriptorRetired
<1>2. /\ host' \in [Sessions -> HostStates]
      /\ \A r \in Sessions : /\ host'[r] = "up" => host[r] = "up"
                             /\ host[r] \in {"retired", "exited"} => host'[r] \in {"retired", "exited"}
  BY DEF ServerStops, DescriptorRetired, EngineExits, StaleDescriptorRetired,
         HasDescriptor, ProvenStale, HostStates, IndInv, TypeOK
<1>3. TypeOK'
  BY <1>1, <1>2 DEF IndInv, TypeOK
<1>4. RouteInv' /\ HoldInv' /\ TieInv' /\ ProcessInv' /\ SelectedIsHeld' /\ CounterInv'
  BY <1>1 DEF IndInv, RouteInv, HoldInv, TieInv, ProcessInv, SelectedIsHeld, CounterInv
<1>5. UpInv'
  BY <1>1, <1>2 DEF IndInv, UpInv
<1>6. ReapInv'
  BY <1>1, <1>2 DEF IndInv, ReapInv, HoldInv, Reaping
<1> QED
  BY <1>3, <1>4, <1>5, <1>6 DEF IndInv

-----------------------------------------------------------------------------
(* Letting go.                                                             *)

\* A client without some of its routes, and what does not matter of it changed.
LEMMA WithoutFacts ==
  ASSUME NEW c \in Client, c.selected \in Held(c) \union {NoSession},
         NEW D \in SUBSET Sessions
  PROVE  /\ Sheds(c, Without(c, D), D)
         /\ Without(c, D).epoch = c.epoch /\ Without(c, D).torn = c.torn
<1> DEFINE d == Without(c, D)
<1>1. /\ d \in Client /\ d.epoch = c.epoch /\ d.torn = c.torn
      /\ d.route = [s \in Sessions |-> IF s \in D THEN NoRoute ELSE c.route[s]]
      /\ d.selected = IF c.selected \in D THEN NoSession ELSE c.selected
  BY NoRouteFacts DEF Without, Client
<1> HIDE DEF d
<1>2. d.selected \in Held(d) \union {NoSession}
  BY <1>1 DEF Held
<1>3. Sheds(c, d, D)
  BY <1>1, <1>2 DEF Sheds
<1> QED
  BY <1>1, <1>3 DEF d

\* What a process sheds depends on its routes and its selection only.
LEMMA SameRoutes ==
  ASSUME NEW c, NEW d, NEW D, Sheds(c, d, D),
         NEW e \in Client, e.route = d.route, e.selected = d.selected
  PROVE  Sheds(c, e, D)
BY DEF Sheds, Held

\* What the invariant says of one process.
LEMMA ClientFacts ==
  ASSUME IndInv, NEW p \in Procs
  PROVE  /\ proc[p] \in Client
         /\ proc[p].selected \in Held(proc[p]) \union {NoSession}
         /\ proc[p].epoch \in Nat /\ \A s \in Sessions : proc[p].torn[s] \in Nat
         /\ proc[p].torn \in [Sessions -> Nat]
         /\ Sheds(proc[p], proc[p], {})
         /\ Held(proc[p]) \subseteq Sessions
BY DEF IndInv, TypeOK, SelectedIsHeld, Client, Sheds, Held

\* Who points to what when thread t takes the routes D of its process.
LEMMA HandOverFacts ==
  ASSUME IndInv, NEW t \in Threads, NEW D \in SUBSET Sessions
  PROVE  /\ HandOver(t, D) \in [Inodes -> SUBSET Pointers]
         /\ \A n \in Inodes : \A x :
              x \in HandOver(t, D)[n] <=>
                (x \in refs[n] /\ x \notin {ProcOf[t]} \X D)
                \/ (x = t /\ \E s \in D : <<ProcOf[t], s>> \in refs[n])
<1> DEFINE p == ProcOf[t]
           gone == {p} \X D
           h == [n \in Inodes |-> IF refs[n] \intersect gone = {} THEN refs[n]
                                                                 ELSE (refs[n] \ gone) \union {t}]
<1>1. HandOver(t, D) = h
  BY DEF HandOver
<1>2. refs \in [Inodes -> SUBSET Pointers] /\ t \in Pointers
  BY DEF IndInv, TypeOK, Pointers
<1>3. h \in [Inodes -> SUBSET Pointers]
  BY <1>2
<1>4. \A n \in Inodes : refs[n] \intersect gone = {} <=> ~\E s \in D : <<p, s>> \in refs[n]
  <2>1. \A x : x \in gone <=> \E s \in D : x = <<p, s>>
    OBVIOUS
  <2> HIDE DEF gone, p
  <2> QED
    BY <2>1
<1> HIDE DEF gone, p
<1>5. \A n \in Inodes : \A x :
        x \in h[n] <=> (x \in refs[n] /\ x \notin gone)
                       \/ (x = t /\ \E s \in D : <<p, s>> \in refs[n])
  BY <1>4
<1> QED
  BY <1>1, <1>3, <1>5 DEF gone, p

\* A thread that has routes to close, or none.
LEMMA LeavingFacts ==
  ASSUME NEW D \in SUBSET Sessions
  PROVE  /\ D = {} => Leaving(D) = Idle
         /\ D # {} => /\ Leaving(D) \in Thread /\ Leaving(D).stage = "leaving"
                      /\ ~Leaving(D).undone /\ Leaving(D).leaving = D
BY DEF Leaving, Idle, Thread

\* A deliberate teardown, with the counters it moves.
LEMMA LetGoKeeps ==
  ASSUME IndInv, NEW t \in Threads, NEW d, NEW D \in SUBSET Held(proc[ProcOf[t]]), NEW F,
         Sheds(proc[ProcOf[t]], d, D), Ahead(proc[ProcOf[t]], d),
         thr[t].stage \notin Holding \union Closing,
         \A u \in InFlight(ProcOf[t], F) :
            thr[u].epoch < d.epoch \/ thr[u].torn < d.torn[thr[u].session],
         LetGo(t, d, D, F), calls' \in 0..MaxCalls
  PROVE  IndInv'
<1> DEFINE p == ProcOf[t]
           T == {u \in Threads : FALSE}
           R == {u \in Threads : u = t /\ D # {}}
<1>1. p \in Procs /\ D \in SUBSET Sessions
  BY PointerFacts DEF Held
<1>2. /\ proc' = [proc EXCEPT ![p] = d]
      /\ refs' = HandOver(t, D)
      /\ thr' = [u \in Threads |->
                   IF u = t THEN Leaving(D)
                   ELSE IF u \in InFlight(p, F) THEN [thr[u] EXCEPT !.undone = TRUE]
                   ELSE thr[u]]
      /\ UNCHANGED <<host, file, made>>
  BY DEF LetGo
<1>3. /\ refs' \in [Inodes -> SUBSET Pointers]
      /\ \A n \in Inodes : \A x :
           x \in refs'[n] <=> (x \in refs[n] /\ x \notin T /\ x \notin {p} \X D)
                              \/ (x \in R /\ \E s \in D : <<p, s>> \in refs[n])
  <2>1. /\ \A x : x \notin T /\ (x \in R => x = t)
        /\ \A s \in D : t \in R
    OBVIOUS
  <2>2. /\ HandOver(t, D) \in [Inodes -> SUBSET Pointers]
        /\ \A n \in Inodes : \A x :
             x \in HandOver(t, D)[n] <=> (x \in refs[n] /\ x \notin {p} \X D)
                                          \/ (x = t /\ \E s \in D : <<p, s>> \in refs[n])
    BY <1>1, HandOverFacts
  <2>3. refs' = HandOver(t, D)
    BY <1>2
  <2> HIDE DEF T, R, p
  <2>4. \A n \in Inodes : \A x :
          x \in refs'[n] <=> (x \in refs[n] /\ x \notin {p} \X D)
                             \/ (x = t /\ \E s \in D : <<p, s>> \in refs[n])
    BY <2>2, <2>3
  <2>5. \A n \in Inodes : \A x :
          (x \in R /\ \E s \in D : <<p, s>> \in refs[n])
            <=> (x = t /\ \E s \in D : <<p, s>> \in refs[n])
    BY <2>1
  <2> QED
    BY <2>1, <2>2, <2>3, <2>4, <2>5
<1>4. ASSUME NEW u \in Threads \ R
      PROVE  \/ Rests(u, T)
             \/ Stays(u, T)
             \/ Overtaken(u, T, d) /\ ProcOf[u] = p
  <2>1. CASE u = t
    BY <1>1, <1>2, <2>1, IdleFacts, LeavingFacts DEF Rests
  <2>2. CASE u # t /\ u \in InFlight(p, F)
    <3>1. thr'[u] = [thr[u] EXCEPT !.undone = TRUE] /\ thr[u] \in Thread
      BY <1>2, <2>2 DEF IndInv, TypeOK
    <3>2. /\ thr'[u] \in Thread
          /\ thr'[u].stage = thr[u].stage /\ thr'[u].session = thr[u].session
          /\ thr'[u].inode = thr[u].inode /\ thr'[u].leaving = thr[u].leaving
          /\ thr'[u].epoch = thr[u].epoch /\ thr'[u].torn = thr[u].torn
      BY <3>1 DEF Thread
    <3>3. thr[u].stage \in Flying /\ ProcOf[u] = p
      BY <2>2 DEF InFlight, Flying
    <3> QED
      BY <2>2, <3>2, <3>3 DEF Overtaken
  <2>3. CASE u # t /\ u \notin InFlight(p, F)
    BY <1>2, <2>3 DEF Stays
  <2> QED
    BY <2>1, <2>2, <2>3
<1>5. DOMAIN thr' = Threads /\ thr' = [u \in Threads |-> thr'[u]]
  BY <1>2
<1>7. \A u \in R : Takes(u, p, D)
  <2>1. thr'[t] = Leaving(D)
    BY <1>2
  <2> QED
    BY <1>1, <2>1, LeavingFacts DEF Takes, Closing
<1>8. T \subseteq Threads /\ R \subseteq Threads
  OBVIOUS
<1> HIDE DEF p, T, R
<1>6. Release(p, d, D, T, R)
  BY <1>1, <1>2, <1>3, <1>4, <1>5, <1>7, <1>8 DEF Release, p
<1> QED
  BY <1>1, <1>6, ReleaseKeeps

\* A call is made within the bound.
LEMMA CallsFacts ==
  ASSUME IndInv, NEW t, Calls(t)
  PROVE  thr[t].stage = "idle" /\ calls' \in 0..MaxCalls
BY SessionRoutesAssumption DEF IndInv, TypeOK, Calls

\* takeRouteLocked moves the counter every attach to the session has read.
LEMMA TakeRouteFacts ==
  ASSUME IndInv, NEW p \in Procs, NEW s \in Sessions,
         NEW c \in Client, c.route = proc[p].route, c.selected = proc[p].selected,
         c.epoch = proc[p].epoch, c.torn = proc[p].torn
  PROVE  /\ Sheds(proc[p], takeRouteLocked(c, s), {s})
         /\ Ahead(proc[p], takeRouteLocked(c, s))
         /\ \A u \in InFlight(p, {s}) :
              thr[u].torn < takeRouteLocked(c, s).torn[thr[u].session]
<1> DEFINE w == Without(c, {s})
           d == takeRouteLocked(c, s)
<1>1. c.selected \in Held(c) \union {NoSession}
  BY ClientFacts DEF Held
<1>2. Sheds(c, w, {s}) /\ w.epoch = c.epoch /\ w.torn = c.torn
  BY <1>1, WithoutFacts
<1>3. Sheds(proc[p], w, {s}) /\ w \in Client
  BY <1>2 DEF Sheds
<1>4. c.torn \in [Sessions -> Nat] /\ c.epoch \in Nat
  BY DEF Client
<1>5. /\ d \in Client /\ d.route = w.route /\ d.selected = w.selected
      /\ d.epoch = c.epoch /\ d.torn = [c.torn EXCEPT ![s] = @ + 1]
  <2>1. d = [w EXCEPT !.torn[s] = @ + 1]
    BY DEF takeRouteLocked
  <2> HIDE DEF w, d
  <2> QED
    BY <1>2, <1>3, <1>4, <2>1 DEF Client
<1> HIDE DEF w, d
<1>6. Sheds(proc[p], d, {s})
  BY <1>3, <1>5, SameRoutes
<1>7. Ahead(proc[p], d)
  BY <1>4, <1>5 DEF Ahead
<1>8. \A u \in InFlight(p, {s}) : thr[u].torn < d.torn[thr[u].session]
  <2> SUFFICES ASSUME NEW u \in InFlight(p, {s}) PROVE thr[u].torn < d.torn[s]
    BY DEF InFlight
  <2>1. u \in Threads /\ ProcOf[u] = p /\ thr[u].stage \in Flying /\ thr[u].session = s
    BY DEF InFlight, Flying
  <2>2. thr[u].torn <= c.torn[s] /\ thr[u].torn \in Nat /\ c.torn[s] \in Nat
    BY <1>4, <2>1 DEF IndInv, CounterInv, Behind, TypeOK, Thread
  <2>3. d.torn[s] = c.torn[s] + 1
    BY <1>4, <1>5
  <2> QED
    BY <2>2, <2>3
<1> QED
  BY <1>6, <1>7, <1>8 DEF d

\* Everything is let go.
LEMMA disconnectKeeps ==
  ASSUME IndInv, NEW t \in Threads, disconnect(t)
  PROVE  IndInv'
<1> DEFINE p == ProcOf[t]
           w == Without(proc[p], Sessions)
           d == [w EXCEPT !.auto = FALSE, !.epoch = @ + 1]
           D == Held(proc[p])
<1>1. Calls(t) /\ LetGo(t, d, D, Sessions)
  BY DEF disconnect
<1>2. p \in Procs
  BY PointerFacts
<1>3. Sheds(proc[p], w, Sessions) /\ w.epoch = proc[p].epoch /\ w.torn = proc[p].torn
  BY <1>2, ClientFacts, WithoutFacts
<1>4. w \in Client
  BY <1>3 DEF Sheds
<1> HIDE DEF w
<1>5. /\ d \in Client /\ d.route = w.route /\ d.selected = w.selected
      /\ d.epoch = w.epoch + 1 /\ d.torn = w.torn
  <2>1. w.epoch + 1 \in Nat
    BY <1>4 DEF Client
  <2>2. d = [w EXCEPT !.auto = FALSE, !.epoch = w.epoch + 1]
    BY <1>4 DEF Client
  <2> QED
    BY <1>4, <2>1, <2>2 DEF Client
<1> HIDE DEF d, p
<1>6. Sheds(proc[p], d, D)
  <2>1. Sheds(proc[p], d, Sessions)
    BY <1>3, <1>5, SameRoutes
  <2> QED
    BY <2>1 DEF Sheds, Held
<1>7. Ahead(proc[p], d)
  BY <1>2, <1>3, <1>5, ClientFacts DEF Ahead
<1>8. \A u \in InFlight(p, Sessions) : thr[u].epoch < d.epoch
  <2> SUFFICES ASSUME NEW u \in InFlight(p, Sessions) PROVE thr[u].epoch < d.epoch
    OBVIOUS
  <2>1. u \in Threads /\ ProcOf[u] = p /\ thr[u].stage \in Flying
    BY DEF InFlight, Flying
  <2>2. thr[u].epoch <= proc[p].epoch /\ thr[u].epoch \in Nat /\ proc[p].epoch \in Nat
    BY <1>2, <2>1, ClientFacts DEF IndInv, CounterInv, Behind, TypeOK, Thread
  <2> QED
    BY <1>3, <1>5, <2>2
<1>9. thr[t].stage \notin Holding \union Closing /\ calls' \in 0..MaxCalls
  BY <1>1, CallsFacts DEF Holding, Closing
<1> QED
  BY <1>1, <1>6, <1>7, <1>8, <1>9, LetGoKeeps DEF p

\* One route is let go: detached, closed or quarantined.
LEMMA OneRouteKeeps ==
  ASSUME IndInv, NEW t \in Threads,
         \/ detachSession(t) \/ (\E s \in Sessions : closeSessionRoute(t, s))
         \/ quarantineRoute(t)
  PROVE  IndInv'
<1> DEFINE p == ProcOf[t]
           calm == [proc[p] EXCEPT !.auto = FALSE]
<1>1. p \in Procs /\ proc[p] \in Client
  BY PointerFacts, ClientFacts
<1>2. /\ calm \in Client /\ calm.route = proc[p].route /\ calm.selected = proc[p].selected
      /\ calm.epoch = proc[p].epoch /\ calm.torn = proc[p].torn
  BY <1>1 DEF Client
<1>3. Held(calm) = Held(proc[p])
  BY <1>2 DEF Held
<1> HIDE DEF p, calm
<1>4. CASE detachSession(t)
  <2> DEFINE s == calm.selected
  <2>1. /\ Calls(t)
        /\ IF s \in Held(calm) THEN LetGo(t, takeRouteLocked(calm, s), {s}, {s})
                               ELSE LetGo(t, calm, {}, {})
    BY <1>4 DEF detachSession, p, calm
  <2>2. thr[t].stage \notin Holding \union Closing /\ calls' \in 0..MaxCalls
    BY <2>1, CallsFacts DEF Holding, Closing
  <2>3. CASE s \in Held(calm)
    <3>1. s \in Sessions
      BY <2>3 DEF Held
    <3> HIDE DEF s
    <3>2. /\ Sheds(proc[p], takeRouteLocked(calm, s), {s})
          /\ Ahead(proc[p], takeRouteLocked(calm, s))
          /\ \A u \in InFlight(p, {s}) :
               thr[u].torn < takeRouteLocked(calm, s).torn[thr[u].session]
      BY <1>1, <1>2, <3>1, TakeRouteFacts
    <3> QED
      BY <1>3, <2>1, <2>2, <2>3, <3>1, <3>2, LetGoKeeps DEF p
  <2>4. CASE s \notin Held(calm)
    <3> DEFINE D == {x \in Sessions : FALSE}
    <3>0. D = {}
      OBVIOUS
    <3>1. LetGo(t, calm, D, D)
      BY <2>1, <2>4, <3>0
    <3>2. Sheds(proc[p], calm, D)
      BY <1>1, <1>2, <3>0, ClientFacts, SameRoutes
    <3>3. Ahead(proc[p], calm)
      BY <1>1, <1>2, ClientFacts DEF Ahead
    <3>4. InFlight(p, D) = {}
      BY DEF InFlight
    <3> QED
      BY <2>2, <3>1, <3>2, <3>3, <3>4, LetGoKeeps DEF p
  <2> QED
    BY <2>3, <2>4
<1>5. CASE \E s \in Sessions : closeSessionRoute(t, s)
  <2>1. PICK s \in Sessions : closeSessionRoute(t, s)
    BY <1>5
  <2>2. Calls(t) /\ s \in Held(proc[p]) /\ LetGo(t, takeRouteLocked(proc[p], s), {s}, {s})
    BY <2>1 DEF closeSessionRoute, p
  <2>3. thr[t].stage \notin Holding \union Closing /\ calls' \in 0..MaxCalls
    BY <2>2, CallsFacts DEF Holding, Closing
  <2>4. /\ Sheds(proc[p], takeRouteLocked(proc[p], s), {s})
        /\ Ahead(proc[p], takeRouteLocked(proc[p], s))
        /\ \A u \in InFlight(p, {s}) :
             thr[u].torn < takeRouteLocked(proc[p], s).torn[thr[u].session]
    BY <1>1, TakeRouteFacts
  <2> QED
    BY <2>2, <2>3, <2>4, LetGoKeeps DEF p
<1>6. CASE quarantineRoute(t)
  <2> DEFINE s == thr[t].session
             w == takeRouteLocked(proc[p], s)
             d == [w EXCEPT !.auto = FALSE]
  <2>1. /\ thr[t].stage = "leased" /\ LetGo(t, d, {s}, {s}) /\ calls' = calls
        /\ s \in Held(proc[p])
    BY <1>6 DEF quarantineRoute, StillLeased, p
  <2>2. thr[t].stage \notin Holding \union Closing /\ calls' \in 0..MaxCalls /\ s \in Sessions
    BY <2>1 DEF Holding, Closing, IndInv, TypeOK, HoldInv
  <2> HIDE DEF s
  <2>3. /\ Sheds(proc[p], w, {s}) /\ Ahead(proc[p], w)
        /\ \A u \in InFlight(p, {s}) : thr[u].torn < w.torn[thr[u].session]
    BY <1>1, <2>2, TakeRouteFacts
  <2>4. w \in Client
    BY <2>3 DEF Sheds
  <2> HIDE DEF w
  <2>5. /\ d \in Client /\ d.route = w.route /\ d.selected = w.selected
        /\ d.epoch = w.epoch /\ d.torn = w.torn
    BY <2>4 DEF Client
  <2> HIDE DEF d
  <2>6. Sheds(proc[p], d, {s}) /\ Ahead(proc[p], d)
    BY <2>3, <2>5, SameRoutes DEF Ahead
  <2>7. \A u \in InFlight(p, {s}) : thr[u].torn < d.torn[thr[u].session]
    BY <2>3, <2>5
  <2> QED
    BY <2>1, <2>2, <2>6, <2>7, LetGoKeeps DEF p
<1> QED
  BY <1>4, <1>5, <1>6

\* Dead routes are taken by thread t, which was idle and has them to close.
LEMMA OpeningKeeps ==
  ASSUME IndInv, NEW t \in Threads, NEW D \in SUBSET Held(proc[ProcOf[t]]), NEW d, NEW k,
         Sheds(proc[ProcOf[t]], d, D),
         d.epoch = proc[ProcOf[t]].epoch, d.torn = proc[ProcOf[t]].torn,
         k \in Thread, k.stage \in Closing, ~k.undone, k.leaving = D,
         k.stage # "leaving" => k.session \in Sessions,
         thr[t].stage = "idle", calls' \in 0..MaxCalls,
         proc' = [proc EXCEPT ![ProcOf[t]] = d],
         refs' = HandOver(t, D),
         thr' = [thr EXCEPT ![t] = k],
         UNCHANGED <<host, file, made>>
  PROVE  IndInv'
<1> DEFINE p == ProcOf[t]
           T == {u \in Threads : FALSE}
           R == {t}
<1>1. p \in Procs /\ D \in SUBSET Sessions
  BY PointerFacts DEF Held
<1>2. Ahead(proc[p], d)
  BY <1>1, ClientFacts DEF Ahead
<1>3. /\ refs' \in [Inodes -> SUBSET Pointers]
      /\ \A n \in Inodes : \A x :
           x \in refs'[n] <=> (x \in refs[n] /\ x \notin T /\ x \notin {p} \X D)
                              \/ (x \in R /\ \E s \in D : <<p, s>> \in refs[n])
  <2>1. \A x : x \notin T /\ (x \in R <=> x = t)
    OBVIOUS
  <2>2. /\ HandOver(t, D) \in [Inodes -> SUBSET Pointers]
        /\ \A n \in Inodes : \A x :
             x \in HandOver(t, D)[n] <=> (x \in refs[n] /\ x \notin {p} \X D)
                                          \/ (x = t /\ \E s \in D : <<p, s>> \in refs[n])
    BY <1>1, HandOverFacts
  <2>3. refs' = HandOver(t, D)
    OBVIOUS
  <2> HIDE DEF T, R, p
  <2>4. \A n \in Inodes : \A x :
          x \in refs'[n] <=> (x \in refs[n] /\ x \notin {p} \X D)
                             \/ (x = t /\ \E s \in D : <<p, s>> \in refs[n])
    BY <2>2, <2>3
  <2>5. \A n \in Inodes : \A x :
          (x \in R /\ \E s \in D : <<p, s>> \in refs[n])
            <=> (x = t /\ \E s \in D : <<p, s>> \in refs[n])
    BY <2>1
  <2> QED
    BY <2>1, <2>2, <2>3, <2>4, <2>5
<1>4. thr \in [Threads -> Thread]
  BY DEF IndInv, TypeOK
<1>5. Takes(t, p, D) /\ \A u \in Threads \ R : Stays(u, T)
  BY <1>4 DEF Takes, Stays, Holding, Closing
<1>6. T \subseteq Threads /\ R \subseteq Threads /\ \A u \in R : u = t
  OBVIOUS
<1> HIDE DEF p, T, R
<1>7. DOMAIN thr' = Threads /\ thr' = [u \in Threads |-> thr'[u]]
  BY <1>4
<1>8. Release(p, d, D, T, R)
  BY <1>1, <1>2, <1>3, <1>5, <1>6, <1>7 DEF Release, p
<1> QED
  BY <1>1, <1>8, ReleaseKeeps

\* Routes of engines that are gone are dropped; nothing else happens.
LEMMA ExitedKeeps ==
  ASSUME IndInv, NEW t \in Threads, releaseExitedRoutes(t)
  PROVE  IndInv'
<1> DEFINE p == ProcOf[t]
           D == Exited(proc[p])
           d == Without(proc[p], D)
           k == Leaving(D)
<1>1. p \in Procs /\ D \in SUBSET Held(proc[p]) /\ D \in SUBSET Sessions /\ D # {}
  BY PointerFacts DEF Exited, Held, releaseExitedRoutes
<1>2. /\ proc' = [proc EXCEPT ![p] = d] /\ refs' = HandOver(t, D)
      /\ thr[t].stage = "idle" /\ thr' = [thr EXCEPT ![t] = k]
      /\ UNCHANGED <<host, file, made, calls>>
  BY DEF releaseExitedRoutes
<1>3. Sheds(proc[p], d, D) /\ d.epoch = proc[p].epoch /\ d.torn = proc[p].torn
  BY <1>1, ClientFacts, WithoutFacts
<1> HIDE DEF d, D
<1>4. k \in Thread /\ k.stage = "leaving" /\ ~k.undone /\ k.leaving = D
  BY <1>1, LeavingFacts
<1>5. calls' \in 0..MaxCalls
  BY <1>2 DEF IndInv, TypeOK
<1> HIDE DEF k
<1> QED
  BY <1>1, <1>2, <1>3, <1>4, <1>5, OpeningKeeps DEF Closing

\* An attach begins well typed and not undone.
LEMMA AttachingFacts ==
  ASSUME IndInv, NEW t \in Threads, thr[t].stage \in {"idle", "dropping"},
         NEW kind \in {"attach", "open", "auto"}, NEW s \in Sessions
  PROVE  LET k == Attaching(t, kind, s)
         IN  k \in Thread /\ k.stage = "begin" /\ ~k.undone /\ k.session = s /\ k.leaving = {}
<1> DEFINE k == Attaching(t, kind, s)
<1>1. thr[t] \in Thread /\ ~thr[t].undone
  BY DEF IndInv, TypeOK, CounterInv, Behind, Flying
<1>2. /\ k \in Thread /\ k.stage = "begin" /\ k.session = s /\ k.undone = thr[t].undone
      /\ k.leaving = {}
  BY <1>1 DEF Attaching, Thread
<1> HIDE DEF k
<1>3. ~k.undone
  BY <1>1, <1>2, Zenon
<1> QED
  BY <1>2, <1>3 DEF k

\* An attach that begins keeps the invariant.
LEMMA openRouteKeeps ==
  ASSUME IndInv, NEW t \in Threads, NEW kind \in {"attach", "open"}, NEW s \in Sessions,
         openRoute(t, kind, s)
  PROVE  IndInv'
<1> DEFINE p == ProcOf[t]
           c == IF kind = "attach" THEN [proc[p] EXCEPT !.auto = FALSE] ELSE proc[p]
<1>1. p \in Procs /\ proc[p] \in Client
  BY PointerFacts, ClientFacts
<1>2. /\ c \in Client /\ c.route = proc[p].route /\ c.selected = proc[p].selected
      /\ c.epoch = proc[p].epoch /\ c.torn = proc[p].torn
  BY <1>1 DEF Client
<1> DEFINE k(D) == [thr[t] EXCEPT !.stage = "dropping", !.kind = kind, !.session = s,
                                  !.leaving = D]
<1>3. PICK D \in DeadRoutes(c) :
        /\ proc' = [proc EXCEPT ![p] = Without(c, D)]
        /\ refs' = HandOver(t, D)
        /\ thr' = [thr EXCEPT ![t].stage = "dropping", ![t].kind = kind,
                              ![t].session = s, ![t].leaving = D]
  BY DEF openRoute
<1>4. Calls(t) /\ UNCHANGED <<host, file, made>>
  BY DEF openRoute
<1> HIDE DEF c
<1>5. D \in SUBSET Held(proc[p]) /\ D \in SUBSET Sessions
  BY <1>2 DEF DeadRoutes, Held
<1>6. c.selected \in Held(c) \union {NoSession}
  BY <1>1, <1>2, ClientFacts DEF Held
<1> DEFINE d == Without(c, D)
<1>7. Sheds(c, d, D) /\ d.epoch = proc[p].epoch /\ d.torn = proc[p].torn
  BY <1>2, <1>5, <1>6, WithoutFacts
<1>11. proc' = [proc EXCEPT ![p] = d]
  BY <1>3
<1> HIDE DEF d
<1>8. Sheds(proc[p], d, D)
  BY <1>2, <1>7 DEF Sheds
<1>9. thr[t].stage = "idle" /\ calls' \in 0..MaxCalls
  BY <1>4, CallsFacts
<1>10. /\ thr[t] \in Thread /\ ~thr[t].undone
       /\ thr' = [thr EXCEPT ![t] = k(D)]
  BY <1>3, <1>9 DEF IndInv, TypeOK, CounterInv, Behind, Flying
<1>12. /\ k(D) \in Thread /\ k(D).stage = "dropping" /\ k(D).session = s
       /\ k(D).leaving = D /\ k(D).undone = thr[t].undone
  BY <1>5, <1>10 DEF Thread
<1> HIDE DEF k, p
<1>13. ~k(D).undone
  BY <1>10, <1>12, Zenon
<1>14. k(D).stage \in Closing
  BY <1>12 DEF Closing
<1> QED
  BY <1>3, <1>4, <1>5, <1>7, <1>8, <1>9, <1>10, <1>11, <1>12, <1>13, <1>14, OpeningKeeps DEF p

\* The references of thread t go, if it has any, and no route with them.
LEMMA CallEndsKeeps ==
  ASSUME IndInv, NEW t \in Threads, NEW d, NEW k,
         Sheds(proc[ProcOf[t]], d, {}),
         d.epoch = proc[ProcOf[t]].epoch, d.torn = proc[ProcOf[t]].torn,
         proc' = [proc EXCEPT ![ProcOf[t]] = d],
         \/ refs' = Unpoint({t})
         \/ refs' = refs /\ thr[t].stage \notin Holding \union Closing,
         k \in Thread, k.stage \in {"idle", "begin"}, ~k.undone, k.leaving = {},
         k.stage # "idle" => k.session \in Sessions,
         thr' = [thr EXCEPT ![t] = k],
         UNCHANGED <<host, file, made>>, calls' \in 0..MaxCalls
  PROVE  IndInv'
<1> DEFINE p == ProcOf[t]
           D == {s \in Sessions : FALSE}
           R == {u \in Threads : FALSE}
           T == {t}
<1>1. p \in Procs /\ D = {} /\ R = {}
  BY PointerFacts
<1>2. Ahead(proc[p], d)
  BY <1>1, ClientFacts DEF Ahead
<1>3. thr \in [Threads -> Thread] /\ refs \in [Inodes -> SUBSET Pointers]
  BY DEF IndInv, TypeOK
<1>4. \A n \in Inodes : \A x : x \in refs'[n] <=> x \in refs[n] /\ x # t
  <2>1. CASE refs' = Unpoint({t})
    BY <2>1 DEF Unpoint
  <2>2. CASE refs' = refs /\ thr[t].stage \notin Holding \union Closing
    <3>1. \A n \in Inodes : t \notin refs[n]
      BY <2>2 DEF IndInv, HoldInv
    <3> QED
      BY <2>2, <3>1
  <2> QED
    BY <2>1, <2>2
<1>5. refs' \in [Inodes -> SUBSET Pointers]
  BY <1>3 DEF Unpoint
<1>6. Rests(t, T) /\ \A u \in Threads : u # t => Stays(u, T)
  BY <1>3 DEF Rests, Stays
<1>7. /\ T \subseteq Threads /\ R \subseteq Threads /\ D \subseteq Sessions
      /\ DOMAIN thr' = Threads /\ thr' = [u \in Threads |-> thr'[u]]
  BY <1>3
<1>8. \A n \in Inodes : \A x :
        x \in refs'[n] <=> (x \in refs[n] /\ x \notin T /\ x \notin {p} \X D)
                           \/ (x \in R /\ \E s \in D : <<p, s>> \in refs[n])
  BY <1>1, <1>4
<1>9. Sheds(proc[p], d, D)
  BY <1>1
<1>10. \A u \in R : FALSE
  OBVIOUS
<1> HIDE DEF D, R, T
<1>11. Release(p, d, D, T, R)
  BY <1>2, <1>5, <1>6, <1>7, <1>8, <1>9, <1>10 DEF Release
<1> QED
  BY <1>1, <1>11, ReleaseKeeps

\* An auto-attach that begins keeps the invariant.
LEMMA tryAutoAttachKeeps ==
  ASSUME IndInv, NEW t \in Threads, tryAutoAttach(t)
  PROVE  IndInv'
<1> DEFINE p == ProcOf[t]
           c == proc[p]
           d == [c EXCEPT !.busy = TRUE]
<1>1. p \in Procs /\ c \in Client /\ Sheds(c, c, {})
  BY PointerFacts, ClientFacts
<1>2. PICK s \in Guess : thr' = [thr EXCEPT ![t] = Attaching(t, "auto", s)]
  BY DEF tryAutoAttach
<1>3. /\ Calls(t) /\ proc' = [proc EXCEPT ![p].busy = TRUE]
      /\ UNCHANGED <<host, file, made, refs>>
  BY DEF tryAutoAttach
<1>4. proc' = [proc EXCEPT ![p] = d]
  BY <1>1, <1>3 DEF IndInv, TypeOK
<1>5. /\ d \in Client /\ d.route = c.route /\ d.selected = c.selected
      /\ d.epoch = c.epoch /\ d.torn = c.torn
  BY <1>1 DEF Client
<1> HIDE DEF c, d
<1>6. Sheds(c, d, {})
  BY <1>1, <1>5, SameRoutes
<1>7. s \in Sessions
  BY DEF Guess, Matching
<1>8. thr[t].stage = "idle" /\ calls' \in 0..MaxCalls
  BY <1>3, CallsFacts
<1> DEFINE k == Attaching(t, "auto", s)
<1>9. k \in Thread /\ k.stage = "begin" /\ ~k.undone /\ k.session = s /\ k.leaving = {}
  BY <1>7, <1>8, AttachingFacts
<1>10. thr' = [thr EXCEPT ![t] = k]
  BY <1>2
<1> HIDE DEF k
<1>11. thr[t].stage \notin Holding \union Closing
  BY <1>8 DEF Holding, Closing
<1> QED
  BY <1>3, <1>4, <1>5, <1>6, <1>7, <1>8, <1>9, <1>10, <1>11, CallEndsKeeps DEF c

-----------------------------------------------------------------------------
(* The end of an attach.                                                   *)

\* A client with its claim to auto-attach freed.
LEMMA FreeAutoFacts ==
  ASSUME NEW c \in Client, NEW t
  PROVE  LET d == FreeAuto(c, t)
         IN  /\ d \in Client /\ d.route = c.route /\ d.selected = c.selected
             /\ d.epoch = c.epoch /\ d.torn = c.torn
BY DEF FreeAuto, Client

\* What is left is closed, or the attach fails, and the thread's references go.
LEMMA AttachEndsKeeps ==
  ASSUME IndInv, NEW t \in Threads, AttachFails(t) \/ Disconnected(t)
  PROVE  IndInv'
<1> DEFINE p == ProcOf[t]
           c == proc[p]
           d == FreeAuto(c, t)
<1>1. p \in Procs /\ c \in Client /\ Sheds(c, c, {})
  BY PointerFacts, ClientFacts
<1>2. /\ refs' = Unpoint({t}) /\ thr' = [thr EXCEPT ![t] = Idle]
      /\ proc' = [proc EXCEPT ![p] = d]
      /\ UNCHANGED <<host, file, made, calls>>
  BY DEF AttachFails, Disconnected
<1>3. /\ d \in Client /\ d.route = c.route /\ d.selected = c.selected
      /\ d.epoch = c.epoch /\ d.torn = c.torn
  BY <1>1, FreeAutoFacts
<1>4. calls' \in 0..MaxCalls
  BY <1>2 DEF IndInv, TypeOK
<1> HIDE DEF c, d
<1>5. Sheds(c, d, {})
  BY <1>1, <1>3, SameRoutes
<1> QED
  BY <1>2, <1>3, <1>4, <1>5, IdleFacts, CallEndsKeeps DEF c

\* A session is found, or the call to open a route is refused.
LEMMA OpenedKeeps ==
  ASSUME IndInv, NEW t \in Threads, SessionFound(t) \/ OpenRefused(t)
  PROVE  IndInv'
<1> DEFINE c == proc[ProcOf[t]]
<1>1. ProcOf[t] \in Procs /\ Sheds(c, c, {}) /\ c.epoch = c.epoch /\ c.torn = c.torn
  BY PointerFacts, ClientFacts
<1>2. /\ thr[t].stage = "dropping" /\ refs' = Unpoint({t})
      /\ UNCHANGED <<host, file, made, proc, calls>>
  BY DEF SessionFound, OpenRefused
<1>3. proc' = [proc EXCEPT ![ProcOf[t]] = c]
  BY <1>2 DEF IndInv, TypeOK
<1>4. calls' \in 0..MaxCalls
  BY <1>2 DEF IndInv, TypeOK
<1>5. CASE SessionFound(t)
  <2> DEFINE k == Attaching(t, thr[t].kind, thr[t].session)
  <2>1. thr' = [thr EXCEPT ![t] = k]
    BY <1>5 DEF SessionFound
  <2>2. thr[t].kind \in {"attach", "open", "auto"} /\ thr[t].session \in Sessions
    BY <1>2 DEF IndInv, TypeOK, Thread, HoldInv
  <2>3. /\ k \in Thread /\ k.stage = "begin" /\ ~k.undone /\ k.session \in Sessions
        /\ k.leaving = {}
    BY <1>2, <2>2, AttachingFacts
  <2> HIDE DEF k
  <2> QED
    BY <1>1, <1>2, <1>3, <1>4, <2>1, <2>3, CallEndsKeeps
<1>6. CASE OpenRefused(t)
  <2>1. thr' = [thr EXCEPT ![t] = Idle]
    BY <1>6 DEF OpenRefused
  <2> QED
    BY <1>1, <1>2, <1>3, <1>4, <2>1, IdleFacts, CallEndsKeeps
<1> QED
  BY <1>5, <1>6 DEF SessionFound, OpenRefused

\* An attach is overtaken, or finds a live route.
LEMMA AttachGivesUpKeeps ==
  ASSUME IndInv, NEW t \in Threads, AttachSuperseded(t) \/ AttachKeepsExisting(t)
  PROVE  IndInv'
<1> DEFINE p == ProcOf[t]
           c == proc[p]
           D == {s \in Sessions : FALSE}
           T == {u \in Threads : FALSE}
<1>1. p \in Procs /\ c \in Client /\ Sheds(c, c, {}) /\ D = {} /\ T = {}
  BY PointerFacts, ClientFacts
<1>2. /\ thr[t].stage = "commit" /\ thr' = [thr EXCEPT ![t] = GivingUp(t)]
      /\ UNCHANGED <<host, file, made, refs, calls>>
  BY DEF AttachSuperseded, AttachKeepsExisting
<1>3. /\ thr \in [Threads -> Thread] /\ thr[t] \in Thread /\ thr[t].session \in Sessions
      /\ refs \in [Inodes -> SUBSET Pointers] /\ calls \in 0..MaxCalls
      /\ proc \in [Procs -> Client]
  BY <1>2 DEF IndInv, TypeOK, HoldInv
<1>4. PICK e \in Client : /\ proc' = [proc EXCEPT ![p] = e]
                          /\ Sheds(c, e, {}) /\ e.epoch = c.epoch /\ e.torn = c.torn
  <2>1. CASE AttachSuperseded(t)
    <3>1. proc' = [proc EXCEPT ![p] = c]
      BY <1>3, <2>1 DEF AttachSuperseded
    <3> QED
      BY <1>1, <3>1
  <2>2. CASE AttachKeepsExisting(t)
    <3> DEFINE e == Selecting(c, t)
    <3>1. proc' = [proc EXCEPT ![p] = e] /\ thr[t].session \in Held(c)
      BY <2>2 DEF AttachKeepsExisting
    <3>2. /\ e \in Client /\ e.route = c.route /\ e.epoch = c.epoch /\ e.torn = c.torn
          /\ e.selected \in {c.selected, thr[t].session}
      BY <1>1, <1>3 DEF Selecting, Client
    <3> HIDE DEF e
    <3>3. e.selected \in Held(e) \union {NoSession}
      BY <1>1, <3>1, <3>2, ClientFacts DEF Held
    <3>4. Sheds(c, e, {})
      BY <3>2, <3>3 DEF Sheds
    <3> QED
      BY <3>1, <3>2, <3>4
  <2> QED
    BY <2>1, <2>2
<1>5. Ahead(proc[p], e)
  BY <1>1, <1>4, ClientFacts DEF Ahead
<1>6. GivesUp(t, T)
  <2> DEFINE k == GivingUp(t)
  <2>1. thr'[t] = k
    BY <1>2, <1>3
  <2>2. /\ k \in Thread /\ k.stage = "leaving" /\ ~k.undone
        /\ k.leaving = {thr[t].session}
    BY <1>3 DEF GivingUp, Thread
  <2> QED
    BY <1>1, <1>2, <2>1, <2>2 DEF GivesUp
<1>7. \A u \in Threads : u # t => Stays(u, T)
  BY <1>1, <1>2, <1>3 DEF Stays
<1>8. /\ refs' \in [Inodes -> SUBSET Pointers]
      /\ \A n \in Inodes : \A x :
           x \in refs'[n] <=> (x \in refs[n] /\ x \notin T /\ x \notin {p} \X D)
                              \/ (x \in T /\ \E s \in D : <<p, s>> \in refs[n])
  BY <1>2, <1>3
<1>9. /\ T \subseteq Threads /\ D \subseteq Sessions /\ \A u \in T : FALSE
      /\ DOMAIN thr' = Threads /\ thr' = [u \in Threads |-> thr'[u]]
  BY <1>2, <1>3
<1>10. Sheds(proc[p], e, D)
  BY <1>1, <1>4
<1> HIDE DEF p, D, T
<1>11. Release(p, e, D, T, T)
  BY <1>2, <1>3, <1>4, <1>5, <1>6, <1>7, <1>8, <1>9, <1>10 DEF Release
<1> QED
  BY <1>1, <1>11, ReleaseKeeps

\* A process ends, and a new one takes its place.
LEMMA ProcessEndsKeeps ==
  ASSUME IndInv, NEW p \in Procs, ProcessEnds(p)
  PROVE  IndInv'
<1> DEFINE T == {t \in Threads : ProcOf[t] = p}
           D == Sessions
<1>1. /\ calls < MaxCalls /\ calls' = calls + 1
      /\ proc' = [proc EXCEPT ![p] = NewClient]
      /\ refs' = Unpoint(T \union ({p} \X D))
      /\ thr' = [t \in Threads |-> IF t \in T THEN Idle ELSE thr[t]]
      /\ UNCHANGED <<host, file, made>>
  BY DEF ProcessEnds
<1>2. calls' \in 0..MaxCalls
  BY <1>1, SessionRoutesAssumption DEF IndInv, TypeOK
<1>3. Sheds(proc[p], NewClient, D)
  BY NewClientFacts DEF Sheds
<1> DEFINE R == {u \in Threads : FALSE}
<1>4. \A u \in Threads : \/ Rests(u, T)
                         \/ Stays(u, T) /\ ProcOf[u] # p
  BY <1>1, IdleFacts DEF Rests, Stays
<1>5. DOMAIN thr' = Threads /\ thr' = [u \in Threads |-> thr'[u]]
  BY <1>1
<1>8. /\ refs' \in [Inodes -> SUBSET Pointers]
      /\ \A n \in Inodes : \A x :
           x \in refs'[n] <=> (x \in refs[n] /\ x \notin T /\ x \notin {p} \X D)
                              \/ (x \in R /\ \E s \in D : <<p, s>> \in refs[n])
  BY <1>1 DEF Unpoint, IndInv, TypeOK
<1>9. \A u \in R : FALSE
  OBVIOUS
<1>6. T \subseteq Threads /\ R \subseteq Threads
  OBVIOUS
<1> HIDE DEF T, R
<1>7. Release(p, NewClient, D, T, R)
  BY <1>1, <1>2, <1>3, <1>4, <1>5, <1>6, <1>8, <1>9 DEF Release
<1> QED
  BY <1>7, ReleaseKeeps

\* The new route is installed with the lock its attach held.
LEMMA AttachInstallsKeeps ==
  ASSUME IndInv, NEW t \in Threads, AttachInstalls(t)
  PROVE  IndInv'
<1> DEFINE p == ProcOf[t]
           s == thr[t].session
           i == thr[t].inode
           c == proc[p]
           new == [lock |-> i, gen |-> c.next]
           b == [c EXCEPT !.route[s] = new, !.next = @ + 1]
           e == Selecting(b, t)
           d == FreeAuto(e, t)
<1>1. /\ p \in Procs /\ c \in Client /\ thr[t] \in Thread /\ thr[t].stage = "commit"
      /\ c.selected \in Held(c) \union {NoSession}
  BY PointerFacts, ClientFacts DEF AttachInstalls, IndInv, TypeOK
<1>2. s \in Sessions /\ i \in Inodes /\ t \in refs[i]
  BY <1>1 DEF IndInv, HoldInv, Locking, Holding, Closing
<1>3. /\ proc' = [proc EXCEPT ![p] = d]
      /\ refs' = [Unpoint({t, <<p, s>>}) EXCEPT ![i] = @ \union {<<p, s>>}]
      /\ thr' = [thr EXCEPT ![t] = Idle]
      /\ UNCHANGED <<host, file, made, calls>>
  BY DEF AttachInstalls
<1>4. new \in Route /\ new.lock = i /\ new # NoRoute
  BY <1>1, <1>2, SessionRoutesAssumption, NoRouteFacts DEF Route, Client
<1> HIDE DEF new
<1>5. /\ b \in Client /\ b.route = [c.route EXCEPT ![s] = new] /\ b.selected = c.selected
      /\ b.epoch = c.epoch /\ b.torn = c.torn
  <2>1. c.next + 1 \in Nat /\ b = [c EXCEPT !.route[s] = new, !.next = c.next + 1]
    BY <1>1 DEF Client
  <2> QED
    BY <1>1, <1>2, <1>4, <2>1 DEF Client
<1> HIDE DEF b
<1>6. /\ e \in Client /\ e.route = b.route /\ e.selected \in {c.selected, s}
      /\ e.epoch = c.epoch /\ e.torn = c.torn
  BY <1>2, <1>5 DEF Selecting, Client
<1> HIDE DEF e
<1>7. /\ d \in Client /\ d.route = b.route /\ d.selected \in {c.selected, s}
      /\ d.epoch = c.epoch /\ d.torn = c.torn
  BY <1>6, FreeAutoFacts
<1> HIDE DEF d
<1>8. /\ d.route[s] = new /\ \A r \in Sessions : r # s => d.route[r] = c.route[r]
  BY <1>1, <1>2, <1>5, <1>7 DEF Client
<1>9. /\ proc \in [Procs -> Client] /\ proc' \in [Procs -> Client] /\ proc'[p] = d
      /\ \A q \in Procs : q # p => proc'[q] = proc[q]
  BY <1>1, <1>3, <1>7 DEF IndInv, TypeOK
<1>10. \A q \in Procs, r \in Sessions :
         \/ q = p /\ r = s /\ proc'[q].route[r] = new
         \/ ~(q = p /\ r = s) /\ proc'[q].route[r] = proc[q].route[r]
  BY <1>8, <1>9
<1>11. thr'[t] = Idle /\ \A u \in Threads : u # t => thr'[u] = thr[u]
  BY <1>3 DEF IndInv, TypeOK
<1>12. \A n \in Inodes : \A x : x \in refs'[n] <=>
         \/ x \in refs[n] /\ x # t /\ x # <<p, s>>
         \/ n = i /\ x = <<p, s>>
  BY <1>2, <1>3 DEF Unpoint
<1> HIDE DEF p, s, i, c
<1>13. TypeOK'
  <2>1. <<p, s>> \in Pointers
    BY <1>1, <1>2 DEF Pointers
  <2>2. refs' \in [Inodes -> SUBSET Pointers]
    BY <1>2, <1>3, <2>1 DEF Unpoint, IndInv, TypeOK
  <2>3. thr' \in [Threads -> Thread]
    BY <1>3, IdleFacts DEF IndInv, TypeOK
  <2> QED
    BY <1>3, <1>9, <2>2, <2>3 DEF IndInv, TypeOK
<1>14. RouteInv'
  <2>1. \A q \in Procs, r \in Sessions : <<q, r>> # t /\ (<<q, r>> = <<p, s>> <=> q = p /\ r = s)
    BY PointerFacts
  <2>2. \A q \in Procs, r \in Sessions, n \in Inodes :
          <<q, r>> \in refs'[n] <=> IF q = p /\ r = s THEN n = i ELSE <<q, r>> \in refs[n]
    BY <1>12, <2>1
  <2> QED
    BY <1>2, <1>4, <1>10, <2>2 DEF IndInv, RouteInv
<1>21. TieInv'
  <2>1. made[i] = s
    BY <1>1, <1>2 DEF IndInv, TieInv, Locking, s, i
  <2>2. \A q \in Procs, r \in Sessions :
          proc'[q].route[r] # NoRoute => made[proc'[q].route[r].lock] = r
    BY <1>4, <1>10, <2>1 DEF IndInv, TieInv
  <2>3. \A u \in Threads, n \in Inodes : u \in refs'[n] => u \in refs[n]
    <3>1. \A u \in Threads : u # <<p, s>>
      BY <1>1, <1>2, PointerFacts
    <3> QED
      BY <1>12, <3>1
  <2>4. \A u \in Threads :
          /\ thr'[u].stage \in Locking \union Reaping => made[thr'[u].inode] = thr'[u].session
          /\ thr'[u].stage \in Closing =>
               \A n \in Inodes : u \in refs'[n] => made[n] \in thr'[u].leaving
    BY <1>11, <2>3, IdleFacts DEF IndInv, TieInv, Locking, Reaping, Closing
  <2> QED
    BY <1>3, <2>2, <2>4 DEF IndInv, TieInv
<1>15. HoldInv'
  <2>1. \A u \in Threads, n \in Inodes : u \in refs'[n] <=> u \in refs[n] /\ u # t
    <3>1. \A u \in Threads : u # <<p, s>>
      BY <1>1, <1>2, PointerFacts
    <3> QED
      BY <1>12, <3>1
  <2> QED
    BY <1>11, <2>1, IdleFacts DEF IndInv, HoldInv, Locking, Reaping, Holding, Closing
<1>16. ProcessInv'
  <2>1. \A x \in refs[i] : Owner(x) = p
    BY <1>2, PointerFacts DEF IndInv, ProcessInv, p
  <2>2. Owner(<<p, s>>) = p
    BY <1>1, <1>2, PointerFacts
  <2> QED
    BY <1>12, <2>1, <2>2 DEF IndInv, ProcessInv
<1>17. UpInv'
  <2>1. host[s] = "up" => i = file[s]
    BY <1>1, <1>2 DEF IndInv, UpInv, Locking, s, i
  <2> SUFFICES ASSUME NEW r \in Sessions, host[r] = "up"
               PROVE  /\ \A q \in Procs : proc'[q].route[r] # NoRoute
                                            => proc'[q].route[r].lock = file[r]
                      /\ \A u \in Threads : thr'[u].stage \in Locking /\ thr'[u].session = r
                                              => thr'[u].inode = file[r]
                      /\ \A u \in Threads : r \in thr'[u].leaving
                                              => file[r] \in Inodes /\ u \in refs'[file[r]]
    BY <1>3 DEF UpInv
  <2>2. /\ \A q \in Procs : proc[q].route[r] # NoRoute => proc[q].route[r].lock = file[r]
        /\ \A u \in Threads : thr[u].stage \in Locking /\ thr[u].session = r
                                => thr[u].inode = file[r]
        /\ \A u \in Threads : r \in thr[u].leaving => file[r] \in Inodes /\ u \in refs[file[r]]
    BY DEF IndInv, UpInv
  <2>3. \A q \in Procs : proc'[q].route[r] # NoRoute => proc'[q].route[r].lock = file[r]
    BY <1>4, <1>10, <2>1, <2>2
  <2>4. \A u \in Threads : thr'[u].stage \in Locking /\ thr'[u].session = r
                              => thr'[u].inode = file[r]
    BY <1>11, <2>2, IdleFacts DEF Locking
  <2>5. ASSUME NEW u \in Threads, r \in thr'[u].leaving
        PROVE  file[r] \in Inodes /\ u \in refs'[file[r]]
    <3>1. u # t
      BY <1>11, <2>5, IdleFacts
    <3>2. file[r] \in Inodes /\ u \in refs[file[r]]
      BY <1>11, <2>2, <2>5, <3>1
    <3>3. u # <<p, s>>
      BY <1>1, <1>2, PointerFacts
    <3> QED
      BY <1>12, <3>1, <3>2, <3>3
  <2> QED
    BY <2>3, <2>4, <2>5
<1>18. ReapInv'
  BY <1>3, <1>11, IdleFacts DEF IndInv, ReapInv, Reaping
<1>19. SelectedIsHeld'
  <2>1. d.selected \in Held(d) \union {NoSession}
    BY <1>1, <1>2, <1>4, <1>7, <1>8 DEF Held
  <2> QED
    BY <1>9, <2>1 DEF IndInv, SelectedIsHeld
<1>20. CounterInv'
  <2> SUFFICES ASSUME NEW u \in Threads
               PROVE  Behind(thr'[u], proc'[ProcOf[u]])
    BY DEF CounterInv
  <2>1. Behind(thr[u], proc[ProcOf[u]])
    BY DEF IndInv, CounterInv
  <2>2. ProcOf[u] \in Procs
    BY PointerFacts
  <2>3. CASE u = t
    BY <1>11, <2>3, IdleFacts DEF Behind, Flying
  <2>4. CASE u # t /\ ProcOf[u] # p
    BY <1>9, <1>11, <2>1, <2>2, <2>4
  <2>5. CASE u # t /\ ProcOf[u] = p
    <3>1. proc'[ProcOf[u]] = d /\ proc[ProcOf[u]] = c
      BY <1>9, <2>5 DEF c
    <3> QED
      BY <1>7, <1>11, <2>1, <2>5, <3>1 DEF Behind
  <2> QED
    BY <2>3, <2>4, <2>5
<1> QED
  BY <1>13, <1>14, <1>15, <1>16, <1>17, <1>18, <1>19, <1>20, <1>21 DEF IndInv

-----------------------------------------------------------------------------
(* The steps of one thread.                                                *)

\* What a thread that goes on without a new reference or a new lock file keeps.
LEMMA QuietMove ==
  ASSUME IndInv, NEW t \in Threads, NEW k \in Thread,
         k.stage \notin Closing, k.leaving = {}, thr[t].stage \notin Closing,
         thr' = [thr EXCEPT ![t] = k],
         UNCHANGED <<host, file, made, refs, proc>>, calls' \in 0..MaxCalls,
         \/ thr[t].stage \notin Holding /\ k.stage \notin Holding
         \/ thr[t].stage \in Holding /\ k.stage \in Holding /\ k.inode = thr[t].inode,
         k.stage \in Locking \union Reaping => k.inode \in Inodes /\ made[k.inode] = k.session,
         k.stage # "idle" => k.session \in Sessions,
         k.stage \in Locking /\ host[k.session] = "up" => k.inode = file[k.session],
         k.stage \in Reaping => host[k.session] \in {"retired", "exited"},
         Behind(k, proc[ProcOf[t]])
  PROVE  IndInv'
<1>1. \A n \in Inodes : t \in refs[n] <=> thr[t].stage \in Holding /\ n = thr[t].inode
  BY DEF IndInv, HoldInv
<1>2. \A n \in Inodes : t \in refs[n] => \A x \in refs[n] : Owner(x) = ProcOf[t]
  BY PointerFacts DEF IndInv, ProcessInv
<1>3. /\ refs' \in [Inodes -> SUBSET Pointers]
      /\ file' \in [Sessions -> Inodes \union {NoInode}]
      /\ made' \in [Inodes -> Sessions \union {NoSession}]
      /\ \A s \in Sessions : file'[s] # NoInode => made'[file'[s]] = s
  BY DEF IndInv, TypeOK, TieInv
<1>4. Move(t, k)
  BY <1>1, <1>2, <1>3 DEF Move
<1> QED
  BY <1>4, MoveKeeps

\* Taking and ending a lease on a route keep the invariant.
LEMMA LeaseKeeps ==
  ASSUME IndInv, NEW t \in Threads, (\E s \in Sessions : leaseFor(t, s)) \/ LeaseEnds(t)
  PROVE  IndInv'
<1>0. thr \in [Threads -> Thread] /\ thr[t] \in Thread
  BY DEF IndInv, TypeOK
<1>1. CASE \E s \in Sessions : leaseFor(t, s)
  <2>1. PICK s \in Sessions : leaseFor(t, s)
    BY <1>1
  <2> DEFINE g == proc[ProcOf[t]].route[s].gen
             k == [thr[t] EXCEPT !.stage = "leased", !.session = s, !.lease = g]
  <2>2. g \in Nat
    BY PointerFacts DEF IndInv, TypeOK, Client, Route
  <2>3. /\ Calls(t) /\ UNCHANGED <<host, file, made, refs, proc>>
        /\ thr' = [thr EXCEPT ![t] = k]
    BY <1>0, <2>1 DEF leaseFor
  <2>4. thr[t].stage = "idle" /\ calls' \in 0..MaxCalls
    BY <2>3, CallsFacts
  <2> HIDE DEF g
  <2>5. /\ k \in Thread /\ k.stage = "leased" /\ k.session = s
        /\ k.undone = thr[t].undone /\ k.leaving = {}
    <3>1. thr[t].leaving = {}
      BY <2>4 DEF IndInv, HoldInv, Closing
    <3> QED
      BY <1>0, <2>2, <3>1 DEF Thread
  <2> HIDE DEF k
  <2>6. Behind(k, proc[ProcOf[t]])
    <3>1. ~thr[t].undone
      BY <2>4 DEF IndInv, CounterInv, Behind, Flying
    <3>2. ~k.undone
      BY <2>5, <3>1, Zenon
    <3> QED
      BY <2>5, <3>2 DEF Behind, Flying
  <2> QED
    BY <2>3, <2>4, <2>5, <2>6, QuietMove DEF Holding, Locking, Reaping, Closing
<1>2. CASE LeaseEnds(t)
  <2>1. /\ thr[t].stage = "leased" /\ thr' = [thr EXCEPT ![t] = Idle]
        /\ UNCHANGED <<host, file, made, refs, proc, calls>>
    BY <1>2 DEF LeaseEnds
  <2>2. Behind(Idle, proc[ProcOf[t]])
    BY IdleFacts DEF Behind, Flying
  <2>3. calls' \in 0..MaxCalls
    BY <2>1 DEF IndInv, TypeOK
  <2> QED
    BY <2>1, <2>2, <2>3, IdleFacts, QuietMove DEF Holding, Locking, Reaping, Closing
<1> QED
  BY <1>1, <1>2

\* An attach reads the counters, and borrows a lock its process owns.
LEMMA AttachBeginsKeeps ==
  ASSUME IndInv, NEW t \in Threads, AttachBegins(t)
  PROVE  IndInv'
<1> DEFINE p == ProcOf[t]
           s == thr[t].session
           c == proc[p]
           n == c.route[s].lock
           k == [thr[t] EXCEPT !.stage = IF n = NoInode THEN "open" ELSE "connect",
                               !.inode = n, !.epoch = c.epoch, !.torn = c.torn[s]]
<1>1. /\ thr \in [Threads -> Thread] /\ thr[t] \in Thread /\ thr[t].stage = "begin"
      /\ s \in Sessions /\ p \in Procs /\ c \in Client
      /\ refs \in [Inodes -> SUBSET Pointers]
  BY PointerFacts DEF AttachBegins, IndInv, TypeOK, HoldInv
<1>2. n \in Inodes \union {NoInode} /\ c.epoch \in Nat /\ c.torn[s] \in Nat
  BY <1>1 DEF Client, Route
<1>3. /\ thr' = [thr EXCEPT ![t] = k]
      /\ refs' = IF n = NoInode THEN refs ELSE [refs EXCEPT ![n] = @ \union {t}]
      /\ UNCHANGED <<host, file, made, proc, calls>>
  BY <1>1 DEF AttachBegins
<1>4. c.route[s] # NoRoute <=> n # NoInode
  BY <1>1, NoRouteFacts, SessionRoutesAssumption DEF IndInv, RouteInv
<1>5. n # NoInode => <<p, s>> \in refs[n] /\ n \in Inodes
  BY <1>1, <1>2 DEF IndInv, RouteInv
<1>6. /\ host[s] = "up" /\ n # NoInode => n = file[s]
      /\ n # NoInode => made[n] = s
  BY <1>1, <1>4 DEF IndInv, UpInv, TieInv
<1> HIDE DEF n, c
<1>7. /\ k \in Thread /\ k.stage = (IF n = NoInode THEN "open" ELSE "connect") /\ k.inode = n
      /\ k.epoch = c.epoch /\ k.torn = c.torn[s] /\ k.session = s /\ k.undone = thr[t].undone
      /\ k.leaving = {}
  <2>1. thr[t].leaving = {}
    BY <1>1 DEF IndInv, HoldInv, Closing
  <2> QED
    BY <1>1, <1>2, <2>1 DEF Thread
<1> HIDE DEF k, s
<1>8. Behind(k, c)
  <2>1. ~thr[t].undone
    BY <1>1 DEF IndInv, CounterInv, Behind, Flying
  <2>2. ~k.undone
    BY <1>7, <2>1, Zenon
  <2> QED
    BY <1>2, <1>7, <2>2 DEF Behind, Flying
<1>9. \A x \in Inodes : t \notin refs[x]
  BY <1>1 DEF IndInv, HoldInv, Holding, Closing
<1>10. \A x \in Inodes : \A y : y \in refs'[x] <=> y \in refs[x] \/ (x = n /\ y = t)
  BY <1>1, <1>2, <1>3, SessionRoutesAssumption
<1>11. refs' \in [Inodes -> SUBSET Pointers]
  BY <1>1, <1>3, <1>5 DEF Pointers
<1>12. n # NoInode => \A y \in refs[n] : Owner(y) = ProcOf[t]
  BY <1>1, <1>5, PointerFacts DEF IndInv, ProcessInv
<1>13. \A x \in Inodes : t \in refs'[x] <=> k.stage \in Holding /\ x = k.inode
  BY <1>7, <1>9, <1>10, SessionRoutesAssumption DEF Holding
<1>14. \A x \in Inodes : t \in refs'[x] => \A y \in refs[x] : Owner(y) = ProcOf[t]
  BY <1>9, <1>10, <1>12, SessionRoutesAssumption
<1>15. \A x \in Inodes : \A y : y # t => (y \in refs'[x] <=> y \in refs[x])
  BY <1>10
<1>16. /\ file' \in [Sessions -> Inodes \union {NoInode}]
       /\ made' \in [Inodes -> Sessions \union {NoSession}]
       /\ \A x \in Sessions : file'[x] # NoInode => made'[file'[x]] = x
       /\ calls' \in 0..MaxCalls
  BY <1>3 DEF IndInv, TypeOK, TieInv
<1>17. /\ k.stage \in Locking \union Reaping => k.inode \in Inodes /\ made'[k.inode] = k.session
       /\ k.stage \notin Closing /\ thr[t].stage \notin Closing
       /\ k.stage \in Locking /\ host[k.session] = "up" => k.inode = file'[k.session]
       /\ k.stage \notin Reaping /\ k.session \in Sessions
  BY <1>1, <1>2, <1>3, <1>6, <1>7 DEF Locking, Reaping, Closing, s
<1>18. Move(t, k)
  BY <1>3, <1>7, <1>8, <1>11, <1>13, <1>14, <1>15, <1>16, <1>17 DEF Move, c
<1> QED
  BY <1>18, MoveKeeps

\* The lock file is opened: the one there is, or a new one.
LEMMA LockFileOpenedKeeps ==
  ASSUME IndInv, NEW t \in Threads, LockFileOpened(t)
  PROVE  IndInv'
<1> DEFINE s == thr[t].session
<1>1. /\ thr \in [Threads -> Thread] /\ thr[t] \in Thread /\ thr[t].stage = "open"
      /\ s \in Sessions /\ file \in [Sessions -> Inodes \union {NoInode}]
      /\ made \in [Inodes -> Sessions \union {NoSession}]
      /\ refs \in [Inodes -> SUBSET Pointers] /\ calls \in 0..MaxCalls
      /\ thr[t].leaving = {}
  BY DEF LockFileOpened, IndInv, TypeOK, HoldInv, Closing
<1>2. PICK n \in Inodes :
        /\ thr' = [thr EXCEPT ![t].stage = "lock", ![t].inode = n]
        /\ file' = [file EXCEPT ![s] = n] /\ file[s] \in {n, NoInode}
        /\ made[n] \in {s, NoSession} /\ made' = [made EXCEPT ![n] = s]
  <2>1. CASE file[s] # NoInode
    <3>1. made[file[s]] = s /\ file[s] \in Inodes
      BY <1>1, <2>1 DEF IndInv, TieInv
    <3> QED
      BY <1>1, <2>1, <3>1 DEF LockFileOpened
  <2>2. CASE file[s] = NoInode
    <3> DEFINE n == CHOOSE x \in Unmade : TRUE
    <3>1. /\ Unmade # {}
          /\ thr' = [thr EXCEPT ![t].stage = "lock", ![t].inode = n]
          /\ file' = [file EXCEPT ![s] = n] /\ made' = [made EXCEPT ![n] = s]
      BY <2>2 DEF LockFileOpened
    <3>2. n \in Unmade
      BY <3>1
    <3> HIDE DEF n
    <3>3. n \in Inodes /\ made[n] = NoSession
      BY <3>2 DEF Unmade
    <3> QED
      BY <1>1, <2>2, <3>1, <3>3
  <2> QED
    BY <2>1, <2>2
<1>3. UNCHANGED <<host, refs, proc, calls>>
  BY DEF LockFileOpened
<1> DEFINE k == [thr[t] EXCEPT !.stage = "lock", !.inode = n]
<1>4. thr' = [thr EXCEPT ![t] = k]
  BY <1>1, <1>2
<1>5. /\ k \in Thread /\ k.stage = "lock" /\ k.inode = n /\ k.session = s
      /\ k.undone = thr[t].undone /\ k.epoch = thr[t].epoch /\ k.torn = thr[t].torn
      /\ k.leaving = {}
  BY <1>1 DEF Thread
<1> HIDE DEF k, s
<1>6. Behind(k, proc[ProcOf[t]])
  BY <1>1, <1>5 DEF IndInv, CounterInv, Behind, Flying, s
<1>7. \A x \in Inodes : t \notin refs[x]
  BY <1>1 DEF IndInv, HoldInv, Holding, Closing
<1>8. /\ file' \in [Sessions -> Inodes \union {NoInode}] /\ file'[s] = n
      /\ \A r \in Sessions : file[r] \in {file'[r], NoInode}
      /\ \A r \in Sessions : r # s => file'[r] = file[r]
  BY <1>1, <1>2
<1>10. /\ made' \in [Inodes -> Sessions \union {NoSession}] /\ made'[n] = s
       /\ \A x \in Inodes : made[x] # NoSession => made'[x] = made[x]
  BY <1>1, <1>2
<1>11. ASSUME NEW r \in Sessions, file'[r] # NoInode
       PROVE  made'[file'[r]] = r
  <2>1. CASE r = s
    BY <1>8, <1>10, <2>1
  <2>2. CASE r # s
    <3>1. file'[r] = file[r] /\ file[r] \in Inodes /\ made[file[r]] = r
      BY <1>1, <1>8, <1>11, <2>2 DEF IndInv, TieInv
    <3> QED
      BY <1>10, <3>1, SessionRoutesAssumption
  <2> QED
    BY <2>1, <2>2
<1>9. Move(t, k)
  BY <1>1, <1>2, <1>3, <1>4, <1>5, <1>6, <1>7, <1>8, <1>10, <1>11
  DEF Move, Holding, Locking, Reaping, Closing
<1> QED
  BY <1>9, MoveKeeps

\* The lock of an inode nobody points to is taken, by an attach or to remove it.
LEMMA LockIsTaken ==
  ASSUME IndInv, NEW t \in Threads, NEW st \in {"connect", "reapRemove"},
         thr[t].stage = (IF st = "connect" THEN "lock" ELSE "reapLock"),
         refs[thr[t].inode] = {},
         refs' = [refs EXCEPT ![thr[t].inode] = {t}],
         thr' = [thr EXCEPT ![t].stage = st],
         UNCHANGED <<host, file, made, proc, calls>>
  PROVE  IndInv'
<1> DEFINE k == [thr[t] EXCEPT !.stage = st]
           i == thr[t].inode
<1>1. /\ thr \in [Threads -> Thread] /\ thr[t] \in Thread
      /\ refs \in [Inodes -> SUBSET Pointers] /\ calls \in 0..MaxCalls
      /\ file \in [Sessions -> Inodes \union {NoInode}]
      /\ made \in [Inodes -> Sessions \union {NoSession}]
      /\ \A s \in Sessions : file[s] # NoInode => made[file[s]] = s
  BY DEF IndInv, TypeOK, TieInv
<1>2. /\ i \in Inodes /\ thr[t].session \in Sessions /\ made[i] = thr[t].session
      /\ thr[t].leaving = {} /\ thr[t].stage \notin Closing
  BY DEF IndInv, HoldInv, TieInv, Locking, Reaping, Closing
<1>3. thr' = [thr EXCEPT ![t] = k]
  BY <1>1
<1>4. /\ k \in Thread /\ k.stage = st /\ k.inode = i /\ k.session = thr[t].session
      /\ k.undone = thr[t].undone /\ k.epoch = thr[t].epoch /\ k.torn = thr[t].torn
      /\ k.leaving = {}
  BY <1>1, <1>2 DEF Thread
<1> HIDE DEF k
<1>5. Behind(k, proc[ProcOf[t]])
  <2>1. Behind(thr[t], proc[ProcOf[t]])
    BY DEF IndInv, CounterInv
  <2>2. CASE st = "connect"
    BY <1>4, <2>1, <2>2 DEF Behind, Flying
  <2>3. CASE st = "reapRemove"
    <3>1. ~thr[t].undone
      BY <2>1, <2>3 DEF Behind, Flying
    <3>2. ~k.undone
      BY <1>4, <3>1, Zenon
    <3> QED
      BY <1>4, <2>3, <3>2 DEF Behind, Flying
  <2> QED
    BY <2>2, <2>3
<1>6. k.stage \in Locking /\ host[k.session] = "up" => k.inode = file[k.session]
  BY <1>2, <1>4 DEF IndInv, UpInv, Locking
<1>7. k.stage \in Reaping => host[k.session] \in {"retired", "exited"}
  BY <1>2, <1>4 DEF IndInv, ReapInv, Reaping
<1>8. \A n \in Inodes : t \notin refs[n]
  BY DEF IndInv, HoldInv, Holding, Closing
<1>9. \A n \in Inodes : \A x : x \in refs'[n] <=> IF n = i THEN x = t ELSE x \in refs[n]
  BY <1>1, <1>2
<1>10. refs' \in [Inodes -> SUBSET Pointers]
  BY <1>1, <1>2 DEF Pointers
<1>11. k.stage \in Holding /\ k.stage # "idle" /\ k.stage \notin Closing
  BY <1>4 DEF Holding, Closing
<1> HIDE DEF i
<1>12. /\ \A n \in Inodes : \A x : x # t => (x \in refs'[n] <=> x \in refs[n])
       /\ \A n \in Inodes : t \in refs'[n] <=> n = i
       /\ \A n \in Inodes : t \in refs'[n] => refs[n] = {}
  BY <1>8, <1>9 DEF i
<1>13. Move(t, k)
  BY <1>1, <1>2, <1>3, <1>4, <1>5, <1>6, <1>7, <1>10, <1>11, <1>12 DEF Move
<1> QED
  BY <1>13, MoveKeeps

\* LockTaken, Handshaken, and the removal of a lock file.
LEMMA LockStepKeeps ==
  ASSUME IndInv, NEW t \in Threads, LockTaken(t) \/ Handshaken(t) \/ ReapLocks(t)
  PROVE  IndInv'
<1>0. thr \in [Threads -> Thread] /\ thr[t] \in Thread /\ calls \in 0..MaxCalls
  BY DEF IndInv, TypeOK
<1>1. CASE LockTaken(t)
  BY <1>1, LockIsTaken DEF LockTaken
<1>2. CASE Handshaken(t)
  <2> DEFINE k == [thr[t] EXCEPT !.stage = "commit"]
  <2>1. /\ thr[t].stage = "connect" /\ thr' = [thr EXCEPT ![t] = k]
        /\ UNCHANGED <<host, file, made, refs, proc, calls>>
    BY <1>0, <1>2 DEF Handshaken
  <2>2. /\ k \in Thread /\ k.stage = "commit" /\ k.inode = thr[t].inode
        /\ k.session = thr[t].session
        /\ k.undone = thr[t].undone /\ k.epoch = thr[t].epoch /\ k.torn = thr[t].torn
        /\ k.leaving = {}
    <3>1. thr[t].leaving = {}
      BY <2>1 DEF IndInv, HoldInv, Closing
    <3> QED
      BY <1>0, <3>1 DEF Thread
  <2> HIDE DEF k
  <2>3. Behind(k, proc[ProcOf[t]])
    BY <2>1, <2>2 DEF IndInv, CounterInv, Behind, Flying
  <2>4. k.inode \in Inodes /\ k.session \in Sessions /\ made[k.inode] = k.session
    BY <2>1, <2>2 DEF IndInv, HoldInv, TieInv, Locking
  <2>5. host[k.session] = "up" => k.inode = file[k.session]
    BY <2>1, <2>2, <2>4 DEF IndInv, UpInv, Locking
  <2> QED
    BY <1>0, <2>1, <2>2, <2>3, <2>4, <2>5, QuietMove DEF Holding, Reaping, Closing
<1>3. CASE ReapLocks(t)
  <2>1. CASE thr' = [thr EXCEPT ![t] = Idle] /\ UNCHANGED refs
    <3>1. Behind(Idle, proc[ProcOf[t]])
      BY IdleFacts DEF Behind, Flying
    <3> QED
      BY <1>0, <1>3, <2>1, <3>1, IdleFacts, QuietMove
      DEF ReapLocks, Holding, Locking, Reaping, Closing
  <2>2. CASE /\ refs[thr[t].inode] = {}
             /\ refs' = [refs EXCEPT ![thr[t].inode] = {t}]
             /\ thr' = [thr EXCEPT ![t].stage = "reapRemove"]
    BY <1>3, <2>2, LockIsTaken DEF ReapLocks
  <2> QED
    BY <1>3, <2>1, <2>2 DEF ReapLocks
<1> QED
  BY <1>1, <1>2, <1>3

\* Beginning to reap a lock file keeps the invariant.
LEMMA ReapBeginsKeeps ==
  ASSUME IndInv, NEW t \in Threads, NEW s \in Sessions, ReapBegins(t, s)
  PROVE  IndInv'
<1> DEFINE k == [thr[t] EXCEPT !.stage = "reapLock", !.session = s, !.inode = file[s]]
<1>1. /\ thr \in [Threads -> Thread] /\ thr[t] \in Thread
      /\ file[s] \in Inodes /\ host[s] \in HostStates
  BY DEF IndInv, TypeOK, ReapBegins
<1>8. made[file[s]] = s
  BY <1>1, SessionRoutesAssumption DEF IndInv, TieInv
<1>2. Calls(t) /\ ~HasDescriptor(s) /\ UNCHANGED <<host, file, made, refs, proc>>
  BY DEF ReapBegins
<1>3. thr' = [thr EXCEPT ![t] = k]
  BY <1>1 DEF ReapBegins
<1>4. thr[t].stage = "idle" /\ calls' \in 0..MaxCalls
  BY <1>2, CallsFacts
<1>9. thr[t].leaving = {}
  BY <1>4 DEF IndInv, HoldInv, Closing
<1>5. /\ k \in Thread /\ k.stage = "reapLock" /\ k.session = s /\ k.inode = file[s]
      /\ k.undone = thr[t].undone /\ k.leaving = {}
  BY <1>1, <1>9 DEF Thread
<1> HIDE DEF k
<1>6. host[s] \in {"retired", "exited"}
  BY <1>1, <1>2 DEF HasDescriptor, HostStates
<1>7. Behind(k, proc[ProcOf[t]])
  <2>1. ~thr[t].undone
    BY <1>4 DEF IndInv, CounterInv, Behind, Flying
  <2>2. ~k.undone
    BY <1>5, <2>1, Zenon
  <2> QED
    BY <1>5, <2>2 DEF Behind, Flying
<1> QED
  BY <1>1, <1>2, <1>3, <1>4, <1>5, <1>6, <1>7, <1>8, QuietMove
  DEF Holding, Locking, Reaping, Closing

\* Removing a lock file keeps the invariant.
LEMMA ReapRemovesKeeps ==
  ASSUME IndInv, NEW t \in Threads, ReapRemoves(t)
  PROVE  IndInv'
<1> DEFINE s == thr[t].session
<1>1. /\ thr[t].stage = "reapRemove" /\ file' = [file EXCEPT ![s] = NoInode]
      /\ refs' = Unpoint({t}) /\ thr' = [thr EXCEPT ![t] = Idle]
      /\ UNCHANGED <<host, made, proc, calls>>
  BY DEF ReapRemoves
<1>2. s \in Sessions /\ host[s] \in {"retired", "exited"}
  BY <1>1 DEF IndInv, HoldInv, ReapInv, Reaping
<1> HIDE DEF s
<1>3. /\ file' \in [Sessions -> Inodes \union {NoInode}]
      /\ made' \in [Inodes -> Sessions \union {NoSession}]
      /\ \A r \in Sessions : file'[r] # NoInode => made[file'[r]] = r
      /\ calls' \in 0..MaxCalls /\ refs' \in [Inodes -> SUBSET Pointers]
      /\ \A r \in Sessions : host[r] = "up" => file'[r] = file[r]
  BY <1>1, <1>2 DEF IndInv, TypeOK, TieInv, Unpoint
<1>4. \A n \in Inodes : \A x : x \in refs'[n] <=> x \in refs[n] /\ x # t
  BY <1>1 DEF Unpoint
<1>5. Behind(Idle, proc[ProcOf[t]])
  BY IdleFacts DEF Behind, Flying
<1>6. Move(t, Idle)
  BY <1>1, <1>3, <1>4, <1>5, IdleFacts DEF Move, Holding, Locking, Reaping, Closing
<1> QED
  BY <1>6, MoveKeeps

-----------------------------------------------------------------------------
(* The theorems.                                                           *)

\* The invariant holds before anybody attaches.
LEMMA InitIndInv == Init => IndInv
<1> SUFFICES ASSUME Init PROVE IndInv
  OBVIOUS
<1>1. TypeOK
  BY NewClientFacts, IdleFacts, SessionRoutesAssumption DEF Init, TypeOK, HostStates
<1>2. /\ \A p \in Procs, s \in Sessions : proc[p].route[s] = NoRoute
      /\ \A p \in Procs : proc[p].selected = NoSession
      /\ \A t \in Threads : thr[t].stage = "idle" /\ ~thr[t].undone /\ thr[t].leaving = {}
      /\ \A n \in Inodes : refs[n] = {}
      /\ \A s \in Sessions : file[s] = NoInode
  BY NewClientFacts, IdleFacts DEF Init
<1>3. RouteInv /\ HoldInv /\ TieInv /\ ProcessInv
  BY <1>2, NoRouteFacts, SessionRoutesAssumption
  DEF RouteInv, HoldInv, TieInv, ProcessInv, Locking, Reaping, Holding, Closing
<1>4. UpInv /\ ReapInv /\ SelectedIsHeld /\ CounterInv
  BY <1>2 DEF UpInv, ReapInv, SelectedIsHeld, CounterInv, Behind, Locking, Reaping, Flying
<1> QED
  BY <1>1, <1>3, <1>4 DEF IndInv

\* Every step keeps the invariant.
LEMMA NextIndInv == IndInv /\ [Next]_vars => IndInv'
<1> SUFFICES ASSUME IndInv, [Next]_vars PROVE IndInv'
  OBVIOUS
<1>1. CASE \E t \in Threads : ThreadSteps(t)
  <2>1. PICK t \in Threads : ThreadSteps(t)
    BY <1>1
  <2> QED
    BY <2>1, disconnectKeeps, OneRouteKeeps, LeaseKeeps, tryAutoAttachKeeps,
       AttachBeginsKeeps, LockFileOpenedKeeps, LockStepKeeps, AttachGivesUpKeeps,
       AttachInstallsKeeps, ReapRemovesKeeps, ExitedKeeps, OpenedKeeps, AttachEndsKeeps
    DEF ThreadSteps
<1>2. ASSUME NEW t \in Threads, NEW s \in Sessions,
             \/ closeSessionRoute(t, s) \/ leaseFor(t, s) \/ ReapBegins(t, s)
             \/ openRoute(t, "attach", s) \/ openRoute(t, "open", s)
      PROVE  IndInv'
  BY <1>2, OneRouteKeeps, LeaseKeeps, ReapBeginsKeeps, openRouteKeeps
<1>3. ASSUME NEW p \in Procs, ProcessEnds(p)
      PROVE  IndInv'
  BY <1>3, ProcessEndsKeeps
<1>4. ASSUME NEW s \in Sessions,
             ServerStops(s) \/ DescriptorRetired(s) \/ EngineExits(s) \/ StaleDescriptorRetired(s)
      PROVE  IndInv'
  BY <1>4, HostKeeps
<1>5. CASE UNCHANGED vars
  BY <1>5 DEF vars, IndInv, TypeOK, RouteInv, HoldInv, TieInv, ProcessInv, UpInv, ReapInv,
              SelectedIsHeld, CounterInv
<1> QED
  BY <1>1, <1>2, <1>3, <1>4, <1>5 DEF Next

\* The invariant behind the others.
THEOREM RoutesInvariant == Spec => []IndInv
BY InitIndInv, NextIndInv, PTL DEF Spec

\* Whoever is on a running session points to the inode of its lock file.
LEMMA UsersLock ==
  ASSUME IndInv, NEW p \in Procs, NEW s \in Sessions, host[s] = "up", Uses(p, s)
  PROVE  /\ Locks(p, s) /\ file[s] \in Inodes
         /\ \E x \in refs[file[s]] : Owner(x) = p
<1>1. CASE s \in Held(proc[p])
  <2>1. proc[p].route[s].lock = file[s] /\ file[s] \in Inodes
    BY <1>1 DEF IndInv, UpInv, RouteInv, Held
  <2>2. <<p, s>> \in refs[file[s]]
    BY <2>1 DEF IndInv, RouteInv
  <2> QED
    BY <2>1, <2>2, PointerFacts DEF Locks
<1>2. ASSUME NEW t \in Threads, ProcOf[t] = p,
             \/ thr[t].stage \in {"connect", "commit"} /\ thr[t].session = s
             \/ s \in thr[t].leaving
      PROVE  file[s] \in Inodes /\ t \in refs[file[s]]
  <2>1. CASE thr[t].stage \in {"connect", "commit"} /\ thr[t].session = s
    <3>1. thr[t].inode = file[s] /\ thr[t].inode \in Inodes
      BY <2>1 DEF IndInv, UpInv, HoldInv, Locking
    <3> QED
      BY <2>1, <3>1 DEF IndInv, HoldInv, Holding, Closing
  <2>2. CASE s \in thr[t].leaving
    BY <2>2 DEF IndInv, UpInv
  <2> QED
    BY <1>2, <2>1, <2>2
<1>3. CASE s \notin Held(proc[p])
  <2>1. PICK t \in Threads : /\ ProcOf[t] = p
                             /\ \/ thr[t].stage \in {"connect", "commit"} /\ thr[t].session = s
                                \/ s \in thr[t].leaving
    BY <1>3 DEF Uses
  <2>2. file[s] \in Inodes /\ t \in refs[file[s]]
    BY <1>2, <2>1
  <2> QED
    BY <2>1, <2>2, PointerFacts DEF Locks
<1> QED
  BY <1>1, <1>3

\* Whoever points to the inode of a running session's lock file is on the session.
LEMMA LockersUse ==
  ASSUME IndInv, NEW p \in Procs, NEW s \in Sessions, host[s] = "up", Locks(p, s)
  PROVE  Uses(p, s)
<1>1. PICK n \in Inodes : /\ n = file[s]
                          /\ \/ \E r \in Sessions : <<p, r>> \in refs[n]
                             \/ \E t \in Threads : ProcOf[t] = p /\ t \in refs[n]
  BY DEF Locks
<1>2. made[n] = s
  BY <1>1, SessionRoutesAssumption DEF IndInv, TieInv
<1>3. CASE \E r \in Sessions : <<p, r>> \in refs[n]
  <2>1. PICK r \in Sessions : <<p, r>> \in refs[n]
    BY <1>3
  <2>2. proc[p].route[r].lock = n
    BY <2>1 DEF IndInv, RouteInv
  <2>3. proc[p].route[r] # NoRoute
    BY <2>2, NoRouteFacts, SessionRoutesAssumption
  <2>4. r = s
    BY <1>2, <2>2, <2>3 DEF IndInv, TieInv
  <2> QED
    BY <2>3, <2>4 DEF Uses, Held
<1>4. CASE \E t \in Threads : ProcOf[t] = p /\ t \in refs[n]
  <2>1. PICK t \in Threads : ProcOf[t] = p /\ t \in refs[n]
    BY <1>4
  <2>2. CASE thr[t].stage \in Closing
    <3>1. s \in thr[t].leaving
      BY <1>2, <2>1, <2>2 DEF IndInv, TieInv
    <3> QED
      BY <2>1, <3>1 DEF Uses
  <2>3. CASE thr[t].stage \notin Closing
    <3>1. thr[t].stage \in Holding /\ n = thr[t].inode
      BY <2>1, <2>3 DEF IndInv, HoldInv
    <3>2. thr[t].session = s
      BY <1>2, <3>1 DEF IndInv, TieInv, Holding, Locking, Reaping
    <3>3. thr[t].stage \notin Reaping
      BY <3>2 DEF IndInv, ReapInv
    <3> QED
      BY <2>1, <3>1, <3>2, <3>3 DEF Uses, Holding, Reaping
  <2> QED
    BY <2>2, <2>3
<1> QED
  BY <1>1, <1>3, <1>4

\* One server process at most is on a running session, by a route, a connection it is
\* making or one it has not closed yet (FileLock, attachDescriptorInner,
\* reapOrphanedSessionLock).
THEOREM SessionHasOneOwner == Spec => []OneOwner
<1>1. IndInv => OneOwner
  <2> SUFFICES ASSUME IndInv, NEW p \in Procs, NEW q \in Procs, NEW s \in Sessions,
                      host[s] = "up", Uses(p, s), Uses(q, s)
               PROVE  p = q
    BY DEF OneOwner
  <2>1. PICK x \in refs[file[s]] : Owner(x) = p
    BY UsersLock
  <2>2. PICK y \in refs[file[s]] : Owner(y) = q
    BY UsersLock
  <2>3. file[s] \in Inodes
    BY UsersLock
  <2> QED
    BY <2>1, <2>2, <2>3 DEF IndInv, ProcessInv
<1> QED
  BY <1>1, RoutesInvariant, PTL

\* The lock of a running session is held from before a process's first connection to
\* it until after its last (takeRouteLocked, attachDescriptorInner, FileLock).
THEOREM LocksFollowUse == Spec => []LockFollowsUse
<1>1. IndInv => LockFollowsUse
  BY UsersLock, LockersUse DEF LockFollowsUse
<1> QED
  BY <1>1, RoutesInvariant, PTL

\* The selected session is one the process holds a route to.
THEOREM SelectionIsHeld == Spec => []SelectedIsHeld
BY RoutesInvariant, PTL DEF IndInv

\* An attach that a deliberate release overtook does not bring the route back, and
\* does not select it (m_releaseEpoch, m_teardowns).
THEOREM ReleasesHold == Spec => ReleasedStaysReleased
<1>1. IndInv /\ [Next]_vars =>
        [\A t \in Threads : AttachInstalls(t) \/ AttachKeepsExisting(t) => ~thr[t].undone]_vars
  <2> SUFFICES ASSUME IndInv, NEW t \in Threads, AttachInstalls(t) \/ AttachKeepsExisting(t)
               PROVE  ~thr[t].undone
    OBVIOUS
  <2>1. thr[t].stage \in Flying /\ ~Superseded(t)
    BY DEF AttachInstalls, AttachKeepsExisting, Flying
  <2>2. /\ thr[t].epoch = proc[ProcOf[t]].epoch
        /\ thr[t].torn = proc[ProcOf[t]].torn[thr[t].session]
    BY <2>1 DEF Superseded
  <2>3. thr[t].epoch \in Nat /\ thr[t].torn \in Nat
    BY DEF IndInv, TypeOK, Thread
  <2> QED
    BY <2>1, <2>2, <2>3 DEF IndInv, CounterInv, Behind
<1> QED
  BY <1>1, RoutesInvariant, PTL DEF Spec, ReleasedStaysReleased
=============================================================================
