---------------------------- MODULE Tables_proofs ----------------------------
(***************************************************************************)
(* Theorems of the tables that many callers share: FileLocks, Records,       *)
(* Deadlines, Plugins and TenantStore, for any tasks, paths, callers, motions, *)
(* timers, plugins, administrators and visitors.                             *)
(***************************************************************************)
EXTENDS FileLocks, Records, Deadlines, Plugins, TenantStore, Operators_proofs

(***************************************************************************)
(* FileLocks, for any tasks and any paths.                                   *)
(***************************************************************************)

InSeq(s, t) == \E i \in 1..Len(s) : s[i] = t
Distinct(s) == \A i, j \in 1..Len(s) : s[i] = s[j] => i = j

\* What TableTruthful needs from step to step, path by path. The queue of a
\* lock: every task is in it once, its holder is not, whoever is in it was
\* refused and has got nothing since, and no reader waits for a reader.
QueueInv(p) == lock[p] # NoLock =>
    /\ Distinct(lock[p].waiting) /\ ~ InSeq(lock[p].waiting, lock[p].by)
    /\ \A t \in LockTasks : InSeq(lock[p].waiting, t) =>
           /\ p \in asking[t] \cup quit[t]
           /\ lock[p].mode = "read" => uses[t][p] # "read"

\* A lock to read is in the hands of who it records.
ReadLockInv(p) ==
    lock[p] # NoLock /\ lock[p].mode = "read" =>
        p \in granted[lock[p].by] /\ uses[lock[p].by][p] = "read"

\* A reader is recorded unless it has shared the path.
ReaderInv(p) == \A t \in LockTasks :
    p \in granted[t] /\ uses[t][p] = "read" /\ <<t, p>> \notin shared =>
        lock[p] # NoLock /\ lock[p].by = t
WriterInv(p) == \A t \in LockTasks :
    p \in granted[t] /\ uses[t][p] = "write" =>
        lock[p] # NoLock /\ lock[p].by = t /\ lock[p].mode = "write"
HolderInv(p) == lock[p] # NoLock =>
    p \in granted[lock[p].by] \cup asking[lock[p].by] \cup quit[lock[p].by]

PathInv(p) == QueueInv(p) /\ ReadLockInv(p) /\ ReaderInv(p) /\ WriterInv(p) /\ HolderInv(p)
LockInv == LockTypes /\ \A p \in Paths : PathInv(p)

-----------------------------------------------------------------------------
(* Queues.                                                                   *)

\* Nobody waits in an empty queue.
LEMMA EmptyQueue == Distinct(<<>>) /\ \A t : ~ InSeq(<<>>, t)
BY DEF Distinct, InSeq

\* Who is appended to a queue is in it, and nobody else comes in.
LEMMA AppendQueue ==
    ASSUME NEW S, NEW s \in Seq(S), NEW x \in S
    PROVE  /\ Append(s, x) \in Seq(S)
           /\ \A t : InSeq(Append(s, x), t) => InSeq(s, t) \/ t = x
           /\ Distinct(s) /\ ~ InSeq(s, x) => Distinct(Append(s, x))
BY DEF Distinct, InSeq

\* The head of a queue leaves it, and the others stay.
LEMMA PopQueue ==
    ASSUME NEW S, NEW s \in Seq(S), s # <<>>
    PROVE  /\ Head(s) \in S /\ Tail(s) \in Seq(S) /\ InSeq(s, Head(s))
           /\ \A t : InSeq(Tail(s), t) => InSeq(s, t)
           /\ Distinct(s) => Distinct(Tail(s)) /\ ~ InSeq(Tail(s), Head(s))
BY DEF Distinct, InSeq

-----------------------------------------------------------------------------
(* Steps.                                                                    *)

\* A path whose lock and users stay as they are.
LEMMA PathStays ==
    ASSUME LockTypes, NEW p \in Paths, PathInv(p), lock'[p] = lock[p], uses' = uses,
           \A t \in LockTasks : /\ p \in granted'[t] <=> p \in granted[t]
                                /\ p \in asking[t] \cup quit[t] => p \in asking'[t] \cup quit'[t]
                                /\ <<t, p>> \in shared => <<t, p>> \in shared'
    PROVE  PathInv(p)'
<1>1. lock[p] # NoLock => lock[p].by \in LockTasks
  BY DEF LockTypes, Locks
<1>2. QueueInv(p)'
  BY DEF QueueInv, PathInv
<1>3. ReadLockInv(p)' /\ HolderInv(p)'
  BY <1>1 DEF ReadLockInv, HolderInv, PathInv
<1>4. ReaderInv(p)' /\ WriterInv(p)'
  BY DEF ReaderInv, WriterInv, PathInv
<1> QED
  BY <1>2, <1>3, <1>4 DEF PathInv

\* What a task that has been granted a path finds in the table, and leaves to it.
Found(t, p) ==
    \/ lock[p] = NoLock
    \/ lock[p].by = t
    \/ lock[p].mode = "read" /\ uses[t][p] = "read"
Grants(t, p) ==
    /\ p \in granted'[t]
    /\ \A u \in LockTasks \ {t} : p \in granted'[u] <=> p \in granted[u]
    /\ \A u \in LockTasks \ {t} : p \in asking'[u] <=> p \in asking[u]
    /\ UNCHANGED <<uses, given, quit>>
    /\ \A u \in LockTasks : <<u, p>> \in shared \cup Sharing(t, p) => <<u, p>> \in shared'
    /\ \/ lock[p] # NoLock /\ lock'[p] = lock[p]
       \/ lock'[p] = New(t, p) /\ (lock[p] = NoLock \/ lock[p].by # t)

\* A lock that is granted as acquire grants it is in order.
LEMMA GrantKeeps ==
    ASSUME LockTypes, NEW t \in LockTasks, NEW p \in Paths, PathInv(p), Wants(t, p),
           Found(t, p), Grants(t, p)
    PROVE  PathInv(p)'
<1> USE LockAssumption DEF PathInv, Grants, Found
<1>0. uses[t][p] \in Modes /\ p \notin granted[t]
  BY DEF LockTypes, Wants
<1>1. /\ uses[t][p] \in Modes /\ p \notin granted[t]
      /\ New(t, p) # NoLock
      /\ New(t, p).by = t /\ New(t, p).mode = uses[t][p] /\ New(t, p).waiting = <<>>
      /\ lock[p] # NoLock => /\ lock[p].by \in LockTasks /\ lock[p].mode \in Modes
                             /\ lock[p].waiting \in Seq(LockTasks)
  <2>1. New(t, p) \in Locks
    BY <1>0 DEF New, Locks
  <2>2. lock[p] # NoLock => lock[p] \in Locks
    BY DEF LockTypes
  <2> QED
    BY <1>0, <2>1, <2>2 DEF New, Locks
<1>2. ~ InSeq(lock[p].waiting, t) \/ lock'[p] = New(t, p)
  BY <1>1 DEF QueueInv
<1>3. QueueInv(p)'
  <2>1. CASE lock'[p] = New(t, p)
    BY <1>1, <2>1, EmptyQueue DEF QueueInv
  <2>2. CASE lock[p] # NoLock /\ lock'[p] = lock[p] /\ ~ InSeq(lock[p].waiting, t)
    BY <1>1, <2>2 DEF QueueInv
  <2> QED
    BY <1>2, <2>1, <2>2
<1>4. ReadLockInv(p)' /\ HolderInv(p)'
  BY <1>1 DEF ReadLockInv, HolderInv
<1>5. WriterInv(p)'
  <2> SUFFICES ASSUME NEW u \in LockTasks, p \in granted'[u], uses[u][p] = "write"
               PROVE  lock'[p] # NoLock /\ lock'[p].by = u /\ lock'[p].mode = "write"
    BY DEF WriterInv
  <2>1. CASE u = t
    BY <1>1, <2>1 DEF ReadLockInv, Modes
  <2>2. CASE u # t
    BY <1>1, <2>2 DEF WriterInv, ReadLockInv
  <2> QED
    BY <2>1, <2>2
<1>6. ReaderInv(p)'
  <2> SUFFICES ASSUME NEW u \in LockTasks, p \in granted'[u], uses[u][p] = "read", <<u, p>> \notin shared'
               PROVE  lock'[p] # NoLock /\ lock'[p].by = u
    BY DEF ReaderInv
  <2>1. uses[t][p] = "read" => Readers(p) = {} \/ u \notin Readers(p) \cup {t}
    BY DEF Sharing
  <2>2. CASE u = t
    <3>1. lock[p] # NoLock => lock[p].by = t \/ lock[p].by \notin Readers(p)
      BY <1>1, <2>1, <2>2
    <3> QED
      BY <1>1, <2>2, <3>1 DEF ReadLockInv, Readers
  <2>3. CASE u # t
    <3>1. p \in granted[u] /\ <<u, p>> \notin shared /\ u \in Readers(p)
      BY <2>3 DEF Readers
    <3>2. lock[p] # NoLock /\ lock[p].by = u
      BY <3>1 DEF ReaderInv
    <3> QED
      BY <2>1, <2>3, <3>1, <3>2
  <2> QED
    BY <2>2, <2>3
<1> QED
  BY <1>3, <1>4, <1>5, <1>6

\* acquire_resource of one path.
LEMMA AcquireKeeps ==
    ASSUME LockInv, NEW t \in LockTasks, NEW p \in Paths, Acquire(t, p)
    PROVE  LockInv'
<1> USE DEF LockInv
<1>1. LockTypes'
  <2>1. New(t, p) \in Locks
    BY DEF Acquire, Wants, New, Locks, LockTypes
  <2>2. lock' \in [Paths -> {NoLock} \cup Locks]
    BY <2>1 DEF Acquire, AcquireFree, AcquireHeld, LockTypes
  <2>3. shared' \subseteq LockTasks \X Paths
    BY DEF Acquire, Sharing, Readers, LockTypes
  <2> QED
    BY <2>2, <2>3 DEF Acquire, LockTypes
<1>2. PathInv(p)'
  <2>1. Found(t, p)
    BY DEF Found, Acquire, AcquireFree, AcquireHeld, Compatible
  <2>2. Grants(t, p)
    BY DEF Grants, Acquire, AcquireFree, AcquireHeld, LockTypes
  <2> QED
    BY <2>1, <2>2, GrantKeeps DEF Acquire
<1>3. \A q \in Paths \ {p} : PathInv(q)'
  <2> TAKE q \in Paths \ {p}
  <2>1. lock'[q] = lock[q] /\ uses' = uses
    BY DEF Acquire, AcquireFree, AcquireHeld, LockTypes
  <2>2. \A u \in LockTasks : /\ q \in granted'[u] <=> q \in granted[u]
                             /\ q \in asking[u] \cup quit[u] => q \in asking'[u] \cup quit'[u]
                             /\ <<u, q>> \in shared => <<u, q>> \in shared'
    BY DEF Acquire, LockTypes
  <2> QED
    BY <2>1, <2>2, PathStays
<1> QED
  BY <1>1, <1>2, <1>3

\* acquire_resources: all the paths of a task or none.
LEMMA AcquireAllKeeps ==
    ASSUME LockInv, NEW t \in LockTasks, NEW ps \in SUBSET Paths, AcquireAll(t, ps)
    PROVE  LockInv'
<1> USE DEF LockInv
<1>1. LockTypes'
  <2>1. \A p \in ps : New(t, p) \in Locks /\ Sharing(t, p) \subseteq LockTasks \X Paths
    BY DEF AcquireAll, LockTypes, Wants, New, Locks, Modes, Sharing, Readers
  <2> QED
    BY <2>1 DEF AcquireAll, LockTypes
<1>2. ASSUME NEW p \in ps PROVE PathInv(p)'
  <2>1. Found(t, p)
    <3>1. lock[p] # NoLock => lock[p].mode \in Modes
      BY DEF LockTypes, Locks
    <3>2. uses[t][p] \in Modes
      BY DEF LockTypes, AcquireAll, Wants
    <3> QED
      BY <3>1, <3>2 DEF Found, AcquireAll, Refused, Modes
  <2>2. Grants(t, p)
    BY DEF Grants, AcquireAll, LockTypes
  <2> QED
    BY <2>1, <2>2, GrantKeeps DEF AcquireAll
<1>3. \A q \in Paths \ ps : PathInv(q)'
  <2> TAKE q \in Paths \ ps
  <2>1. lock'[q] = lock[q] /\ uses' = uses
    BY DEF AcquireAll
  <2>2. \A u \in LockTasks : /\ q \in granted'[u] <=> q \in granted[u]
                             /\ q \in asking[u] \cup quit[u] => q \in asking'[u] \cup quit'[u]
                             /\ <<u, q>> \in shared => <<u, q>> \in shared'
    BY DEF AcquireAll, LockTypes
  <2> QED
    BY <2>1, <2>2, PathStays
<1> QED
  BY <1>1, <1>2, <1>3

\* A task that was refused waits in the queue of the lock.
LEMMA QueueKeeps ==
    ASSUME LockInv, NEW t \in LockTasks, NEW p \in Paths, Queue(t, p)
    PROVE  LockInv'
<1> USE LockAssumption DEF LockInv
<1> DEFINE l == lock[p]
           m == lock'[p]
<1>1. /\ l \in Locks /\ l # NoLock /\ l.by # t /\ l.waiting \in Seq(LockTasks)
      /\ ~ Compatible(p, uses[t][p]) /\ Wants(t, p)
  BY DEF Queue, LockTypes, Locks
<1>2. lock' = IF Waits(t, p) THEN lock ELSE [lock EXCEPT ![p].waiting = Append(@, t)]
  BY DEF Queue
<1>3. Waits(t, p) <=> InSeq(l.waiting, t)
  BY <1>1 DEF Waits, InSeq
<1>4. /\ m \in Locks /\ m.by = l.by /\ m.mode = l.mode /\ m # NoLock
      /\ Distinct(l.waiting) => Distinct(m.waiting)
      /\ \A u \in LockTasks : InSeq(m.waiting, u) => InSeq(l.waiting, u) \/ u = t
  <2>1. CASE Waits(t, p)
    BY <1>1, <1>2, <2>1
  <2>2. CASE ~ Waits(t, p)
    <3>1. m = [l EXCEPT !.waiting = Append(@, t)]
      BY <1>2, <2>2 DEF LockTypes
    <3>2. /\ Append(l.waiting, t) \in Seq(LockTasks)
          /\ \A u : InSeq(Append(l.waiting, t), u) => InSeq(l.waiting, u) \/ u = t
          /\ Distinct(l.waiting) => Distinct(Append(l.waiting, t))
      BY <1>1, <1>3, <2>2, AppendQueue
    <3>3. m = [by |-> l.by, mode |-> l.mode, waiting |-> Append(l.waiting, t)]
      BY <1>1, <3>1 DEF Locks
    <3>4. m \in Locks
      BY <1>1, <3>2, <3>3 DEF Locks
    <3> QED
      BY <3>2, <3>3, <3>4
  <2> QED
    BY <2>1, <2>2
<1>5. \A q \in Paths \ {p} : lock'[q] = lock[q]
  BY <1>2 DEF LockTypes
<1>6. LockTypes'
  <2>1. lock' \in [Paths -> {NoLock} \cup Locks]
    BY <1>1, <1>2, <1>4 DEF LockTypes
  <2> QED
    BY <2>1 DEF Queue, LockTypes
<1>7. UNCHANGED <<uses, granted, quit, shared>> /\ asking' = [asking EXCEPT ![t] = @ \cup {p}]
  BY DEF Queue
<1>8. PathInv(p)'
  <2>1. QueueInv(p)'
    <3>1. l.by \in LockTasks /\ ~ InSeq(m.waiting, l.by)
      BY <1>1, <1>4 DEF PathInv, QueueInv, Locks
    <3>2. ASSUME NEW u \in LockTasks, InSeq(m.waiting, u)
          PROVE  p \in asking'[u] \cup quit'[u] /\ (l.mode = "read" => uses[u][p] # "read")
      <4>1. CASE u = t
        BY <1>1, <1>7, <4>1 DEF Compatible, LockTypes
      <4>2. CASE u # t
        BY <1>1, <1>4, <1>7, <3>2, <4>2 DEF PathInv, QueueInv, LockTypes
      <4> QED
        BY <4>1, <4>2
    <3> QED
      BY <1>1, <1>4, <1>7, <3>1, <3>2 DEF PathInv, QueueInv
  <2>2. ReadLockInv(p)' /\ ReaderInv(p)' /\ WriterInv(p)'
    BY <1>1, <1>4, <1>7 DEF PathInv, ReadLockInv, ReaderInv, WriterInv
  <2>3. HolderInv(p)'
    BY <1>1, <1>4, <1>7 DEF PathInv, HolderInv, LockTypes, Locks
  <2> QED
    BY <2>1, <2>2, <2>3 DEF PathInv
<1>9. \A q \in Paths \ {p} : PathInv(q)'
  BY <1>5, <1>7, PathStays DEF LockTypes
<1> QED
  BY <1>6, <1>8, <1>9

\* A task that gives a path back, and what becomes of a lock in its name.
LEMMA GiveBackKeeps ==
    ASSUME LockTypes, NEW t \in LockTasks, NEW p \in Paths, PathInv(p),
           p \notin granted'[t], UNCHANGED <<uses, asking, quit, shared>>,
           \A u \in LockTasks \ {t} : p \in granted'[u] <=> p \in granted[u],
           IF lock[p] # NoLock /\ lock[p].by = t
             THEN lock'[p] \in {HandOver(p), NoLock} ELSE lock'[p] = lock[p]
    PROVE  PathInv(p)'
<1> USE LockAssumption DEF PathInv
<1>1. lock[p] # NoLock => lock[p] \in Locks /\ lock[p].by \in LockTasks /\ lock[p].waiting \in Seq(LockTasks)
  BY DEF LockTypes, Locks
<1>2. CASE lock[p] = NoLock \/ lock[p].by # t
  <2>1. lock'[p] = lock[p]
    BY <1>2
  <2> QED
    BY <1>1, <1>2, <2>1 DEF QueueInv, ReadLockInv, ReaderInv, WriterInv, HolderInv
<1>3. CASE lock[p] # NoLock /\ lock[p].by = t
  <2> DEFINE w == lock[p].waiting
  <2>1. \A u \in LockTasks : p \notin granted'[u] \/ uses[u][p] # "write"
    BY <1>3 DEF WriterInv
  <2>2. \A u \in LockTasks : p \in granted'[u] /\ uses[u][p] = "read" => <<u, p>> \in shared
    BY <1>3 DEF ReaderInv
  <2>3. ReaderInv(p)' /\ WriterInv(p)'
    BY <2>1, <2>2 DEF ReaderInv, WriterInv
  <2>4. CASE lock'[p] = NoLock
    BY <2>3, <2>4 DEF QueueInv, ReadLockInv, HolderInv
  <2>5. CASE lock'[p] = HandOver(p) /\ w # <<>>
    <3>1. /\ lock'[p] = [by |-> Head(w), mode |-> "write", waiting |-> Tail(w)]
          /\ Head(w) \in LockTasks /\ InSeq(w, Head(w))
          /\ \A u : InSeq(Tail(w), u) => InSeq(w, u)
          /\ Distinct(w) => Distinct(Tail(w)) /\ ~ InSeq(Tail(w), Head(w))
      BY <1>1, <1>3, <2>5, PopQueue DEF HandOver
    <3>2. QueueInv(p)' /\ ReadLockInv(p)'
      BY <1>3, <3>1 DEF QueueInv, ReadLockInv
    <3>3. HolderInv(p)'
      <4>1. p \in asking[Head(w)] \cup quit[Head(w)]
        BY <1>3, <3>1 DEF QueueInv
      <4>2. lock'[p].by = Head(w)
        BY <3>1
      <4> HIDE DEF w
      <4>3. p \in asking'[Head(w)] \cup quit'[Head(w)]
        BY <4>1
      <4> QED
        BY <4>2, <4>3 DEF HolderInv
    <3> QED
      BY <2>3, <3>2, <3>3
  <2> QED
    BY <1>3, <2>4, <2>5 DEF HandOver
<1> QED
  BY <1>2, <1>3

\* release_resource: the first of the queue is next.
LEMMA ReleaseKeeps ==
    ASSUME LockInv, NEW t \in LockTasks, NEW p \in Paths, Release(t, p)
    PROVE  LockInv'
<1> USE DEF LockInv
<1>1. LockTypes'
  <2>1. HandOver(p) \in {NoLock} \cup Locks \/ lock' = lock
    <3>1. CASE lock[p] # NoLock
      <4>1. lock[p].waiting \in Seq(LockTasks)
        BY <3>1 DEF LockTypes, Locks
      <4>2. lock[p].waiting # <<>> =>
                /\ Head(lock[p].waiting) \in LockTasks /\ Tail(lock[p].waiting) \in Seq(LockTasks)
        BY <4>1, PopQueue
      <4> QED
        BY <4>2 DEF HandOver, Locks, Modes
    <3>2. CASE lock[p] = NoLock
      BY <3>2 DEF Release
    <3> QED
      BY <3>1, <3>2
  <2>2. lock' \in [Paths -> {NoLock} \cup Locks]
    BY <2>1 DEF Release, LockTypes
  <2> QED
    BY <2>2 DEF Release, LockTypes
<1>2. PathInv(p)'
  <2>1. /\ p \notin granted'[t] /\ UNCHANGED <<uses, asking, quit, shared>>
        /\ \A u \in LockTasks \ {t} : p \in granted'[u] <=> p \in granted[u]
    BY DEF Release, LockTypes
  <2>2. IF lock[p] # NoLock /\ lock[p].by = t
          THEN lock'[p] \in {HandOver(p), NoLock} ELSE lock'[p] = lock[p]
    BY DEF Release, LockTypes
  <2> QED
    BY <2>1, <2>2, GiveBackKeeps
<1>3. \A q \in Paths \ {p} : PathInv(q)'
  <2> TAKE q \in Paths \ {p}
  <2>1. lock'[q] = lock[q] /\ UNCHANGED <<uses, asking, quit, shared>>
    BY DEF Release, LockTypes
  <2>2. \A u \in LockTasks : q \in granted'[u] <=> q \in granted[u]
    BY DEF Release, LockTypes
  <2> QED
    BY <2>1, <2>2, PathStays
<1> QED
  BY <1>1, <1>2, <1>3

\* release_all_for_task.
LEMMA ReleaseAllKeeps ==
    ASSUME LockInv, NEW t \in LockTasks, ReleaseAll(t)
    PROVE  LockInv'
<1> USE DEF LockInv
<1>1. LockTypes'
  BY DEF ReleaseAll, LockTypes
<1>2. ASSUME NEW p \in Paths PROVE PathInv(p)'
  <2>1. /\ p \notin granted'[t] /\ UNCHANGED <<uses, asking, quit, shared>>
        /\ \A u \in LockTasks \ {t} : p \in granted'[u] <=> p \in granted[u]
    BY DEF ReleaseAll, LockTypes
  <2>2. IF lock[p] # NoLock /\ lock[p].by = t
          THEN lock'[p] \in {HandOver(p), NoLock} ELSE lock'[p] = lock[p]
    BY DEF ReleaseAll
  <2> QED
    BY <2>1, <2>2, GiveBackKeeps
<1> QED
  BY <1>1, <1>2

\* A task that no longer waits stays in the queue.
LEMMA GiveUpKeeps ==
    ASSUME LockInv, NEW t \in LockTasks, NEW p \in Paths, GiveUp(t, p)
    PROVE  LockInv'
<1> USE DEF LockInv
<1>1. LockTypes'
  BY DEF GiveUp, LockTypes
<1>2. \A q \in Paths, u \in LockTasks :
          q \in asking[u] \cup quit[u] => q \in asking'[u] \cup quit'[u]
  BY DEF GiveUp, LockTypes
<1>3. \A q \in Paths : PathInv(q)'
  BY <1>2, PathStays DEF GiveUp
<1> QED
  BY <1>1, <1>3

-----------------------------------------------------------------------------
\* The invariant holds in every state, and TableTruthful follows from it.
LEMMA LockSafe == LockSpec => []LockInv
<1>1. LockInit => LockInv
  <2> SUFFICES ASSUME LockInit PROVE LockInv
    OBVIOUS
  <2>1. LockTypes
    BY DEF LockInit, LockTypes
  <2> QED
    BY <2>1 DEF LockInit, LockInv, PathInv, QueueInv, ReadLockInv, ReaderInv, WriterInv, HolderInv
<1>2. LockInv /\ [LockNext]_lockVars => LockInv'
  <2> SUFFICES ASSUME LockInv, [LockNext]_lockVars PROVE LockInv'
    OBVIOUS
  <2>1. CASE UNCHANGED lockVars
    <3>1. LockTypes'
      BY <2>1 DEF lockVars, LockInv, LockTypes
    <3>2. \A p \in Paths : PathInv(p)'
      BY <2>1, PathStays DEF lockVars, LockInv
    <3> QED
      BY <3>1, <3>2 DEF LockInv
  <2>2. CASE LockNext
    <3> PICK t \in LockTasks :
            \/ \E p \in Paths : Acquire(t, p) \/ Queue(t, p) \/ Release(t, p) \/ GiveUp(t, p)
            \/ \E ps \in SUBSET Paths : AcquireAll(t, ps)
            \/ ReleaseAll(t)
      BY <2>2 DEF LockNext
    <3> QED
      BY AcquireKeeps, QueueKeeps, ReleaseKeeps, GiveUpKeeps, AcquireAllKeeps, ReleaseAllKeeps
  <2> QED
    BY <2>1, <2>2
<1> QED
  BY <1>1, <1>2, PTL DEF LockSpec

\* What the table says of each path is what TableTruthful says.
LEMMA InvIsTruthful == LockInv => TableTruthful
<1> SUFFICES ASSUME LockInv PROVE TableTruthful
  OBVIOUS
<1>1. WriterRecorded
  BY DEF LockInv, PathInv, WriterInv, WriterRecorded, Uses
<1>2. OnlySharersMeetWriters
  <2> SUFFICES ASSUME NEW t \in LockTasks, NEW u \in LockTasks, NEW p \in Paths,
                      Uses(t, p, "read"), Uses(u, p, "write"), <<t, p>> \notin shared
               PROVE  FALSE
    BY DEF OnlySharersMeetWriters
  <2>1. lock[p].by = t /\ lock[p].by = u
    BY DEF LockInv, PathInv, ReaderInv, WriterInv, Uses
  <2> QED
    BY <2>1 DEF Uses
<1>3. LockAccounted
  BY DEF LockInv, PathInv, HolderInv, LockAccounted
<1> QED
  BY <1>1, <1>2, <1>3 DEF TableTruthful

\* Whoever writes is recorded and writes alone, a reader meets a writer only if it
\* has shared the path with another reader, and no lock is left behind by a task
\* that has given it back (task_resource.py:23-63, task_resource_compat.py:11-35).
THEOREM TableIsTruthful == LockSpec => []TableTruthful
BY LockSafe, InvIsTruthful, PTL

(***************************************************************************)
(* Records, for any number of callers.                                       *)
(***************************************************************************)

\* The shape of the rows and of the calls, which is all the proof needs of types.
CallTypes ==
    /\ storing = [c \in Callers |-> storing[c]]
    /\ \A c \in Callers :
           /\ storing[c] = [op |-> storing[c].op, at |-> storing[c].at, read |-> storing[c].read]
           /\ storing[c].op \in Ops \cup {"none", "hold"}
RowTypes == session = [notes |-> session.notes, outcome |-> session.outcome]

\* Two calls of one kind that are both between read and write have met.
TogetherMet == \A op \in Ops : \A c, d \in Open(op) : c # d => c \in met

\* What a call that has met nobody has read of its row is still so: the row is
\* there or not, and every note that is safe is in the list it will write.
SameRow == \A c \in Open("put") \ met : storing[c].read = {} <=> artifact = Nobody
SomeLock == \A c \in Open("wait") \ met : locks # <<>>
NotesRead == \A c \in Callers \ met : storing[c].op = "note" /\ storing[c].at = "done" =>
                 \A d \in Open("note") : c \in storing[d].read

RecordInv ==
    CallTypes /\ RowTypes /\ TogetherMet /\ SameRow /\ SomeLock /\ NotesRead /\ LostToRacesOnly

-----------------------------------------------------------------------------
\* What a read and the end of a call do to the calls.
LEMMA ReadsOne ==
    ASSUME CallTypes, NEW c \in Callers, NEW op \in Ops, NEW value, Reads(c, op, value)
    PROVE  /\ CallTypes'
           /\ storing'[c] = [op |-> op, at |-> "read", read |-> value]
           /\ \A d \in Callers \ {c} : storing'[d] = storing[d]
           /\ Open(op)' = Open(op) \cup {c} /\ \A o \in Ops : c \notin Open(o)
           /\ \A o \in Ops \ {op} : Open(o)' = Open(o)
           /\ met \subseteq met'
           /\ Open(op) # {} => Open(op) \cup {c} \subseteq met'
<1>1. /\ storing'[c] = [op |-> op, at |-> "read", read |-> value]
      /\ \A d \in Callers \ {c} : storing'[d] = storing[d]
      /\ storing[c].at = "new"
      /\ storing' = [d \in Callers |-> storing'[d]]
  BY DEF Reads, NotCalled, CallTypes
<1>2. CallTypes'
  BY <1>1 DEF CallTypes
<1>3. Open(op)' = Open(op) \cup {c} /\ \A o \in Ops : c \notin Open(o)
  BY <1>1 DEF Open
<1>4. \A o \in Ops \ {op} : Open(o)' = Open(o)
  BY <1>1 DEF Open
<1>5. met \subseteq met' /\ (Open(op) # {} => Open(op) \cup {c} \subseteq met')
  BY <1>3 DEF Reads, Meets
<1> QED
  BY <1>1, <1>2, <1>3, <1>4, <1>5

\* A call that ends changes nothing but where it is.
LEMMA EndsOne ==
    ASSUME CallTypes, NEW op \in Ops, NEW c \in Open(op), NEW how \in {"done", "lost", "raised"},
           Ends(c, how)
    PROVE  /\ CallTypes'
           /\ storing'[c] = [op |-> op, at |-> how, read |-> storing[c].read]
           /\ \A d \in Callers \ {c} : storing'[d] = storing[d]
           /\ Open(op)' = Open(op) \ {c}
           /\ \A o \in Ops \ {op} : Open(o)' = Open(o)
BY DEF Ends, Open, CallTypes

\* A call that begins: those of its kind that are open meet it.
LEMMA ReadKeeps ==
    ASSUME RecordInv, NEW c \in Callers, NEW op \in Ops, NEW value, Reads(c, op, value),
           UNCHANGED <<session, artifact, locks>>,
           op = "note" => value = session.notes,
           op = "put" => (value = {} <=> artifact = Nobody),
           op = "wait" => locks # <<>>
    PROVE  RecordInv'
<1> USE DEF RecordInv
<1>1. /\ CallTypes'
      /\ storing'[c] = [op |-> op, at |-> "read", read |-> value]
      /\ \A d \in Callers \ {c} : storing'[d] = storing[d]
      /\ Open(op)' = Open(op) \cup {c} /\ \A o \in Ops : c \notin Open(o)
      /\ \A o \in Ops \ {op} : Open(o)' = Open(o)
      /\ met \subseteq met'
      /\ Open(op) # {} => Open(op) \cup {c} \subseteq met'
  BY ReadsOne
<1>2. \A o \in Ops : Open(o) \subseteq Callers
  BY DEF Open
<1>3. TogetherMet'
  BY <1>1, <1>2 DEF TogetherMet
<1>4. ASSUME NEW o \in Ops, NEW d \in Open(o)', d \notin met'
      PROVE  /\ d = c => o = op
             /\ d # c => d \in Open(o) /\ d \notin met /\ storing'[d] = storing[d]
  BY <1>1, <1>2, <1>4
<1>5. SameRow'
  <2> SUFFICES ASSUME NEW d \in Open("put")', d \notin met'
               PROVE  storing'[d].read = {} <=> artifact = Nobody
    BY DEF SameRow
  <2>1. "put" \in Ops
    BY DEF Ops
  <2> QED
    BY <2>1, <1>1, <1>4 DEF SameRow
<1>6. SomeLock'
  <2> SUFFICES ASSUME NEW d \in Open("wait")', d \notin met'
               PROVE  locks # <<>>
    BY DEF SomeLock
  <2>1. "wait" \in Ops
    BY DEF Ops, Lists
  <2> QED
    BY <2>1, <1>4 DEF SomeLock
<1>7. NotesRead'
  <2> SUFFICES ASSUME NEW d \in Callers, d \notin met',
                      storing'[d].op = "note", storing'[d].at = "done",
                      NEW e \in Open("note")'
               PROVE  d \in storing'[e].read
    BY DEF NotesRead
  <2>1. d # c /\ d \notin met /\ storing'[d] = storing[d]
    BY <1>1
  <2>2. d \in session.notes
    BY <2>1 DEF LostToRacesOnly
  <2>3. CASE e = c
    BY <2>3, <2>2, <1>1 DEF Open
  <2>4. CASE e # c
    <3>1. e \in Open("note") /\ storing'[e] = storing[e]
      BY <2>4, <1>1, <1>2 DEF Ops, Lists, Open
    <3> QED
      BY <3>1, <2>1 DEF NotesRead
  <2> QED
    BY <2>3, <2>4
<1>8. LostToRacesOnly'
  BY <1>1 DEF LostToRacesOnly
<1> QED
  BY <1>1, <1>3, <1>5, <1>6, <1>7, <1>8 DEF RowTypes

\* A call that ends, with what it has written.
LEMMA EndKeeps ==
    ASSUME RecordInv, NEW op \in Ops, NEW c \in Open(op), NEW how \in {"done", "lost", "raised"},
           Ends(c, how), UNCHANGED met, RowTypes',
           c \notin met => how = "done",
           session'.notes = IF op = "note" THEN storing[c].read \cup {c} ELSE session.notes,
           op # "put" => artifact' = artifact,
           op # "wait" => locks' = locks
    PROVE  RecordInv'
<1> USE DEF RecordInv
<1>1. /\ CallTypes'
      /\ storing'[c] = [op |-> op, at |-> how, read |-> storing[c].read]
      /\ \A d \in Callers \ {c} : storing'[d] = storing[d]
      /\ Open(op)' = Open(op) \ {c}
      /\ \A o \in Ops \ {op} : Open(o)' = Open(o)
  BY EndsOne
<1>2. \A o \in Ops : Open(o) \subseteq Callers
  BY DEF Open
<1>3. TogetherMet'
  BY <1>1 DEF TogetherMet
<1>4. \A d \in Open(op) \ {c} : d \in met
  BY DEF TogetherMet
<1>5. SameRow' /\ SomeLock'
  BY <1>1, <1>2, <1>4 DEF SameRow, SomeLock, Ops, Lists
<1>6. NotesRead'
  BY <1>1, <1>2, <1>4 DEF NotesRead, TogetherMet, Ops, Lists
<1>7. LostToRacesOnly'
  <2>1. ASSUME NEW d \in Callers \ met, d # c
        PROVE  /\ storing'[d].at \notin {"lost", "raised"}
               /\ storing'[d].op = "note" /\ storing'[d].at = "done" => d \in session'.notes
    BY <1>1, <2>1 DEF LostToRacesOnly, NotesRead
  <2> QED
    BY <1>1, <2>1 DEF LostToRacesOnly
<1> QED
  BY <1>1, <1>3, <1>5, <1>6, <1>7

\* A call in one statement, or one of nobody: those that are open meet it.
LEMMA MeetKeeps ==
    ASSUME RecordInv, NEW op \in {"put", "wait"}, met' = met \cup Open(op), UNCHANGED session,
           CallTypes', \A o \in Ops : Open(o)' = Open(o),
           \A c \in Callers : /\ storing'[c].read = storing[c].read
                              /\ storing'[c] # storing[c] =>
                                    storing'[c].op = "hold" /\ storing'[c].at = "done",
           op # "put" => artifact' = artifact,
           op # "wait" => locks' = locks
    PROVE  RecordInv'
<1> USE DEF RecordInv
<1>1. \A o \in Ops : Open(o) \subseteq Callers
  BY DEF Open
<1>2. TogetherMet'
  BY DEF TogetherMet
<1>3. SameRow' /\ SomeLock'
  BY <1>1 DEF SameRow, SomeLock, Ops, Lists
<1>4. NotesRead'
  BY <1>1 DEF NotesRead, Ops, Lists
<1>5. LostToRacesOnly'
  BY DEF LostToRacesOnly
<1> QED
  BY <1>2, <1>3, <1>4, <1>5 DEF RowTypes

\* The invariant holds in every state.
LEMMA RecordSafe == RecordSpec => []RecordInv
<1>1. RecordInit => RecordInv
  BY RecordsAssumption DEF RecordInit, NotCalled, RecordInv, CallTypes, RowTypes, TogetherMet, SameRow, SomeLock,
                           NotesRead, LostToRacesOnly, Open
<1>2. RecordInv /\ [RecordNext]_recordVars => RecordInv'
  <2> SUFFICES ASSUME RecordInv, [RecordNext]_recordVars PROVE RecordInv'
    OBVIOUS
  <2>0. {"note", "update", "put", "wait"} = Ops /\ RowTypes /\ CallTypes
    BY DEF Ops, Lists, RecordInv
  <2>1. ASSUME NEW c \in Callers, GetSession(c) PROVE RecordInv'
    <3>1. CASE Reads(c, "note", session.notes)
      BY <2>0, <2>1, <3>1, ReadKeeps DEF GetSession, SessionStays, ArtifactStays, LocksStay
    <3>2. CASE Reads(c, "update", session.notes)
      BY <2>0, <2>1, <3>2, ReadKeeps DEF GetSession, SessionStays, ArtifactStays, LocksStay
    <3> QED
      BY <2>1, <3>1, <3>2 DEF GetSession
  <2>2. ASSUME NEW c \in Callers, AddNote(c) PROVE RecordInv'
    <3>1. session' = [notes |-> storing[c].read \cup {c}, outcome |-> session.outcome]
      BY <2>0, <2>2 DEF AddNote, RowTypes
    <3> QED
      BY <2>0, <2>2, <3>1, EndKeeps DEF AddNote, ArtifactStays, LocksStay, RowTypes
  <2>3. ASSUME NEW c \in Callers, UpdateSession(c) PROVE RecordInv'
    <3>1. session' = [notes |-> session.notes, outcome |-> c]
      BY <2>0, <2>3 DEF UpdateSession, Updated, RowTypes
    <3> QED
      BY <2>0, <2>3, <3>1, EndKeeps DEF UpdateSession, ArtifactStays, LocksStay, RowTypes
  <2>4. ASSUME NEW c \in Callers, ReadArtifact(c) PROVE RecordInv'
    <3>1. Reads(c, "put", Existing) /\ UNCHANGED <<session, artifact, locks>>
      BY <2>4 DEF ReadArtifact, Reads, Existing, SessionStays, ArtifactStays, LocksStay
    <3>2. Existing = {} <=> artifact = Nobody
      BY DEF Existing
    <3> QED
      BY <2>0, <3>1, <3>2, ReadKeeps
  <2>5. ASSUME NEW c \in Callers, PutArtifact(c) PROVE RecordInv'
    <3>1. c \in Open("put") /\ UNCHANGED <<met, session, locks>> /\ RowTypes'
      BY <2>0, <2>5 DEF PutArtifact, SessionStays, LocksStay, RowTypes
    <3>2. c \notin met => (storing[c].read = {} <=> Existing = {})
      BY <3>1 DEF RecordInv, SameRow, Existing
    <3>3. \E how \in {"done", "lost", "raised"} : Ends(c, how) /\ (c \notin met => how = "done")
      BY <2>5, <3>2 DEF PutArtifact
    <3> QED
      BY <2>0, <3>1, <3>3, EndKeeps
  <2>6. ASSUME NEW c \in Callers, AcquireResourceLock(c) PROVE RecordInv'
    <3>1. storing[c].at = "new" /\ storing[c].read = {}
      BY <2>6 DEF AcquireResourceLock, NotCalled
    <3>2. /\ storing' = [storing EXCEPT ![c] = [op |-> "hold", at |-> "done", read |-> {}]]
          /\ met' = met \cup Open("wait")
          /\ UNCHANGED <<session, artifact>>
      BY <2>6 DEF AcquireResourceLock, SessionStays, ArtifactStays
    <3>3. /\ storing'[c] = [op |-> "hold", at |-> "done", read |-> {}]
          /\ \A d \in Callers \ {c} : storing'[d] = storing[d]
          /\ CallTypes'
      BY <2>0, <3>2 DEF CallTypes
    <3>4. \A o \in Ops : Open(o)' = Open(o)
      BY <3>1, <3>3 DEF Open
    <3>5. \A d \in Callers : storing'[d].read = storing[d].read
      BY <3>1, <3>3
    <3>6. \A d \in Callers : storing'[d] # storing[d] =>
                               storing'[d].op = "hold" /\ storing'[d].at = "done"
      BY <3>3
    <3> HIDE DEF RecordInv
    <3> QED
      BY <3>2, <3>3, <3>4, <3>5, <3>6, MeetKeeps, "wait" \in {"put", "wait"}
  <2>7. ASSUME NEW c \in Callers, GetResourceLock(c) PROVE RecordInv'
    BY <2>0, <2>7, ReadKeeps DEF GetResourceLock, SessionStays, ArtifactStays, LocksStay
  <2>8. ASSUME NEW c \in Callers, AddWaitingTask(c) PROVE RecordInv'
    <3>1. c \in Open("wait") /\ UNCHANGED <<met, session, artifact>> /\ RowTypes'
      BY <2>0, <2>8 DEF AddWaitingTask, SessionStays, ArtifactStays, RowTypes
    <3>2. c \notin met => locks # <<>>
      BY <3>1 DEF RecordInv, SomeLock
    <3>3. \E how \in {"done", "lost", "raised"} : Ends(c, how) /\ (c \notin met => how = "done")
      BY <2>8, <3>2 DEF AddWaitingTask
    <3> QED
      BY <2>0, <3>1, <3>3, EndKeeps
  <2>9. CASE DeleteArtifact
    <3>1. \A o \in Ops : Open(o)' = Open(o)
      BY <2>9 DEF DeleteArtifact, Open
    <3>2. CallTypes'
      BY <2>0, <2>9 DEF DeleteArtifact, CallTypes
    <3>3. storing' = storing
      BY <2>9 DEF DeleteArtifact
    <3> QED
      BY <2>9, <3>1, <3>2, <3>3, MeetKeeps DEF DeleteArtifact, SessionStays, LocksStay
  <2>10. CASE ReleaseLocks
    <3>1. \A o \in Ops : Open(o)' = Open(o)
      BY <2>10 DEF ReleaseLocks, Open
    <3>2. CallTypes'
      BY <2>0, <2>10 DEF ReleaseLocks, CallTypes
    <3>3. storing' = storing
      BY <2>10 DEF ReleaseLocks
    <3> QED
      BY <2>10, <3>1, <3>2, <3>3, MeetKeeps DEF ReleaseLocks, SessionStays, ArtifactStays
  <2>11. CASE UNCHANGED recordVars
    BY <2>11 DEF recordVars, RecordInv, CallTypes, RowTypes, TogetherMet, SameRow, SomeLock,
                 NotesRead, LostToRacesOnly, Open
  <2> QED
    BY <2>1, <2>2, <2>3, <2>4, <2>5, <2>6, <2>7, <2>8, <2>9, <2>10, <2>11 DEF RecordNext
<1> QED
  BY <1>1, <1>2, PTL DEF RecordSpec

\* A call that no other of its kind comes in between takes effect and is answered
\* so, and its note stays, for any number of calls (sessions.py:94-150,
\* artifacts.py:16-51, parallel.py:121-135).
THEOREM LostToRaces == RecordSpec => []LostToRacesOnly
BY RecordSafe, PTL DEF RecordInv

-----------------------------------------------------------------------------
(* The types of the rows.                                                    *)

\* Reads, Ends and AcquireResourceLock change one call, and the rows are made of what was there.
CallShape == [op : Ops \cup {"none", "hold"}, at : {"new", "read", "done", "lost", "raised"}, read : SUBSET Callers]
LockShape == [holder : Callers, waiting : SUBSET Callers]

\* The calls that are between read and write are calls.
LEMMA OpenOps ==
    /\ \A op : Open(op) \subseteq Callers
    /\ \A o \in {"note", "update", "put", "wait"} : o \in Ops
BY DEF Open, Ops, Lists

\* A read keeps the types.
LEMMA ReadTypes ==
    ASSUME RecordTypes, NEW c \in Callers, NEW op \in Ops, NEW value \in SUBSET Callers, Reads(c, op, value)
    PROVE  storing' \in [Callers -> CallShape] /\ met' \subseteq Callers
<1>1. [op |-> op, at |-> "read", read |-> value] \in CallShape
  BY DEF CallShape
<1> QED BY <1>1, OpenOps DEF Reads, Meets, RecordTypes, CallShape

\* The end of a call keeps the types.
LEMMA EndTypes ==
    ASSUME RecordTypes, NEW c \in Callers, NEW how \in {"done", "lost", "raised"}, Ends(c, how)
    PROVE  storing' \in [Callers -> CallShape]
<1>1. [storing[c] EXCEPT !.at = how] \in CallShape
  <2>1. storing[c] \in CallShape
    BY DEF RecordTypes, CallShape
  <2>2. \A x \in CallShape : [x EXCEPT !.at = how] \in CallShape
    BY DEF CallShape
  <2> QED BY <2>1, <2>2
<1>2. storing' = [storing EXCEPT ![c] = [storing[c] EXCEPT !.at = how]]
  BY DEF Ends
<1> QED BY <1>1, <1>2 DEF RecordTypes, CallShape

\* Every step keeps the types, the rows that are rewritten or deleted included.
LEMMA RecordTypesKept == RecordTypes /\ [RecordNext]_recordVars => RecordTypes'
<1> SUFFICES ASSUME RecordTypes, [RecordNext]_recordVars PROVE RecordTypes'
  OBVIOUS
<1>0. /\ session \in [notes : SUBSET Callers, outcome : Callers \cup {Nobody}]
      /\ artifact \in Callers \cup {Nobody} /\ locks \in Seq(LockShape)
      /\ storing \in [Callers -> CallShape] /\ met \subseteq Callers
      /\ \A c \in Callers : storing[c].read \in SUBSET Callers
  BY DEF RecordTypes, CallShape, LockShape
<1> DEFINE Good == /\ session' \in [notes : SUBSET Callers, outcome : Callers \cup {Nobody}]
                   /\ artifact' \in Callers \cup {Nobody} /\ locks' \in Seq(LockShape)
                   /\ storing' \in [Callers -> CallShape] /\ met' \subseteq Callers
<1> SUFFICES Good
  BY DEF RecordTypes, CallShape, LockShape, Ops, Lists
<1>1. ASSUME NEW c \in Callers, GetSession(c) PROVE Good
  <2>1. storing' \in [Callers -> CallShape] /\ met' \subseteq Callers
    BY <1>0, <1>1, OpenOps, ReadTypes DEF GetSession
  <2> QED BY <1>0, <1>1, <2>1 DEF GetSession, SessionStays, ArtifactStays, LocksStay
<1>2. ASSUME NEW c \in Callers, AddNote(c) PROVE Good
  <2>1. storing' \in [Callers -> CallShape]
    BY <1>2, EndTypes DEF AddNote
  <2> QED BY <1>0, <1>2, <2>1 DEF AddNote, ArtifactStays, LocksStay
<1>3. ASSUME NEW c \in Callers, UpdateSession(c) PROVE Good
  <2>1. storing' \in [Callers -> CallShape]
    BY <1>3, EndTypes DEF UpdateSession
  <2> QED BY <1>0, <1>3, <2>1 DEF UpdateSession, Updated, ArtifactStays, LocksStay
<1>4. ASSUME NEW c \in Callers, ReadArtifact(c) PROVE Good
  <2>1. artifact = Nobody \/ artifact \in Callers
    BY <1>0
  <2>2. Existing \in SUBSET Callers
    BY <2>1 DEF Existing
  <2>3. storing' \in [Callers -> CallShape] /\ met' \subseteq Callers
    BY <1>4, <2>2, OpenOps, ReadTypes DEF ReadArtifact
  <2> QED BY <1>0, <1>4, <2>3 DEF ReadArtifact, SessionStays, ArtifactStays, LocksStay
<1>5. ASSUME NEW c \in Callers, PutArtifact(c) PROVE Good
  <2>1. storing' \in [Callers -> CallShape]
    BY <1>5, EndTypes DEF PutArtifact
  <2> QED BY <1>0, <1>5, <2>1 DEF PutArtifact, SessionStays, ArtifactStays, LocksStay
<1>6. ASSUME NEW c \in Callers, AcquireResourceLock(c) PROVE Good
  <2>1. [holder |-> c, waiting |-> {}] \in LockShape /\ [op |-> "hold", at |-> "done", read |-> {}] \in CallShape
    BY DEF LockShape, CallShape
  <2>2. locks' \in Seq(LockShape)
    BY <1>0, <1>6, <2>1, AppendProperties DEF AcquireResourceLock
  <2>3. storing' \in [Callers -> CallShape] /\ met' \subseteq Callers
    BY <1>0, <1>6, <2>1, OpenOps DEF AcquireResourceLock
  <2> QED BY <1>0, <1>6, <2>2, <2>3 DEF AcquireResourceLock, SessionStays, ArtifactStays
<1>7. ASSUME NEW c \in Callers, GetResourceLock(c) PROVE Good
  <2>1. Head(locks) \in LockShape
    BY <1>0, <1>7 DEF GetResourceLock
  <2>2. Head(locks).waiting \in SUBSET Callers
    BY <2>1 DEF LockShape
  <2>3. storing' \in [Callers -> CallShape] /\ met' \subseteq Callers
    BY <1>7, <2>2, OpenOps, ReadTypes DEF GetResourceLock
  <2> QED BY <1>0, <1>7, <2>3 DEF GetResourceLock, SessionStays, ArtifactStays, LocksStay
<1>8. ASSUME NEW c \in Callers, AddWaitingTask(c) PROVE Good
  <2>1. storing' \in [Callers -> CallShape]
    BY <1>8, EndTypes DEF AddWaitingTask
  <2>2. DOMAIN locks = 1..Len(locks) /\ Len(locks) \in Nat
    BY <1>0
  <2>3. ASSUME NEW r \in LockShape PROVE [r EXCEPT !.waiting = storing[c].read \cup {c}] \in LockShape
    <3>1. storing[c].read \cup {c} \in SUBSET Callers
      BY <1>0
    <3> QED BY <3>1 DEF LockShape
  <2>4. \A i \in 1..Len(locks) : locks[i] \in LockShape
    BY <1>0, <2>2
  <2>5. locks' = [i \in 1..Len(locks) |-> [locks[i] EXCEPT !.waiting = storing[c].read \cup {c}]]
    BY <1>8, <2>2 DEF AddWaitingTask
  <2>6. locks' \in [1..Len(locks) -> LockShape]
    BY <2>3, <2>4, <2>5
  <2>7. locks' \in Seq(LockShape)
    BY <2>2, <2>6
  <2> QED BY <1>0, <1>8, <2>1, <2>7 DEF AddWaitingTask, SessionStays, ArtifactStays
<1>9. CASE DeleteArtifact
  BY <1>0, <1>9, OpenOps DEF DeleteArtifact, SessionStays, LocksStay
<1>10. CASE ReleaseLocks
  <2>1. \A gone : Without(locks, gone) \in Seq(LockShape)
    BY <1>0, WithoutKeeps
  <2>2. <<>> \in Seq(LockShape)
    OBVIOUS
  <2>3. locks' = <<>> \/ \E h \in Callers : locks' = Without(locks, [holder : {h}, waiting : SUBSET Callers])
    BY <1>10 DEF ReleaseLocks
  <2>4. locks' \in Seq(LockShape)
    BY <2>1, <2>2, <2>3
  <2> QED BY <1>0, <1>10, <2>4, OpenOps DEF ReleaseLocks, SessionStays, ArtifactStays
<1>11. CASE UNCHANGED recordVars
  BY <1>0, <1>11 DEF recordVars
<1> QED BY <1>1, <1>2, <1>3, <1>4, <1>5, <1>6, <1>7, <1>8, <1>9, <1>10, <1>11 DEF RecordNext

\* The types of the rows to begin with.
LEMMA RecordTypesInit == RecordInit => RecordTypes
BY RecordsAssumption DEF RecordInit, RecordTypes, NotCalled, Ops, Lists

\* The rows and the calls keep their types.
LEMMA RecordTyped == RecordSpec => []RecordTypes
BY RecordTypesInit, RecordTypesKept, PTL DEF RecordSpec

(***************************************************************************)
(* Deadlines, for any motions and any number of timers.                      *)
(***************************************************************************)

Stages == {"uncreated", "asleep", "callback", "over", "cancelled"}
Started == [for : TimedMotions, to : TimeoutAction, at : Stages]

\* What OneDeadline needs from step to step: an entry is a timer that was started
\* for its motion, the action beside it is that of the timer that sleeps, and a
\* timer that was never started has found no action.
EntryInv == \A m \in TimedMotions :
    timers[m] # NoTimer => task[timers[m]].for = m /\ task[timers[m]].at # "uncreated"
ActionInv == \A k \in Timers : task[k].at = "asleep" => actions[task[k].for] = task[k].to
FreshInv == \A k \in Timers : task[k].at = "uncreated" => took[k] = "none"
DeadlineInv == DeadlineTypes /\ EntryInv /\ ActionInv /\ FreshInv /\ OneDeadline

-----------------------------------------------------------------------------
\* cancel_timeout stops the timer of the entry, and no other.
LEMMA CancelledOne ==
    ASSUME DeadlineTypes, NEW m \in TimedMotions
    PROVE  /\ Cancelled(m) \in [Timers -> Started]
           /\ \A k \in Timers :
                 /\ Cancelled(m)[k].for = task[k].for /\ Cancelled(m)[k].to = task[k].to
                 /\ Cancelled(m)[k].at \in {task[k].at, "cancelled"}
                 /\ task[k].at = "uncreated" => Cancelled(m)[k].at = "uncreated"
                 /\ timers[m] = k => Cancelled(m)[k].at \notin {"asleep", "callback"}
BY DeadlinesAssumption DEF Cancelled, Pending, DeadlineTypes, Stages, Started

\* A timer that is started takes the place of the one the motion had.
LEMMA StartKeeps ==
    ASSUME DeadlineInv, NEW m \in TimedMotions, NEW a \in TimeoutAction, NEW k \in Timers,
           StartTimer(m, a, k)
    PROVE  DeadlineInv'
<1> USE DEF DeadlineInv
<1> DEFINE gone == Cancelled(m)
<1>1. /\ gone \in [Timers -> Started]
      /\ \A j \in Timers : /\ gone[j].for = task[j].for /\ gone[j].to = task[j].to
                           /\ gone[j].at \in {task[j].at, "cancelled"}
                           /\ timers[m] = j => gone[j].at \notin {"asleep", "callback"}
  BY CancelledOne
<1>2. task[k].at = "uncreated" /\ took[k] = "none"
  BY DEF StartTimer, Uncreated, FreshInv
<1>3. task' = [gone EXCEPT ![k] = [for |-> m, to |-> a, at |-> "asleep"]]
  BY DEF StartTimer
<1> HIDE DEF gone
<1>4. /\ task'[k] = [for |-> m, to |-> a, at |-> "asleep"]
      /\ \A j \in Timers \ {k} : task'[j] = gone[j]
  BY <1>1, <1>3
<1>5. DeadlineTypes'
  <2>1. task' \in [Timers -> Started]
    BY <1>1, <1>3 DEF Stages, Started
  <2>2. /\ timers' \in [TimedMotions -> Timers \cup {NoTimer}]
        /\ actions' \in [TimedMotions -> TimeoutAction \cup {"none"}]
        /\ listening' = listening /\ took' = took
    BY DEF StartTimer, DeadlineTypes
  <2> QED
    BY <2>1, <2>2 DEF DeadlineTypes, Stages, Started
<1>6. EntryInv'
  <2> SUFFICES ASSUME NEW n \in TimedMotions, timers'[n] # NoTimer
               PROVE  task'[timers'[n]].for = n /\ task'[timers'[n]].at # "uncreated"
    BY DEF EntryInv
  <2>1. CASE n = m
    BY <2>1, <1>4 DEF StartTimer, DeadlineTypes
  <2>2. CASE n # m
    <3>1. timers'[n] = timers[n] /\ timers[n] \in Timers /\ timers[n] # k
      BY <2>2, <1>2 DEF StartTimer, DeadlineTypes, EntryInv
    <3> QED
      BY <3>1, <1>1, <1>4 DEF EntryInv, DeadlineTypes, Started
  <2> QED
    BY <2>1, <2>2
<1>7. ASSUME NEW j \in Timers \ {k}, task'[j].at \in {"asleep", "callback"}
      PROVE  /\ task[j].at = task'[j].at /\ task'[j].for = task[j].for /\ task'[j].to = task[j].to
             /\ task[j].for # m
  <2>1. task[j].at = task'[j].at /\ gone[j].at = task[j].at
    BY <1>1, <1>4, <1>7
  <2>2. timers[task[j].for] = j
    BY <2>1, <1>7 DEF OneDeadline, Pending
  <2> QED
    BY <2>1, <2>2, <1>1, <1>4, <1>7
<1>8. ActionInv'
  <2> SUFFICES ASSUME NEW j \in Timers, task'[j].at = "asleep"
               PROVE  actions'[task'[j].for] = task'[j].to
    BY DEF ActionInv
  <2>1. CASE j = k
    BY <2>1, <1>4 DEF StartTimer, DeadlineTypes
  <2>2. CASE j # k
    BY <2>2, <1>7 DEF StartTimer, DeadlineTypes, ActionInv
  <2> QED
    BY <2>1, <2>2
<1>9. FreshInv'
  BY <1>1, <1>4 DEF StartTimer, FreshInv
<1>10. OneDeadline'
  <2> SUFFICES ASSUME NEW j \in Timers
               PROVE  /\ task'[j].at \in {"asleep", "callback"} => timers'[task'[j].for] = j
                      /\ took'[j] # "none" => took'[j] = task'[j].to
    BY DEF OneDeadline, Pending
  <2>1. CASE j = k
    BY <2>1, <1>2, <1>4 DEF StartTimer, DeadlineTypes
  <2>2. CASE j # k
    BY <2>2, <1>1, <1>4, <1>7 DEF StartTimer, DeadlineTypes, OneDeadline, Pending
  <2> QED
    BY <2>1, <2>2
<1> QED
  BY <1>5, <1>6, <1>8, <1>9, <1>10

\* A timer that is cancelled leaves no entry, and no pending task of its motion.
LEMMA CancelKeeps ==
    ASSUME DeadlineInv, NEW m \in TimedMotions, CancelTimeout(m)
    PROVE  DeadlineInv'
<1> USE DEF DeadlineInv
<1>1. /\ task' \in [Timers -> Started]
      /\ \A j \in Timers : /\ task'[j].for = task[j].for /\ task'[j].to = task[j].to
                           /\ task'[j].at \in {task[j].at, "cancelled"}
                           /\ timers[m] = j => task'[j].at \notin {"asleep", "callback"}
  BY CancelledOne DEF CancelTimeout
<1>2. DeadlineTypes'
  BY <1>1 DEF DeadlineTypes, CancelTimeout, Stages, Started
<1>3. EntryInv' /\ FreshInv'
  BY <1>1, DeadlinesAssumption DEF EntryInv, FreshInv, CancelTimeout, DeadlineTypes
<1>4. ASSUME NEW j \in Timers, task'[j].at \in {"asleep", "callback"}
      PROVE  task[j].at = task'[j].at /\ task[j].for # m /\ task[j].for \in TimedMotions
  <2>1. task[j].at = task'[j].at
    BY <1>1, <1>4
  <2>2. timers[task[j].for] = j
    BY <2>1, <1>4 DEF OneDeadline, Pending
  <2> QED
    BY <2>1, <2>2, <1>1, <1>4 DEF DeadlineTypes
<1>5. ActionInv' /\ OneDeadline'
  BY <1>1, <1>4 DEF ActionInv, OneDeadline, Pending, CancelTimeout, DeadlineTypes
<1> QED
  BY <1>2, <1>3, <1>5

\* A timer that wakes up finds the action it was started for.
LEMMA HandleKeeps ==
    ASSUME DeadlineInv, NEW k \in Timers, HandleTimeout(k)
    PROVE  DeadlineInv'
<1> USE DEF DeadlineInv, HandleTimeout
<1>1. actions[task[k].for] = task[k].to /\ task[k].to # "none" /\ timers[task[k].for] = k
  BY DEF ActionInv, OneDeadline, Pending, DeadlineTypes, TimeoutAction
<1>2. took' = [took EXCEPT ![k] = task[k].to]
  BY <1>1
<1>3. DeadlineTypes'
  BY <1>2 DEF DeadlineTypes
<1> QED
  BY <1>1, <1>2, <1>3 DEF EntryInv, ActionInv, FreshInv, OneDeadline, Pending, DeadlineTypes

\* The invariant holds in every state.
LEMMA DeadlineSafe == DeadlineSpec => []DeadlineInv
<1>1. DeadlineInit => DeadlineInv
  <2> SUFFICES ASSUME DeadlineInit PROVE DeadlineInv
    OBVIOUS
  <2>1. Uncreated \in Started /\ Uncreated.at = "uncreated"
    BY DeadlinesAssumption DEF Uncreated, Started, Stages, TimeoutAction
  <2>2. DeadlineTypes
    BY <2>1 DEF DeadlineInit, DeadlineTypes, Started, Stages
  <2> QED
    BY <2>1, <2>2 DEF DeadlineInit, DeadlineInv, EntryInv, ActionInv, FreshInv, OneDeadline, Pending
<1>2. DeadlineInv /\ [DeadlineNext]_deadlineVars => DeadlineInv'
  <2> SUFFICES ASSUME DeadlineInv, [DeadlineNext]_deadlineVars PROVE DeadlineInv'
    OBVIOUS
  <2>1. CASE \E m \in TimedMotions : CancelTimeout(m)
    BY <2>1, CancelKeeps
  <2>2. CASE \E m \in TimedMotions, a \in TimeoutAction, k \in Timers : StartTimer(m, a, k)
    BY <2>2, StartKeeps
  <2>3. CASE \E k \in Timers : HandleTimeout(k)
    BY <2>3, HandleKeeps
  <2>4. CASE \E k \in Timers : OnTimeoutReturns(k)
    BY <2>4 DEF OnTimeoutReturns, DeadlineInv, DeadlineTypes, EntryInv, ActionInv, FreshInv,
                OneDeadline, Pending
  <2>5. CASE UNCHANGED deadlineVars
    BY <2>5 DEF deadlineVars, DeadlineInv, DeadlineTypes, EntryInv, ActionInv, FreshInv,
                OneDeadline, Pending
  <2> QED
    BY <2>1, <2>2, <2>3, <2>4, <2>5 DEF DeadlineNext
<1> QED
  BY <1>1, <1>2, PTL DEF DeadlineSpec

\* A motion has one timer that can still run out, the one in the table, and a
\* timer that runs out does what it was started for (timeout.py:51-83).
THEOREM OneDeadlineEach == DeadlineSpec => []OneDeadline
BY DeadlineSafe, PTL DEF DeadlineInv

(***************************************************************************)
(* Plugins, for any names, administrators and loads.                         *)
(***************************************************************************)

Busy(a) == admin[a].at \in {"loading", "unloading"}

\* What is known of an instance: never made, or up at most once, and up when it has its name.
Instances ==
    \A i \in Plugin :
        /\ unloads[i] <= loads[i] /\ handlers[i] <= 1
        /\ registered[i[1]] = i => loads[i] = unloads[i] + 1 /\ handlers[i] = 1
        /\ i[2] > made[i[1]] => loads[i] = 0 /\ unloads[i] = 0 /\ handlers[i] = 0

\* An instance that is being loaded or unloaded is down for everyone else: one
\* coroutine works on it, and its handlers go only when on_unload is back.
Workers ==
    \A a \in Admins : Busy(a) =>
        /\ admin[a].on \in Plugin
        /\ admin[a].on[2] <= made[admin[a].on[1]]
        /\ loads[admin[a].on] = unloads[admin[a].on]
        /\ handlers[admin[a].on] = IF admin[a].at = "loading" THEN 0 ELSE 1
        /\ \A b \in Admins \ {a} : Busy(b) => admin[b].on # admin[a].on

Named == \A n \in PluginNames : registered[n] # NoPlugin => registered[n] \in Plugin /\ registered[n][1] = n

PluginInv == PluginTypes /\ Instances /\ Workers /\ Named

-----------------------------------------------------------------------------
\* An instance is a name and a number.
LEMMA InstanceParts ==
    ASSUME NEW i \in Plugin
    PROVE  i = <<i[1], i[2]>> /\ i[1] \in PluginNames /\ i[2] \in 1..MaxInstances /\ i[2] \in Nat /\ i # NoPlugin
BY PluginAssumption DEF Plugin

\* One coroutine goes on to something that is neither a load nor an unload.
LEMMA AdminRests ==
    ASSUME PluginInv, NEW a \in Admins, NEW w \in Works, w.at \notin {"loading", "unloading"},
           admin' = [admin EXCEPT ![a] = w], UNCHANGED <<allowed, registered, handlers, made, loads, unloads>>
    PROVE  PluginInv'
<1>1. admin' \in [Admins -> Works] /\ admin'[a] = w /\ \A b \in Admins \ {a} : admin'[b] = admin[b]
  BY DEF PluginInv, PluginTypes
<1>2. PluginTypes' /\ Instances' /\ Named'
  BY <1>1 DEF PluginInv, PluginTypes, Instances, Named
<1>3. \A b \in Admins : Busy(b)' => Busy(b) /\ admin'[b] = admin[b]
  BY <1>1 DEF Busy
<1>4. Workers'
  <2> SUFFICES ASSUME NEW b \in Admins, Busy(b)'
               PROVE  /\ admin'[b].on \in Plugin
                      /\ admin'[b].on[2] <= made'[admin'[b].on[1]]
                      /\ loads'[admin'[b].on] = unloads'[admin'[b].on]
                      /\ handlers'[admin'[b].on] = IF admin'[b].at = "loading" THEN 0 ELSE 1
                      /\ \A c \in Admins \ {b} : Busy(c)' => admin'[c].on # admin'[b].on
    BY DEF Workers
  <2> QED
    BY <1>3 DEF PluginInv, Workers
<1> QED
  BY <1>2, <1>4 DEF PluginInv

\* A step of one coroutine that touches one instance, which is nobody else's.
TouchesOne(a, i, w) ==
    /\ admin' = [admin EXCEPT ![a] = w] /\ (w.at \in {"loading", "unloading"} => w.on = i)
    /\ \A b \in Admins \ {a} : Busy(b) => admin[b].on # i
    /\ handlers' \in [Plugin -> Nat] /\ loads' \in [Plugin -> Nat] /\ unloads' \in [Plugin -> Nat]
    /\ made' \in [PluginNames -> 1..MaxInstances]
    /\ registered' \in [PluginNames -> Plugin \cup {NoPlugin}] /\ UNCHANGED allowed
    /\ \A j \in Plugin \ {i} : handlers'[j] = handlers[j] /\ loads'[j] = loads[j] /\ unloads'[j] = unloads[j]
    /\ \A n \in PluginNames : registered'[n] \in {registered[n], NoPlugin} \/ (n = i[1] /\ registered'[n] = i)
    /\ \A n \in PluginNames : made[n] <= made'[n]
    /\ unloads'[i] <= loads'[i] /\ handlers'[i] <= 1 /\ i[2] <= made'[i[1]]
    /\ registered'[i[1]] = i => loads'[i] = unloads'[i] + 1 /\ handlers'[i] = 1
    /\ w.at \in {"loading", "unloading"} =>
           loads'[i] = unloads'[i] /\ handlers'[i] = IF w.at = "loading" THEN 0 ELSE 1

\* A step that touches one instance and one administrator keeps the invariant if it does for the two.
LEMMA OneInstanceMoves ==
    ASSUME PluginInv, NEW a \in Admins, NEW i \in Plugin, NEW w \in Works, TouchesOne(a, i, w)
    PROVE  PluginInv'
<1> USE DEF TouchesOne
<1>1. admin' \in [Admins -> Works] /\ admin'[a] = w /\ \A b \in Admins \ {a} : admin'[b] = admin[b]
  BY DEF PluginInv, PluginTypes
<1>2. PluginTypes'
  BY <1>1 DEF PluginInv, PluginTypes
<1>3. Instances'
  <2> SUFFICES ASSUME NEW j \in Plugin, j # i
               PROVE  /\ unloads'[j] <= loads'[j] /\ handlers'[j] <= 1
                      /\ registered'[j[1]] = j => loads'[j] = unloads'[j] + 1 /\ handlers'[j] = 1
                      /\ j[2] > made'[j[1]] => loads'[j] = 0 /\ unloads'[j] = 0 /\ handlers'[j] = 0
    <3>1. ~ (i[2] > made'[i[1]])
      BY InstanceParts
    <3> QED
      BY <3>1 DEF Instances
  <2>1. j[1] \in PluginNames /\ j # NoPlugin /\ j[2] \in Nat
    BY InstanceParts
  <2>2. registered'[j[1]] = j => registered[j[1]] = j
    BY <2>1
  <2>3. made[j[1]] \in Nat /\ made'[j[1]] \in Nat /\ made[j[1]] <= made'[j[1]]
    BY <2>1 DEF PluginInv, PluginTypes
  <2>4. j[2] > made'[j[1]] => j[2] > made[j[1]]
    BY <2>1, <2>3
  <2> QED
    BY <2>2, <2>4 DEF PluginInv, Instances
<1>4. \A b \in Admins : Busy(b)' => (b = a /\ admin'[b].on = i) \/ (b # a /\ Busy(b) /\ admin'[b] = admin[b] /\ admin[b].on # i)
  BY <1>1 DEF Busy
<1>5. Workers'
  <2> SUFFICES ASSUME NEW b \in Admins, Busy(b)'
               PROVE  /\ admin'[b].on \in Plugin
                      /\ admin'[b].on[2] <= made'[admin'[b].on[1]]
                      /\ loads'[admin'[b].on] = unloads'[admin'[b].on]
                      /\ handlers'[admin'[b].on] = IF admin'[b].at = "loading" THEN 0 ELSE 1
                      /\ \A c \in Admins \ {b} : Busy(c)' => admin'[c].on # admin'[b].on
    BY DEF Workers
  <2>1. CASE b = a
    <3>1. w.at \in {"loading", "unloading"}
      BY <1>1, <2>1 DEF Busy
    <3> QED
      BY <1>1, <1>4, <2>1, <3>1
  <2>2. CASE b # a
    <3> DEFINE j == admin[b].on
    <3>1. Busy(b) /\ admin'[b] = admin[b] /\ j # i
      BY <1>4, <2>2
    <3>2. /\ j \in Plugin /\ j[2] <= made[j[1]] /\ loads[j] = unloads[j]
          /\ handlers[j] = IF admin[b].at = "loading" THEN 0 ELSE 1
          /\ \A c \in Admins \ {b} : Busy(c) => admin[c].on # j
      BY <3>1 DEF PluginInv, Workers
    <3>3. j[1] \in PluginNames /\ j[2] \in Nat
      BY <3>2, InstanceParts
    <3>4. made[j[1]] \in Nat /\ made'[j[1]] \in Nat /\ made[j[1]] <= made'[j[1]]
      BY <3>3 DEF PluginInv, PluginTypes
    <3>5. \A c \in Admins \ {b} : Busy(c)' => admin'[c].on # j
      BY <1>4, <3>1, <3>2
    <3> QED
      BY <3>1, <3>2, <3>3, <3>4, <3>5
  <2> QED
    BY <2>1, <2>2
<1>6. Named'
  BY InstanceParts DEF PluginInv, Named
<1> QED
  BY <1>2, <1>3, <1>5, <1>6 DEF PluginInv

\* on_load is back.
LEMMA LoadedKeeps ==
    ASSUME PluginInv, NEW a \in Admins, Loaded(a)
    PROVE  PluginInv'
<1> DEFINE i == admin[a].on
<1>1. /\ i \in Plugin /\ i[2] <= made[i[1]] /\ loads[i] = unloads[i] /\ handlers[i] = 0
      /\ \A b \in Admins \ {a} : Busy(b) => admin[b].on # i
  BY DEF Loaded, Busy, PluginInv, Workers
<1>2. i[1] \in PluginNames /\ made' = made /\ unloads' = unloads /\ allowed' = allowed
  BY <1>1, InstanceParts DEF Loaded
<1>3. /\ handlers' \in [Plugin -> Nat] /\ loads' \in [Plugin -> Nat]
      /\ handlers'[i] = 1 /\ loads'[i] = unloads[i] + 1
      /\ \A j \in Plugin \ {i} : handlers'[j] = handlers[j] /\ loads'[j] = loads[j]
  BY <1>1 DEF Loaded, PluginInv, PluginTypes
<1>4. /\ registered' \in [PluginNames -> Plugin \cup {NoPlugin}]
      /\ \A n \in PluginNames : registered'[n] = IF n = i[1] THEN i ELSE registered[n]
  BY <1>1, <1>2 DEF Loaded, PluginInv, PluginTypes
<1>5. IdleAdmin \in Works /\ IdleAdmin.at = "idle" /\ admin' = [admin EXCEPT ![a] = IdleAdmin]
  BY DEF IdleAdmin, Works, Loaded
<1>6. made \in [PluginNames -> 1..MaxInstances] /\ unloads \in [Plugin -> Nat]
  BY DEF PluginInv, PluginTypes
<1> HIDE DEF i
<1>7. \A n \in PluginNames : made[n] <= made[n]
  BY <1>6
<1>8. TouchesOne(a, i, IdleAdmin)
  BY <1>1, <1>2, <1>3, <1>4, <1>5, <1>6, <1>7 DEF TouchesOne
<1> QED
  BY <1>1, <1>5, <1>8, OneInstanceMoves

\* unload_plugin up to its await: the name is taken off at once.
LEMMA UnloadKeeps ==
    ASSUME PluginInv, NEW a \in Admins, ~ Busy(a), NEW n \in PluginNames, NEW to \in Works, Unload(a, n, to)
    PROVE  PluginInv'
<1> DEFINE i == registered[n]
           w == [to EXCEPT !.at = "unloading", !.on = i]
<1>1. i \in Plugin /\ i[1] = n
  BY DEF Unload, PluginInv, Named
<1>2. /\ loads[i] = unloads[i] + 1 /\ handlers[i] = 1 /\ unloads[i] \in Nat /\ loads[i] \in Nat
      /\ made[n] \in Nat /\ i[2] \in Nat
      /\ ~ (i[2] > made[i[1]])
  BY <1>1, InstanceParts DEF PluginInv, Instances, PluginTypes
<1>3. \A b \in Admins : Busy(b) => admin[b].on # i
  BY <1>2 DEF PluginInv, Workers
<1>4. w \in Works /\ w.at = "unloading" /\ w.on = i /\ admin' = [admin EXCEPT ![a] = w]
  BY <1>1 DEF Works, Unload
<1>5. /\ unloads' \in [Plugin -> Nat] /\ unloads'[i] = loads[i]
      /\ \A j \in Plugin \ {i} : unloads'[j] = unloads[j]
  BY <1>1, <1>2 DEF Unload, PluginInv, PluginTypes
<1>6. /\ registered' \in [PluginNames -> Plugin \cup {NoPlugin}]
      /\ \A m \in PluginNames : registered'[m] \in {registered[m], NoPlugin}
      /\ registered'[n] = NoPlugin
  BY DEF Unload, TakeOut, PluginInv, PluginTypes
<1>7. UNCHANGED <<allowed, handlers, made, loads>>
  BY DEF Unload
<1>8. /\ made \in [PluginNames -> 1..MaxInstances] /\ handlers \in [Plugin -> Nat] /\ loads \in [Plugin -> Nat]
      /\ \A m \in PluginNames : made[m] \in Nat
  BY DEF PluginInv, PluginTypes
<1>9. i # NoPlugin
  BY <1>1, InstanceParts
<1>10. i[2] <= made[i[1]]
  BY <1>1, <1>2
<1> HIDE DEF i, w
<1>11. TouchesOne(a, i, w)
  BY <1>1, <1>2, <1>3, <1>4, <1>5, <1>6, <1>7, <1>8, <1>9, <1>10 DEF TouchesOne
<1> QED
  BY <1>1, <1>4, <1>11, OneInstanceMoves

\* unload_plugin from its await on.
LEMMA UnloadedKeeps ==
    ASSUME PluginInv, NEW a \in Admins, Unloaded(a)
    PROVE  PluginInv'
<1> DEFINE i == admin[a].on
<1>1. /\ i \in Plugin /\ i[2] <= made[i[1]] /\ loads[i] = unloads[i] /\ handlers[i] = 1
      /\ \A b \in Admins \ {a} : Busy(b) => admin[b].on # i
  BY DEF Unloaded, Busy, PluginInv, Workers
<1>2. UNCHANGED <<allowed, registered, made, loads, unloads>>
  BY DEF Unloaded
<1>3. /\ handlers' \in [Plugin -> Nat] /\ handlers'[i] = 0
      /\ \A j \in Plugin \ {i} : handlers'[j] = handlers[j]
  BY <1>1 DEF Unloaded, Unhook, PluginInv, PluginTypes
<1>4. /\ made \in [PluginNames -> 1..MaxInstances] /\ loads \in [Plugin -> Nat] /\ unloads \in [Plugin -> Nat]
      /\ registered \in [PluginNames -> Plugin \cup {NoPlugin}] /\ admin[a] \in Works
      /\ \A m \in PluginNames : made[m] \in Nat
      /\ \A j \in Plugin : loads[j] \in Nat /\ unloads[j] \in Nat
  BY DEF PluginInv, PluginTypes
<1>5. registered[i[1]] # i
  <2>1. loads[i] # unloads[i] + 1
    BY <1>1, <1>4
  <2> QED
    BY <1>1, <2>1 DEF PluginInv, Instances
<1>6. PICK w \in Works : admin' = [admin EXCEPT ![a] = w] /\ w.at \in {"idle", "loading", "checking"}
                         /\ (w.at = "loading" => w.on = i)
  <2>1. CASE StartLoad(a, i)
    <3>1. [IdleAdmin EXCEPT !.at = "loading", !.on = i] \in Works /\ IdleAdmin \in Works
      BY <1>1 DEF IdleAdmin, Works
    <3> QED
      BY <2>1, <3>1 DEF StartLoad, IdleAdmin
  <2>2. CASE admin' = [admin EXCEPT ![a].at = "checking", ![a].on = NoPlugin]
    <3> DEFINE w == [admin[a] EXCEPT !.at = "checking", !.on = NoPlugin]
    <3>1. w \in Works /\ w.at = "checking"
      BY <1>4 DEF Works
    <3>2. admin' = [admin EXCEPT ![a] = w]
      BY <2>2 DEF PluginInv, PluginTypes
    <3> QED
      BY <3>1, <3>2
  <2> QED
    BY <2>1, <2>2 DEF Unloaded
<1>7. \A n \in PluginNames : made[n] <= made[n]
  BY <1>4
<1>8. unloads[i] <= loads[i]
  BY <1>1, <1>4
<1> HIDE DEF i
<1>9. TouchesOne(a, i, w)
  BY <1>1, <1>2, <1>3, <1>4, <1>5, <1>6, <1>7, <1>8 DEF TouchesOne
<1> QED
  BY <1>1, <1>6, <1>9, OneInstanceMoves

\* enable_plugin: the handlers of the instance that has the name.
LEMMA EnableKeeps ==
    ASSUME PluginInv, NEW a \in Admins, NEW n \in PluginNames, Enable(a, n)
    PROVE  PluginInv'
<1> DEFINE i == <<n, made[n] + 1>>
           w == [IdleAdmin EXCEPT !.at = "loading", !.on = i]
<1>0. made[n] \in Nat /\ MaxInstances \in Nat
  BY PluginAssumption DEF PluginInv, PluginTypes
<1>1. i \in Plugin /\ i[1] = n /\ i[2] = made[n] + 1
  BY <1>0 DEF Enable, Plugin
<1>2. /\ made' \in [PluginNames -> 1..MaxInstances] /\ made'[n] = made[n] + 1
      /\ \A m \in PluginNames : made[m] <= made'[m]
  BY <1>0 DEF Enable, PluginInv, PluginTypes
<1>3. loads[i] = 0 /\ unloads[i] = 0 /\ handlers[i] = 0
  <2>1. i[2] > made[i[1]]
    BY <1>0, <1>1
  <2> QED
    BY <1>1, <2>1 DEF PluginInv, Instances
<1>4. \A b \in Admins : Busy(b) => admin[b].on # i
  <2>1. ~ (i[2] <= made[i[1]])
    BY <1>0, <1>1
  <2> QED
    BY <2>1 DEF PluginInv, Workers
<1>5. w \in Works /\ w.at = "loading" /\ w.on = i /\ admin' = [admin EXCEPT ![a] = w]
  <2>1. w \in Works /\ w.at = "loading" /\ w.on = i
    BY <1>1 DEF IdleAdmin, Works
  <2> QED
    BY <1>1, <2>1 DEF Enable, StartLoad
<1>6. UNCHANGED <<allowed, registered, handlers, loads, unloads>> /\ registered[n] # i
  BY <1>1, InstanceParts DEF Enable
<1>7. /\ handlers \in [Plugin -> Nat] /\ loads \in [Plugin -> Nat] /\ unloads \in [Plugin -> Nat]
      /\ registered \in [PluginNames -> Plugin \cup {NoPlugin}]
  BY DEF PluginInv, PluginTypes
<1>8. i[2] <= made'[i[1]]
  BY <1>0, <1>1, <1>2
<1> HIDE DEF i, w
<1>9. TouchesOne(a, i, w)
  BY <1>1, <1>2, <1>3, <1>4, <1>5, <1>6, <1>7, <1>8 DEF TouchesOne
<1> QED
  BY <1>1, <1>5, <1>9, OneInstanceMoves

\* Every step keeps PluginInv.
LEMMA PluginInvKept == PluginInv /\ [PluginNext]_pluginVars => PluginInv'
<1> SUFFICES ASSUME PluginInv, [PluginNext]_pluginVars PROVE PluginInv'
  OBVIOUS
<1>0. admin \in [Admins -> Works] /\ IdleAdmin \in Works /\ IdleAdmin.at = "idle"
      /\ [IdleAdmin EXCEPT !.then = "load"] \in Works
  BY DEF PluginInv, PluginTypes, IdleAdmin, Works
<1>1. ASSUME NEW a \in Admins, Loaded(a) \/ Unloaded(a) PROVE PluginInv'
  BY <1>1, LoadedKeeps, UnloadedKeeps
<1>2. ASSUME NEW a \in Admins, NEW n \in PluginNames, Enable(a, n) PROVE PluginInv'
  BY <1>2, EnableKeeps
<1>3. ASSUME NEW a \in Admins, NEW n \in PluginNames, Disable(a, n) \/ Reload(a, n) PROVE PluginInv'
  <2>1. ~ Busy(a) /\ (Unload(a, n, IdleAdmin) \/ Unload(a, n, [IdleAdmin EXCEPT !.then = "load"]))
    BY <1>3 DEF Disable, Reload, Busy
  <2> QED
    BY <1>0, <2>1, UnloadKeeps
<1>4. ASSUME NEW a \in Admins, LoadFails(a) \/ EndSweep(a) PROVE PluginInv'
  BY <1>0, <1>4, AdminRests DEF LoadFails, EndSweep
<1>5. ASSUME NEW a \in Admins, HealthCheckAll(a) \/ Shutdown(a) PROVE PluginInv'
  <2>1. PICK then \in {"check", "down"} : StartSweep(a, then)
    BY <1>5 DEF HealthCheckAll, Shutdown
  <2>2. Snapshot \subseteq Plugin
    BY DEF Snapshot, PluginInv, PluginTypes
  <2> DEFINE w == [at |-> "checking", on |-> NoPlugin, then |-> then, todo |-> Snapshot]
  <2>3. w \in Works /\ w.at = "checking"
    BY <2>2 DEF Works
  <2> QED
    BY <2>1, <2>3, AdminRests DEF StartSweep
<1>6. ASSUME NEW a \in Admins, NEW i \in Plugin, Skip(a, i) PROVE PluginInv'
  <2> DEFINE w == [admin[a] EXCEPT !.todo = @ \ {i}]
  <2>1. admin[a] \in Works /\ admin[a].at = "checking"
    BY <1>0, <1>6 DEF Skip
  <2>2. w \in Works /\ w.at = "checking"
    BY <2>1 DEF Works
  <2>3. admin' = [admin EXCEPT ![a] = w]
    BY <1>0, <1>6 DEF Skip
  <2> HIDE DEF w
  <2> QED
    BY <1>6, <2>2, <2>3, AdminRests DEF Skip
<1>7. ASSUME NEW a \in Admins, NEW i \in Plugin, Unwell(a, i) PROVE PluginInv'
  <2>1. admin[a] \in Works /\ admin[a].at = "checking" /\ i[1] \in PluginNames
    BY <1>0, <1>7, InstanceParts DEF Unwell
  <2>2. [admin[a] EXCEPT !.todo = @ \ {i}] \in Works
    BY <2>1 DEF Works
  <2> QED
    BY <1>7, <2>1, <2>2, UnloadKeeps DEF Unwell, Busy
<1>8. CASE UNCHANGED pluginVars
  BY <1>8 DEF pluginVars, PluginInv, PluginTypes, Instances, Workers, Named, Busy
<1> QED
  BY <1>1, <1>2, <1>3, <1>4, <1>5, <1>6, <1>7, <1>8 DEF PluginNext, AdminStep

\* PluginInv holds to begin with.
LEMMA PluginInvInit == PluginInit => PluginInv
<1> SUFFICES ASSUME PluginInit PROVE PluginInv
  OBVIOUS
<1>1. PICK up \in SUBSET allowed :
         /\ registered = [n \in PluginNames |-> IF n \in up THEN <<n, 1>> ELSE NoPlugin]
         /\ handlers = [i \in Plugin |-> IF i[2] = 1 /\ i[1] \in up THEN 1 ELSE 0]
  BY DEF PluginInit
<1>2. allowed \subseteq PluginNames
  BY DEF PluginInit, Filtered, Discovered, Valid
<1>3. /\ loads = handlers /\ made = [n \in PluginNames |-> 1] /\ unloads = [i \in Plugin |-> 0]
      /\ admin = [a \in Admins |-> IdleAdmin]
  BY DEF PluginInit
<1>4. \A n \in PluginNames : <<n, 1>> \in Plugin
  BY PluginAssumption DEF Plugin
<1>5. IdleAdmin \in Works /\ IdleAdmin.at = "idle"
  BY DEF IdleAdmin, Works
<1>6. PluginTypes
  BY <1>1, <1>2, <1>3, <1>4, <1>5, PluginAssumption DEF PluginTypes
<1>7. Instances
  <2> SUFFICES ASSUME NEW i \in Plugin
               PROVE  /\ unloads[i] <= loads[i] /\ handlers[i] <= 1
                      /\ registered[i[1]] = i => loads[i] = unloads[i] + 1 /\ handlers[i] = 1
                      /\ i[2] > made[i[1]] => loads[i] = 0 /\ unloads[i] = 0 /\ handlers[i] = 0
    BY DEF Instances
  <2>1. i[1] \in PluginNames /\ i[2] \in Nat /\ i # NoPlugin
    BY InstanceParts
  <2>2. registered[i[1]] = i => i[2] = 1 /\ i[1] \in up
    BY <1>1, <2>1
  <2> QED
    BY <1>1, <1>3, <2>1, <2>2
<1>8. Workers
  BY <1>3, <1>5 DEF Workers, Busy
<1>9. Named
  BY <1>1, <1>4 DEF Named
<1> QED
  BY <1>6, <1>7, <1>8, <1>9 DEF PluginInv

\* The state of an instance and the task of an administrator determine each other: an instance that has its
\* name is up and in the registry once, and one that an unload_plugin took has been taken by one coroutine, through
\* any loads, unloads, enables and disables in any order (plugin_manager.py:21-86, plugin.py:46-79).
THEOREM PluginInvariant == PluginSpec => []PluginInv
BY PluginInvInit, PluginInvKept, PTL DEF PluginSpec

\* No instance is shut down more often than it was started, and none has its handlers in the registry twice,
\* however often plugins are loaded, unloaded, disabled and enabled by administrators at once
\* (plugin_manager.py:29-86, plugin_routes_actions.py:35-82).
THEOREM UnloadedAndHookedOnce == PluginSpec => []PluginsOnce
<1>1. PluginInv => PluginsOnce
  BY DEF PluginInv, Instances, PluginsOnce, UnloadOnce, HookedOnce
<1> QED
  BY <1>1, PluginInvariant, PTL

(***************************************************************************)
(* TenantStore, for any visitors and any version of the file.                *)
(***************************************************************************)

\* A column is in the file if its table is, and the file counts as of its version or newer.
Grounded ==
    \A i \in 1..6 :
        /\ Alters[i].table \in file.tables
        /\ file.recorded = 0 \/ Alters[i].version <= file.recorded
        => Alters[i].column \in file.columns

\* How far an init_db has come is in the file.
At(v, p) == \E why \in For : vpc[v] = <<why, p>>
ScriptDone == \A v \in Visitors : At(v, "version") \/ At(v, "alter") => file.tables = Tables
AltersDone ==
    \A v \in Visitors :
        /\ At(v, "alter") => \A i \in 1..6 : i < next[v] => Alters[i].column \in file.columns
        /\ At(v, "record") \/ At(v, "roles") => file.columns = Columns
        /\ At(v, "roles") => file.recorded = SchemaVersion

\* A file of this program's making is of no version or of the last, and no ALTER is due on it.
NoneDue ==
    began \in {0, SchemaVersion} =>
        /\ file.recorded \in {0, SchemaVersion}
        /\ \A v \in Visitors : At(v, "alter") => next[v] = 7

TenantInv ==
    TenantTypes /\ Grounded /\ ScriptDone /\ AltersDone /\ NoneDue /\ ServedIsComplete /\ FreshNeverFails

-----------------------------------------------------------------------------
\* The six ALTERs of the schema and the versions that call for them.
LEMMA AltersShape ==
    /\ DOMAIN Alters = 1..6 /\ Len(Alters) = 6
    /\ \A i \in 1..6 : Alters[i].version \in 1..14 /\ Alters[i].table \in Tables
<1>1. DOMAIN Alters = 1..6 /\ Len(Alters) = 6
  BY DEF Alters
<1>2. DOMAIN Creates = 1..3 /\ Creates[1] = "agents" /\ Creates[2] = "task_graphs" /\ Creates[3] = "pipeline_runs"
  BY DEF Creates
<1>3. "agents" \in Tables /\ "task_graphs" \in Tables /\ "pipeline_runs" \in Tables
  BY <1>2 DEF Tables
<1>4. ASSUME NEW i \in 1..6 PROVE Alters[i].version \in 1..14 /\ Alters[i].table \in Tables
  <2>1. i = 1 \/ i = 2 \/ i = 3 \/ i = 4 \/ i = 5 \/ i = 6
    OBVIOUS
  <2> QED
    BY <1>3, <2>1 DEF Alters
<1> QED
  BY <1>1, <1>4

\* The columns that the ALTERs add are columns of their tables.
LEMMA SomeColumns ==
    /\ Columns = {Alters[i].column : i \in 1..6}
    /\ \A t : ColumnsOf(t) \subseteq Columns
    /\ \A v : ColumnsAt(v) \subseteq Columns
    /\ \A i \in 1..6 : Alters[i].column \in ColumnsOf(Alters[i].table)
    /\ \A v : \A i \in 1..6 : Alters[i].version <= v => Alters[i].column \in ColumnsAt(v)
BY AltersShape DEF Columns, ColumnsOf, ColumnsAt

FileShape == [tables : SUBSET Tables, columns : SUBSET Columns, recorded : Nat, roles : BOOLEAN]

\* A file of any version has what the versions up to it have added.
LEMMA FileAtStart ==
    ASSUME NEW v \in Nat
    PROVE  /\ FileOf(v) \in FileShape /\ FileOf(v).recorded = v
           /\ \A i \in 1..6 : Alters[i].table \in FileOf(v).tables /\ (v = 0 \/ Alters[i].version <= v) =>
                  Alters[i].column \in FileOf(v).columns
<1>1. CASE v = 0
  BY <1>1 DEF FileOf, FileShape
<1>2. CASE v # 0
  <2> DEFINE ts == IF v >= 12 THEN Tables ELSE Tables \ {"pipeline_runs"}
             cs == ColumnsAt(v) \cap UNION {ColumnsOf(t) : t \in ts}
  <2>1. FileOf(v) = [tables |-> ts, recorded |-> v, roles |-> v >= 9, columns |-> cs]
    BY <1>2 DEF FileOf
  <2>2. ts \subseteq Tables /\ cs \subseteq Columns
    BY SomeColumns
  <2>3. \A i \in 1..6 : Alters[i].table \in ts /\ Alters[i].version <= v => Alters[i].column \in cs
    BY SomeColumns
  <2>4. (v >= 9) \in BOOLEAN
    OBVIOUS
  <2> HIDE DEF ts, cs
  <2> QED
    BY <1>2, <2>1, <2>2, <2>3, <2>4 DEF FileShape
<1> QED
  BY <1>1, <1>2

\* A file that has more in it than before, recorded no differently or as of today.
MoreInFile ==
    /\ file' \in FileShape
    /\ file.tables \subseteq file'.tables /\ file.columns \subseteq file'.columns
    /\ file'.recorded \in {file.recorded, SchemaVersion}
    /\ file.roles => file'.roles

\* The file as a record.
LEMMA FileIs == ASSUME TenantTypes PROVE file \in FileShape
BY DEF TenantTypes, FileShape

\* A file that has everything keeps it when the file grows.
LEMMA CompleteStays ==
    ASSUME MoreInFile, Complete
    PROVE  Complete'
BY DEF MoreInFile, Complete, FileShape

\* What is known of a visitor that is in init_db.
Knows(v) ==
    /\ At(v, "version") \/ At(v, "alter") => file.tables = Tables
    /\ At(v, "alter") => \A i \in 1..6 : i < next[v] => Alters[i].column \in file.columns
    /\ At(v, "record") \/ At(v, "roles") => file.columns = Columns
    /\ At(v, "roles") => file.recorded = SchemaVersion
    /\ began \in {0, SchemaVersion} => (At(v, "alter") => next[v] = 7)

\* ScriptDone, AltersDone and NoneDue, visitor by visitor.
LEMMA AllKnow ==
    (ScriptDone /\ AltersDone /\ NoneDue)
        <=> (\A v \in Visitors : Knows(v)) /\ (began \in {0, SchemaVersion} => file.recorded \in {0, SchemaVersion})
BY DEF ScriptDone, AltersDone, NoneDue, Knows

\* A visitor that has not moved knows no less when there is more in the file.
LEMMA StillKnows ==
    ASSUME NEW v \in Visitors, Knows(v), vpc'[v] = vpc[v], next'[v] = next[v], began' = began, MoreInFile
    PROVE  Knows(v)'
<1>1. \A p : At(v, p)' <=> At(v, p)
  BY DEF At
<1>2. file'.tables \subseteq Tables /\ file'.columns \subseteq Columns
  BY DEF MoreInFile, FileShape
<1> QED
  BY <1>1, <1>2 DEF Knows, MoreInFile

\* One visitor has moved, whatever else is known of its step.
Moved(v) ==
    /\ \A w \in Visitors \ {v} : vpc'[w] = vpc[w] /\ next'[w] = next[w]
    /\ vpc' \in [Visitors -> VisitorPlaces] /\ next' \in [Visitors -> 1..7]
    /\ began' = began /\ restarts' = restarts /\ row' \in {"none", "active", "deleted"}

\* A step of one visitor, with which the file grows, keeps the invariant if it does for the visitor.
LEMMA OneMoves ==
    ASSUME TenantInv, NEW v \in Visitors, Moved(v), MoreInFile, Knows(v)', Grounded',
           cached' \in Visitors \cup {NoStorage}, deps' \in Visitors \cup {NoStorage},
           cached' # NoStorage \/ deps' # NoStorage => Complete',
           failed' \in BOOLEAN, FreshNeverFails'
    PROVE  TenantInv'
<1>1. TenantTypes'
  BY AltersShape DEF TenantInv, TenantTypes, Moved, MoreInFile, FileShape
<1>2. \A w \in Visitors : Knows(w)
  BY AllKnow DEF TenantInv
<1>3. \A w \in Visitors : Knows(w)'
  BY <1>2, StillKnows DEF Moved
<1>4. began' \in {0, SchemaVersion} => file'.recorded \in {0, SchemaVersion}
  BY DEF TenantInv, NoneDue, Moved, MoreInFile
<1>5. (ScriptDone /\ AltersDone /\ NoneDue)'
  BY <1>3, <1>4 DEF ScriptDone, AltersDone, NoneDue, Knows
<1>6. ServedIsComplete'
  BY DEF ServedIsComplete
<1> QED
  BY <1>1, <1>5, <1>6 DEF TenantInv

\* A file that stays as it is stays grounded.
LEMMA SameFile ==
    ASSUME TenantTypes, Grounded, UNCHANGED file
    PROVE  MoreInFile /\ Grounded'
BY FileIs DEF MoreInFile, Grounded

FreePlaces == {Idle, <<"create", "insert">>, <<"delete", "evict">>} \cup (For \X {"lookup", "script"})

\* Outside of init_db, and before its script is through, nothing is known.
LEMMA FreeKnows ==
    ASSUME NEW v \in Visitors, vpc[v] \in FreePlaces
    PROVE  Knows(v)
<1>1. ASSUME NEW p \in {"version", "alter", "record", "roles"}, At(v, p) PROVE FALSE
  <2>1. PICK why \in For : vpc[v] = <<why, p>>
    BY <1>1 DEF At
  <2>2. <<why, p>> \in FreePlaces
    BY <2>1
  <2> QED
    BY <2>1, <2>2 DEF FreePlaces, Idle, For
<1> QED
  BY <1>1 DEF Knows

\* The requests that leave the file as it is.
LEMMA RequestKeeps ==
    ASSUME TenantInv, NEW v \in Visitors, UNCHANGED <<began, file, next, failed, restarts>>,
           row' \in {"none", "active", "deleted"}, NEW from, NEW to \in FreePlaces, vpc[v] = from,
           vpc' = [vpc EXCEPT ![v] = to],
           cached' \in {cached, NoStorage}, deps' \in {deps, cached, NoStorage}
    PROVE  TenantInv'
<1>1. vpc' \in [Visitors -> VisitorPlaces] /\ vpc'[v] = to /\ \A w \in Visitors \ {v} : vpc'[w] = vpc[w]
  <2>1. to \in VisitorPlaces
    BY DEF FreePlaces, VisitorPlaces, InitDbPlaces
  <2> QED
    BY <2>1 DEF TenantInv, TenantTypes
<1>2. Moved(v)
  BY <1>1, AltersShape DEF Moved, TenantInv, TenantTypes
<1>3. MoreInFile /\ Grounded'
  BY SameFile DEF TenantInv
<1>4. Knows(v)'
  <2>1. vpc'[v] \in FreePlaces
    BY <1>1
  <2>2. \A p \in {"version", "alter", "record", "roles"} : ~ At(v, p)'
    <3> SUFFICES ASSUME NEW p \in {"version", "alter", "record", "roles"}, NEW why \in For, <<why, p>> \in FreePlaces
                 PROVE  FALSE
      BY <2>1 DEF At
    <3> QED
      BY DEF FreePlaces, Idle, For
  <2> QED
    BY <2>2 DEF Knows
<1>5. cached' # NoStorage \/ deps' # NoStorage => Complete'
  BY DEF TenantInv, ServedIsComplete, Complete
<1>6. FreshNeverFails'
  BY DEF TenantInv, FreshNeverFails
<1>7. cached' \in Visitors \cup {NoStorage} /\ deps' \in Visitors \cup {NoStorage} /\ failed' \in BOOLEAN
  BY DEF TenantInv, TenantTypes
<1> QED
  BY <1>2, <1>3, <1>4, <1>5, <1>6, <1>7, OneMoves

\* A step of init_db that hands out no storage.
LEMMA InitDbKeeps ==
    ASSUME TenantInv, NEW v \in Visitors, NEW why \in For, NEW p \in {"script", "version", "alter", "record", "roles"},
           vpc' = [vpc EXCEPT ![v] = <<why, p>>], UNCHANGED <<began, row, cached, deps, failed, restarts>>,
           NEW n \in 1..7, next' = [next EXCEPT ![v] = n], MoreInFile, Grounded',
           p \in {"version", "alter"} => file'.tables = Tables,
           p = "alter" => \A i \in 1..6 : i < n => Alters[i].column \in file'.columns,
           p \in {"record", "roles"} => file'.columns = Columns,
           p = "roles" => file'.recorded = SchemaVersion,
           began \in {0, SchemaVersion} => (p = "alter" => n = 7)
    PROVE  TenantInv'
<1>1. vpc' \in [Visitors -> VisitorPlaces] /\ vpc'[v] = <<why, p>> /\ \A w \in Visitors \ {v} : vpc'[w] = vpc[w]
  <2>1. <<why, p>> \in VisitorPlaces
    BY DEF VisitorPlaces, InitDbPlaces
  <2> QED
    BY <2>1 DEF TenantInv, TenantTypes
<1>2. next' \in [Visitors -> 1..7] /\ next'[v] = n /\ \A w \in Visitors \ {v} : next'[w] = next[w]
  BY AltersShape DEF TenantInv, TenantTypes
<1>3. Moved(v)
  BY <1>1, <1>2 DEF Moved, TenantInv, TenantTypes
<1>4. \A q : At(v, q)' => q = p
  BY <1>1 DEF At
<1>5. Knows(v)'
  BY <1>2, <1>4 DEF Knows
<1>6. cached' # NoStorage \/ deps' # NoStorage => Complete'
  BY CompleteStays DEF TenantInv, ServedIsComplete
<1>7. FreshNeverFails'
  BY DEF TenantInv, FreshNeverFails
<1>8. cached' \in Visitors \cup {NoStorage} /\ deps' \in Visitors \cup {NoStorage} /\ failed' \in BOOLEAN
  BY DEF TenantInv, TenantTypes
<1> QED
  BY <1>3, <1>5, <1>6, <1>7, <1>8, OneMoves

\* A step from a place to another one is a move of the visitor.
LEMMA StepIs ==
    ASSUME TenantInv, NEW v \in Visitors, NEW from, NEW to, Step(v, from, to)
    PROVE  vpc[v] = from /\ vpc' = [vpc EXCEPT ![v] = to]
BY DEF Step

\* Who does not move stays where it is,
LEMMA StaysAt ==
    ASSUME TenantInv, NEW v \in Visitors, UNCHANGED vpc
    PROVE  vpc' = [vpc EXCEPT ![v] = vpc[v]]
BY DEF TenantInv, TenantTypes

\* and its next ALTER stays.
LEMMA NextStays ==
    ASSUME TenantInv, NEW v \in Visitors, UNCHANGED next
    PROVE  next' = [next EXCEPT ![v] = next[v]] /\ next[v] \in 1..7
BY AltersShape DEF TenantInv, TenantTypes

\* executescript: the tables, and the columns of those that were not there.
LEMMA ScriptKeeps ==
    ASSUME TenantInv, NEW v \in Visitors, NEW why \in For, Script(v, why)
    PROVE  TenantInv'
<1>0. next' = [next EXCEPT ![v] = next[v]] /\ next[v] \in 1..7 /\ UNCHANGED <<began, row, cached, deps, failed, restarts>>
  BY NextStays DEF Script
<1>1. CASE file.tables = Tables /\ Step(v, <<why, "script">>, <<why, "version">>) /\ UNCHANGED file
  <2>1. MoreInFile /\ Grounded'
    BY <1>1, SameFile DEF TenantInv
  <2> QED
    BY <1>0, <1>1, <2>1, InitDbKeeps DEF Step
<1>2. ASSUME NEW i \in DOMAIN Creates,
             file' = [file EXCEPT !.tables = @ \cup {Creates[i]}, !.columns = @ \cup ColumnsOf(Creates[i])],
             vpc[v] = <<why, "script">>, UNCHANGED vpc
      PROVE  TenantInv'
  <2>1. file \in FileShape
    BY FileIs DEF TenantInv
  <2>2. Creates[i] \in Tables /\ ColumnsOf(Creates[i]) \subseteq Columns
    BY SomeColumns DEF Tables
  <2>3. /\ file'.tables = file.tables \cup {Creates[i]} /\ file'.columns = file.columns \cup ColumnsOf(Creates[i])
        /\ file'.recorded = file.recorded /\ file'.roles = file.roles
        /\ file' = [tables |-> file'.tables, columns |-> file'.columns, recorded |-> file'.recorded, roles |-> file'.roles]
    BY <1>2, <2>1 DEF FileShape
  <2>4. MoreInFile
    BY <2>1, <2>2, <2>3 DEF MoreInFile, FileShape
  <2>5. Grounded'
    BY <2>3, SomeColumns DEF TenantInv, Grounded
  <2>6. vpc' = [vpc EXCEPT ![v] = <<why, "script">>]
    BY <1>2, StaysAt
  <2> QED
    BY <1>0, <2>4, <2>5, <2>6, InitDbKeeps
<1> QED
  BY <1>1, <1>2 DEF Script

\* The version is read: the ALTERs from there on are due.
LEMMA ReadVersionKeeps ==
    ASSUME TenantInv, NEW v \in Visitors, NEW why \in For, ReadVersion(v, why)
    PROVE  TenantInv'
<1> DEFINE current == IF file.recorded = 0 THEN SchemaVersion ELSE file.recorded
           due == {i \in DOMAIN Alters : Alters[i].version > current}
           n == IF due = {} THEN Len(Alters) + 1 ELSE Min(due)
<1>1. vpc[v] = <<why, "version">> /\ vpc' = [vpc EXCEPT ![v] = <<why, "alter">>] /\ next' = [next EXCEPT ![v] = n]
      /\ UNCHANGED <<began, row, file, cached, deps, failed, restarts>>
  BY DEF ReadVersion, Step
<1>2. file.recorded \in Nat /\ current \in Nat
  BY DEF TenantInv, TenantTypes, SchemaVersion
<1>3. due \subseteq 1..6
  BY AltersShape
<1>4. n \in 1..7 /\ \A i \in 1..6 : i < n => i \notin due
  <2>1. CASE due = {}
    BY <2>1, AltersShape
  <2>2. CASE due # {}
    <3>1. \E x \in due : \A y \in due : x <= y
      BY <1>3, <2>2 DEF due
    <3> HIDE DEF due
    <3>2. Min(due) \in due /\ \A y \in due : Min(due) <= y
      BY <3>1 DEF Min
    <3>3. n = Min(due)
      BY <2>2
    <3> HIDE DEF n
    <3>4. n \in 1..6
      BY <1>3, <3>2, <3>3
    <3>5. ASSUME NEW i \in 1..6, i < n, i \in due PROVE FALSE
      <4>1. n <= i
        BY <3>2, <3>3, <3>5
      <4> QED
        BY <3>4, <3>5, <4>1
    <3> QED
      BY <3>4, <3>5
  <2> QED
    BY <2>1, <2>2
<1>5. file.tables = Tables
  BY <1>1 DEF TenantInv, ScriptDone, At
<1>6. \A i \in 1..6 : i < n => Alters[i].column \in file.columns
  <2> SUFFICES ASSUME NEW i \in 1..6, i < n PROVE Alters[i].column \in file.columns
    OBVIOUS
  <2>1. Alters[i].version <= current /\ Alters[i].table \in file.tables
    BY <1>2, <1>4, <1>5, AltersShape
  <2> QED
    BY <2>1 DEF TenantInv, Grounded
<1>7. began \in {0, SchemaVersion} => n = 7
  <2> SUFFICES ASSUME began \in {0, SchemaVersion} PROVE n = 7
    OBVIOUS
  <2>1. current = 14
    BY DEF TenantInv, NoneDue, SchemaVersion
  <2>2. due = {}
    BY <2>1, AltersShape
  <2> QED
    BY <2>2, AltersShape
<1>8. MoreInFile /\ Grounded'
  BY <1>1, SameFile DEF TenantInv
<1> HIDE DEF n
<1> QED
  BY <1>1, <1>4, <1>5, <1>6, <1>7, <1>8, InitDbKeeps

\* One ALTER, or its failure when the column is there.
LEMMA AlterKeeps ==
    ASSUME TenantInv, NEW v \in Visitors, NEW why \in For, Alter(v, why)
    PROVE  TenantInv'
<1>0. vpc[v] = <<why, "alter">> /\ UNCHANGED <<began, row, cached, deps, restarts>> /\ next[v] \in 1..7
  BY AltersShape DEF Alter, TenantInv, TenantTypes
<1>1. /\ file.tables = Tables /\ \A i \in 1..6 : i < next[v] => Alters[i].column \in file.columns
      /\ began \in {0, SchemaVersion} => next[v] = 7
  BY <1>0 DEF TenantInv, ScriptDone, AltersDone, NoneDue, At
<1>2. CASE next[v] > Len(Alters) /\ Step(v, <<why, "alter">>, <<why, "record">>) /\ UNCHANGED <<file, next, failed>>
  <2>1. file.columns = Columns
    BY <1>0, <1>1, <1>2, SomeColumns, AltersShape, FileIs DEF TenantInv, FileShape
  <2>2. MoreInFile /\ Grounded'
    BY <1>2, SameFile DEF TenantInv
  <2>3. next' = [next EXCEPT ![v] = next[v]]
    BY <1>2, NextStays
  <2> QED
    BY <1>0, <1>2, <2>1, <2>2, <2>3, InitDbKeeps DEF Step
<1>3. CASE /\ next[v] <= Len(Alters)
           /\ file' = [file EXCEPT !.columns = @ \cup {Alters[next[v]].column}]
           /\ next' = [next EXCEPT ![v] = @ + 1] /\ UNCHANGED <<vpc, failed>>
  <2> DEFINE c == Alters[next[v]].column
  <2>1. file \in FileShape /\ c \in Columns /\ next[v] + 1 \in 1..7
    BY <1>0, <1>3, FileIs, SomeColumns, AltersShape DEF TenantInv
  <2>2. /\ file'.tables = file.tables /\ file'.columns = file.columns \cup {c}
        /\ file'.recorded = file.recorded /\ file'.roles = file.roles
        /\ file' = [tables |-> file'.tables, columns |-> file'.columns, recorded |-> file'.recorded, roles |-> file'.roles]
    BY <1>3, <2>1 DEF FileShape
  <2>3. MoreInFile /\ Grounded'
    BY <2>1, <2>2 DEF MoreInFile, FileShape, TenantInv, Grounded
  <2>4. \A i \in 1..6 : i < next[v] + 1 => Alters[i].column \in file'.columns
    <3> SUFFICES ASSUME NEW i \in 1..6, i < next[v] + 1 PROVE Alters[i].column \in file'.columns
      OBVIOUS
    <3>1. i < next[v] \/ i = next[v]
      BY <1>0
    <3> QED
      BY <1>1, <2>2, <3>1
  <2>5. vpc' = [vpc EXCEPT ![v] = <<why, "alter">>]
    BY <1>0, <1>3, StaysAt
  <2>6. began \notin {0, SchemaVersion}
    BY <1>0, <1>1, <1>3, AltersShape
  <2> HIDE DEF c
  <2> QED
    BY <1>0, <1>1, <1>3, <2>1, <2>2, <2>3, <2>4, <2>5, <2>6, InitDbKeeps
<1>4. CASE next[v] <= Len(Alters) /\ failed' = TRUE /\ Step(v, <<why, "alter">>, Idle) /\ UNCHANGED <<file, next>>
  <2>1. began \notin {0, SchemaVersion}
    BY <1>0, <1>1, <1>4, AltersShape
  <2>2. MoreInFile /\ Grounded'
    BY <1>4, SameFile DEF TenantInv
  <2>3. vpc' \in [Visitors -> VisitorPlaces] /\ vpc'[v] = Idle /\ \A w \in Visitors \ {v} : vpc'[w] = vpc[w]
    BY <1>4 DEF Step, VisitorPlaces, TenantInv, TenantTypes
  <2>4. Moved(v)
    BY <1>0, <1>4, <2>3, AltersShape DEF Moved, TenantInv, TenantTypes
  <2>5. Knows(v)'
    BY <2>3 DEF Knows, At, Idle, For
  <2>6. cached' # NoStorage \/ deps' # NoStorage => Complete'
    BY <1>0, <2>2, CompleteStays DEF TenantInv, ServedIsComplete
  <2>7. FreshNeverFails'
    BY <1>0, <2>1 DEF FreshNeverFails
  <2>8. cached' \in Visitors \cup {NoStorage} /\ deps' \in Visitors \cup {NoStorage} /\ failed' \in BOOLEAN
    BY <1>0, <1>4 DEF TenantInv, TenantTypes
  <2> QED
    BY <2>2, <2>4, <2>5, <2>6, <2>7, <2>8, OneMoves
<1> QED
  BY <1>2, <1>3, <1>4 DEF Alter

\* The version is recorded after the ALTERs.
LEMMA RecordKeeps ==
    ASSUME TenantInv, NEW v \in Visitors, NEW why \in For, Record(v, why)
    PROVE  TenantInv'
<1>1. vpc[v] = <<why, "record">> /\ vpc' = [vpc EXCEPT ![v] = <<why, "roles">>]
      /\ UNCHANGED <<began, row, cached, deps, next, failed, restarts>>
      /\ file' = [file EXCEPT !.recorded = SchemaVersion]
  BY DEF Record, Step
<1>2. file.columns = Columns /\ file \in FileShape
  BY <1>1, FileIs DEF TenantInv, AltersDone, At
<1>3. /\ file'.tables = file.tables /\ file'.columns = Columns /\ file'.recorded = SchemaVersion /\ file'.roles = file.roles
      /\ file' = [tables |-> file'.tables, columns |-> file'.columns, recorded |-> file'.recorded, roles |-> file'.roles]
  BY <1>1, <1>2 DEF FileShape
<1>4. MoreInFile /\ Grounded'
  BY <1>2, <1>3, SomeColumns DEF MoreInFile, FileShape, Grounded, SchemaVersion
<1>5. next' = [next EXCEPT ![v] = next[v]] /\ next[v] \in 1..7
  BY <1>1, NextStays
<1> QED
  BY <1>1, <1>3, <1>4, <1>5, InitDbKeeps

\* The roles are put in, and the database is handed out.
LEMMA SeedRolesKeeps ==
    ASSUME TenantInv, NEW v \in Visitors, NEW why \in For, SeedRoles(v, why)
    PROVE  TenantInv'
<1>1. vpc[v] = <<why, "roles">> /\ vpc' = [vpc EXCEPT ![v] = Idle]
      /\ UNCHANGED <<began, row, next, failed, restarts>> /\ cached' = v /\ deps' \in {deps, v}
      /\ file' = [file EXCEPT !.roles = TRUE]
  BY DEF SeedRoles, Got
<1>2. file.columns = Columns /\ file \in FileShape /\ file.recorded = SchemaVersion
  BY <1>1, FileIs DEF TenantInv, AltersDone, At
<1>3. /\ file'.tables = file.tables /\ file'.columns = Columns /\ file'.recorded = SchemaVersion /\ file'.roles = TRUE
      /\ file' = [tables |-> file'.tables, columns |-> file'.columns, recorded |-> file'.recorded, roles |-> file'.roles]
  BY <1>1, <1>2 DEF FileShape
<1>4. MoreInFile /\ Grounded'
  BY <1>2, <1>3, SomeColumns DEF MoreInFile, FileShape, Grounded, SchemaVersion
<1>5. Complete'
  BY <1>3 DEF Complete
<1>6. vpc' \in [Visitors -> VisitorPlaces] /\ vpc'[v] = Idle /\ \A w \in Visitors \ {v} : vpc'[w] = vpc[w]
  BY <1>1 DEF VisitorPlaces, TenantInv, TenantTypes
<1>7. Moved(v)
  BY <1>1, <1>6, AltersShape DEF Moved, TenantInv, TenantTypes
<1>8. Knows(v)'
  BY <1>6 DEF Knows, At, Idle, For
<1>9. FreshNeverFails'
  BY <1>1 DEF TenantInv, FreshNeverFails
<1>10. cached' \in Visitors \cup {NoStorage} /\ deps' \in Visitors \cup {NoStorage} /\ failed' \in BOOLEAN
  BY <1>1 DEF TenantInv, TenantTypes
<1> QED
  BY <1>4, <1>5, <1>7, <1>8, <1>9, <1>10, OneMoves

\* A restart leaves the file.
LEMMA RestartKeeps ==
    ASSUME TenantInv, Restart
    PROVE  TenantInv'
<1>1. /\ \A v \in Visitors : vpc'[v] = Idle /\ next'[v] = 1
      /\ vpc' = [v \in Visitors |-> Idle] /\ next' = [v \in Visitors |-> 1]
      /\ cached' = NoStorage /\ deps' = NoStorage /\ UNCHANGED <<began, row, file, failed>>
      /\ restarts' \in 0..MaxRestarts
  BY VisitorsAssumption DEF Restart, TenantInv, TenantTypes
<1>2. TenantTypes'
  BY <1>1, AltersShape DEF TenantInv, TenantTypes, VisitorPlaces
<1>3. \A p : \A v \in Visitors : ~ At(v, p)'
  BY <1>1 DEF At, Idle, For
<1>4. (ScriptDone /\ AltersDone /\ NoneDue)'
  BY <1>1, <1>3 DEF TenantInv, ScriptDone, AltersDone, NoneDue
<1>5. Grounded' /\ ServedIsComplete' /\ FreshNeverFails'
  BY <1>1 DEF TenantInv, Grounded, ServedIsComplete, FreshNeverFails
<1> QED
  BY <1>2, <1>4, <1>5 DEF TenantInv

\* Every step keeps TenantInv.
LEMMA TenantInvKept == TenantInv /\ [TenantNext]_tenantVars => TenantInv'
<1> SUFFICES ASSUME TenantInv, [TenantNext]_tenantVars PROVE TenantInv'
  OBVIOUS
<1>0. /\ row \in {"none", "active", "deleted"} /\ Idle \in FreePlaces /\ <<"create", "insert">> \in FreePlaces /\ <<"delete", "evict">> \in FreePlaces
      /\ \A why \in For : <<why, "lookup">> \in FreePlaces /\ <<why, "script">> \in FreePlaces
      /\ "create" \in For /\ "connect" \in For
  BY DEF TenantInv, TenantTypes, FreePlaces, For
<1>1. ASSUME NEW v \in Visitors, CreateTenant(v) \/ DeleteTenant(v) \/ LazyConnect(v) PROVE TenantInv'
  <2>1. PICK to \in FreePlaces : vpc' = [vpc EXCEPT ![v] = to]
    BY <1>0, <1>1 DEF CreateTenant, DeleteTenant, LazyConnect, Step
  <2>2. row' \in {"none", "active", "deleted"} /\ UNCHANGED <<began, file, cached, deps, next, failed, restarts>>
    BY <1>0, <1>1 DEF CreateTenant, DeleteTenant, LazyConnect
  <2> QED
    BY <2>1, <2>2, RequestKeeps
<1>2. ASSUME NEW v \in Visitors, InsertTenant(v) \/ RemoveTenantStorage(v) PROVE TenantInv'
  <2>1. PICK to \in FreePlaces : vpc' = [vpc EXCEPT ![v] = to]
    BY <1>0, <1>2 DEF InsertTenant, RemoveTenantStorage, Step
  <2>2. row' \in {"none", "active", "deleted"} /\ UNCHANGED <<began, file, deps, next, failed, restarts>>
        /\ cached' \in {cached, NoStorage}
    BY <1>0, <1>2 DEF InsertTenant, RemoveTenantStorage
  <2> QED
    BY <2>1, <2>2, RequestKeeps
<1>3. ASSUME NEW v \in Visitors, NEW why \in For, GetTenantStorage(v, why) PROVE TenantInv'
  <2>1. PICK to \in FreePlaces : vpc' = [vpc EXCEPT ![v] = to]
    BY <1>0, <1>3 DEF GetTenantStorage, Got, Step
  <2>2. row' = row /\ UNCHANGED <<began, file, cached, next, failed, restarts>> /\ deps' \in {deps, cached}
    BY <1>3 DEF GetTenantStorage, Got
  <2> QED
    BY <1>0, <2>1, <2>2, RequestKeeps
<1>4. ASSUME NEW v \in Visitors, NEW why \in For, InitDb(v, why) PROVE TenantInv'
  BY <1>4, ScriptKeeps, ReadVersionKeeps, AlterKeeps, RecordKeeps, SeedRolesKeeps DEF InitDb
<1>5. CASE Restart
  BY <1>5, RestartKeeps
<1>6. CASE UNCHANGED tenantVars
  BY <1>6 DEF tenantVars, TenantInv, TenantTypes, Grounded, ScriptDone, AltersDone, NoneDue, At, ServedIsComplete,
     FreshNeverFails, Complete
<1> QED
  BY <1>1, <1>2, <1>3, <1>4, <1>5, <1>6 DEF TenantNext, VisitorStep

\* TenantInv holds to begin with.
LEMMA TenantInvInit == TenantInit => TenantInv
<1> SUFFICES ASSUME TenantInit PROVE TenantInv
  OBVIOUS
<1>1. began \in Nat /\ file = FileOf(began)
  BY VisitorsAssumption DEF TenantInit
<1>2. file \in FileShape /\ file.recorded = began
  BY <1>1, FileAtStart
<1>3. TenantTypes
  <2>1. began \in FileVersions /\ cached = NoStorage /\ deps = NoStorage /\ failed \in BOOLEAN
    BY DEF TenantInit
  <2>3. row \in {"none", "active", "deleted"}
    BY DEF TenantInit
  <2>4. restarts \in 0..MaxRestarts
    BY VisitorsAssumption DEF TenantInit
  <2>2. vpc \in [Visitors -> VisitorPlaces] /\ next \in [Visitors -> 1..7]
    BY DEF TenantInit, VisitorPlaces
  <2> QED
    BY <1>2, <2>1, <2>2, <2>3, <2>4, AltersShape DEF TenantTypes, FileShape
<1>4. Grounded
  BY <1>1, <1>2, FileAtStart DEF Grounded
<1>5. \A p : \A v \in Visitors : ~ At(v, p)
  BY DEF TenantInit, At, Idle, For
<1>6. ScriptDone /\ AltersDone /\ NoneDue
  BY <1>2, <1>5 DEF ScriptDone, AltersDone, NoneDue
<1>7. ServedIsComplete /\ FreshNeverFails
  BY DEF TenantInit, ServedIsComplete, FreshNeverFails
<1> QED
  BY <1>3, <1>4, <1>6, <1>7 DEF TenantInv

\* How far an init_db has come is in the file, whoever else runs one: the script is in it before the version is
\* read, and every ALTER that the version calls for is in it before the version is recorded, with any number of
\* visitors, restarts and versions of the file (storage/storage.py:58-130, manager.py:29-41).
THEOREM TenantInvariant == TenantSpec => []TenantInv
BY TenantInvInit, TenantInvKept, PTL DEF TenantSpec

\* A tenant's database that is cached or handed out has all its tables and columns, and a file that this version
\* of the program began never makes init_db fail, not even half made and set up by several visitors at once
\* (storage_manager.py:16-64, storage/storage.py:58-130).
THEOREM ServedDatabasesAreWhole == TenantSpec => []TenantFilesSound
<1>1. TenantInv => TenantFilesSound
  BY DEF TenantInv, TenantFilesSound
<1> QED
  BY <1>1, TenantInvariant, PTL

==============================================================================
