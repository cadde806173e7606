------------------------------ MODULE FileLocks ------------------------------
(***************************************************************************)
(* The file resource tracker (task_resource.py, task_resource_compat.py,   *)
(* task_resource_detect.py) as its callers see it: a table of locks by     *)
(* path, with one recorded holder and a queue of waiting tasks each.  The  *)
(* tracker never suspends, so each call is one step.                       *)
(*                                                                         *)
(* Nobody tells a waiting task that a lock has been handed to it (nothing  *)
(* fills _wait_events): it learns by asking again, unless it has given up. *)
(* What a task may do it believes from the answers it got, and that is not *)
(* what the table records: a second reader is granted a lock that records  *)
(* the first one only.                                                     *)
(***************************************************************************)
EXTENDS Naturals, Sequences

CONSTANTS
    LockTasks,   \* tasks that use files
    Paths,       \* the files
    NoLock       \* a path that is not in the table

Modes == {"read", "write"}

VARIABLES
    uses,      \* [LockTasks -> [Paths -> Modes \cup {"none"}]]: artifact_paths, "r:" for read
    lock,      \* [Paths -> NoLock or the ResourceLock]
    asking,    \* [LockTasks -> SUBSET Paths]: refused, and still wanted
    granted,   \* [LockTasks -> SUBSET Paths]: granted, and not given back
    given,     \* [LockTasks -> SUBSET Paths]: granted and given back
    quit,      \* [LockTasks -> SUBSET Paths]: refused, and no longer wanted
    shared     \* history: <<t, p>> such that t read p together with another reader

lockVars == <<uses, lock, asking, granted, given, quit, shared>>

Locks == [by : LockTasks, mode : Modes, waiting : Seq(LockTasks)]

ASSUME LockAssumption == NoLock \notin Locks

LockInit ==
    /\ uses \in [LockTasks -> [Paths -> Modes \cup {"none"}]]
    /\ lock = [p \in Paths |-> NoLock]
    /\ asking = [t \in LockTasks |-> {}]
    /\ granted = [t \in LockTasks |-> {}]
    /\ given = [t \in LockTasks |-> {}]
    /\ quit = [t \in LockTasks |-> {}]
    /\ shared = {}

-----------------------------------------------------------------------------
(* What a task can ask for: what it uses, has not been granted and has not   *)
(* finished with.                                                            *)

Wants(t, p) == uses[t][p] # "none" /\ p \notin granted[t] \cup given[t] \cup quit[t]
New(t, p) == [by |-> t, mode |-> uses[t][p], waiting |-> <<>>]
Readers(p) == {t \in LockTasks : p \in granted[t] /\ uses[t][p] = "read"}
Sharing(t, p) == IF uses[t][p] = "read" /\ Readers(p) # {}
                 THEN (Readers(p) \cup {t}) \X {p} ELSE {}

\* acquire, one path. A reader that finds a reader is granted, and not recorded.
Compatible(p, m) == lock[p].mode = "read" /\ m = "read"

AcquireFree(t, p) ==
    /\ lock[p] = NoLock
    /\ lock' = [lock EXCEPT ![p] = New(t, p)]

\* MUTANT of AcquireHeld: a task is not known as the holder it has been made.
AcquireCompatible(t, p) == lock[p] # NoLock /\ Compatible(p, uses[t][p]) /\ UNCHANGED lock

AcquireHeld(t, p) ==
    /\ lock[p] # NoLock
    /\ lock[p].by = t \/ Compatible(p, uses[t][p])
    /\ UNCHANGED lock

Acquire(t, p) ==
    /\ Wants(t, p)
    /\ AcquireFree(t, p) \/ AcquireHeld(t, p)
    /\ granted' = [granted EXCEPT ![t] = @ \cup {p}]
    /\ asking' = [asking EXCEPT ![t] = @ \ {p}]
    /\ shared' = shared \cup Sharing(t, p)
    /\ UNCHANGED <<uses, given, quit>>

Waits(t, p) == \E i \in DOMAIN lock[p].waiting : lock[p].waiting[i] = t

\* The task is queued, once, and the answer is False.
Queue(t, p) ==
    /\ Wants(t, p)
    /\ lock[p] # NoLock /\ lock[p].by # t /\ ~ Compatible(p, uses[t][p])
    /\ lock' = IF Waits(t, p) THEN lock ELSE [lock EXCEPT ![p].waiting = Append(@, t)]
    /\ asking' = [asking EXCEPT ![t] = @ \cup {p}]
    /\ UNCHANGED <<uses, granted, given, quit, shared>>

\* MUTANT of Refused: only writers are refused, as if reading could not hurt.
RefusedWriter(t, p) == lock[p] # NoLock /\ lock[p].by # t /\ uses[t][p] = "write"

\* acquire with a list, acquire_sync: all or none. Nobody is queued, and a reader's lock is replaced
\* by another reader's, with its queue.
Refused(t, p) ==
    /\ lock[p] # NoLock
    /\ lock[p].by # t
    /\ uses[t][p] = "write" \/ lock[p].mode = "write"

AcquireAll(t, ps) ==
    /\ ps # {} /\ \A p \in ps : Wants(t, p)
    /\ \A p, q \in ps : uses[t][p] = uses[t][q]
    /\ \A p \in ps : ~ Refused(t, p)
    /\ lock' = [p \in Paths |-> IF p \in ps /\ (lock[p] = NoLock \/ lock[p].by # t)
                                THEN New(t, p) ELSE lock[p]]
    /\ granted' = [granted EXCEPT ![t] = @ \cup ps]
    /\ asking' = [asking EXCEPT ![t] = @ \ ps]
    /\ shared' = shared \cup UNION {Sharing(t, p) : p \in ps}
    /\ UNCHANGED <<uses, given, quit>>

-----------------------------------------------------------------------------
(* release and release_all by a task that is done with what it was granted.  *)

\* The first waiter takes over, as a writer.
HandOver(p) ==
    IF lock[p].waiting = <<>> THEN NoLock
    ELSE [by |-> Head(lock[p].waiting), mode |-> "write", waiting |-> Tail(lock[p].waiting)]

Release(t, p) ==
    /\ p \in granted[t]
    /\ lock' = IF lock[p] # NoLock /\ lock[p].by = t
               THEN [lock EXCEPT ![p] = HandOver(p)] ELSE lock
    /\ granted' = [granted EXCEPT ![t] = @ \ {p}]
    /\ given' = [given EXCEPT ![t] = @ \cup {p}]
    /\ UNCHANGED <<uses, asking, quit, shared>>

\* Every lock recorded for the task goes, with its queue: also one handed to it that it does not know of.
ReleaseAll(t) ==
    /\ granted[t] # {}
    /\ lock' = [p \in Paths |-> IF lock[p] # NoLock /\ lock[p].by = t THEN NoLock ELSE lock[p]]
    /\ given' = [given EXCEPT ![t] = @ \cup granted[t]]
    /\ granted' = [granted EXCEPT ![t] = {}]
    /\ UNCHANGED <<uses, asking, quit, shared>>

\* A refused task goes on without the file, or fails: it does not take its name from the queue.
GiveUp(t, p) ==
    /\ p \in asking[t]
    /\ asking' = [asking EXCEPT ![t] = @ \ {p}]
    /\ quit' = [quit EXCEPT ![t] = @ \cup {p}]
    /\ UNCHANGED <<uses, lock, granted, given, shared>>

LockNext ==
    \E t \in LockTasks :
        \/ \E p \in Paths : Acquire(t, p) \/ Queue(t, p) \/ Release(t, p) \/ GiveUp(t, p)
        \/ \E ps \in SUBSET Paths : AcquireAll(t, ps)
        \/ ReleaseAll(t)

LockSpec == LockInit /\ [][LockNext]_lockVars

\* Tasks end, and give back what they used; one that still wants a path asks again.
LockFairness ==
    \A t \in LockTasks, p \in Paths :
        /\ WF_lockVars(Release(t, p))
        /\ SF_lockVars(p \in asking[t] /\ Acquire(t, p))

-----------------------------------------------------------------------------
LockTypes ==
    /\ uses \in [LockTasks -> [Paths -> Modes \cup {"none"}]]
    /\ lock \in [Paths -> {NoLock} \cup Locks]
    /\ asking \in [LockTasks -> SUBSET Paths]
    /\ granted \in [LockTasks -> SUBSET Paths]
    /\ given \in [LockTasks -> SUBSET Paths]
    /\ quit \in [LockTasks -> SUBSET Paths]
    /\ shared \subseteq LockTasks \X Paths

Uses(t, p, m) == p \in granted[t] /\ uses[t][p] = m

\* Who has been granted a path to write is the one the table records, and so
\* alone among the writers, whatever was queued, handed over, dropped or
\* overwritten in between (acquire, release, acquire_sync, release_all).
WriterRecorded ==
    \A t \in LockTasks, p \in Paths :
        Uses(t, p, "write") => lock[p] # NoLock /\ lock[p].by = t /\ lock[p].mode = "write"

\* A reader meets a writer on one path only if it has shared the path with
\* another reader, of which the table forgets one: the one way in which "read-write
\* is a conflict" fails (acquire returns True without a record).
OnlySharersMeetWriters ==
    \A t, u \in LockTasks, p \in Paths :
        Uses(t, p, "read") /\ Uses(u, p, "write") => <<t, p>> \in shared

\* No lock is left behind by a task that has given the path back: it is in use,
\* or was handed to a task that still asks for it, or to one that has given up
\* (release hands the lock to whoever is first in the queue). Without quitters,
\* a path that nobody uses or asks for is free.
LockAccounted ==
    \A p \in Paths : lock[p] # NoLock =>
        LET t == lock[p].by IN p \in granted[t] \cup asking[t] \cup quit[t]

\* The table tells the truth of writers, of readers that share nothing, and of who holds on to a path.
TableTruthful == WriterRecorded /\ OnlySharersMeetWriters /\ LockAccounted

\* When no task gives up, whoever asks for a path is granted it: a task asks for what it
\* uses until it gets it, so in the end nobody asks (acquire queues, release hands over).
PatientServed == <>[]((\A t \in LockTasks : quit[t] = {}) => \A t \in LockTasks : asking[t] = {})
=============================================================================
