-------------------------------- MODULE Records --------------------------------
(***************************************************************************)
(* The storage functions that read a row and write it back: add_note and   *)
(* update_session on one session (storage/sessions.py), put_artifact on     *)
(* one key (storage/artifacts.py), add_waiting_task on the locks of one     *)
(* path (storage/parallel.py).  Every call has a connection of its own and  *)
(* no transaction holds the read and the write together, so other calls    *)
(* come in between; a single statement is atomic, with its commit.         *)
(*                                                                         *)
(* Each caller makes one call.  A note, an artifact and a waiting task are  *)
(* called by the name of the caller that writes them.                      *)
(***************************************************************************)
EXTENDS Sequences, FiniteSets, Lists

CONSTANTS
    Callers,
    Nobody

ASSUME RecordsAssumption == Nobody \notin Callers

VARIABLES
    session,   \* the row of the session: notes, and the caller of the last update of outcome
    artifact,  \* whose value the key has, Nobody if there is no row
    locks,     \* Seq([holder, waiting]): rows of resource_locks for the path; the path is not unique
    storing,   \* [Callers -> what the call does, how far it is and what it has read]
    met        \* history: calls between whose read and write another one has read or written

recordVars == <<session, artifact, locks, storing, met>>

Lists == {"note", "wait"}                    \* calls that write back a list they have read
Ops == Lists \cup {"update", "put"}
NotCalled == [op |-> "none", at |-> "new", read |-> {}]

RecordInit ==
    /\ session = [notes |-> {}, outcome |-> Nobody]
    /\ artifact = Nobody
    /\ locks = <<>>
    /\ storing = [c \in Callers |-> NotCalled]
    /\ met = {}

Open(op) == {c \in Callers : storing[c].op = op /\ storing[c].at = "read"}
Meets(op, c) == met' = IF Open(op) \ {c} = {} THEN met ELSE met \cup Open(op) \cup {c}
Reads(c, op, value) ==
    /\ storing[c] = NotCalled
    /\ storing' = [storing EXCEPT ![c] = [op |-> op, at |-> "read", read |-> value]]
    /\ Meets(op, c)
Ends(c, how) == storing' = [storing EXCEPT ![c].at = how]

-----------------------------------------------------------------------------
(* session_records.                                                          *)

SessionStays == UNCHANGED session
ArtifactStays == UNCHANGED artifact
LocksStay == UNCHANGED locks

GetSession(c) ==
    /\ \/ Reads(c, "note", session.notes)
       \/ Reads(c, "update", session.notes)
    /\ SessionStays /\ ArtifactStays /\ LocksStay

AddNote(c) ==
    /\ c \in Open("note")
    /\ session' = [session EXCEPT !.notes = storing[c].read \cup {c}]
    /\ Ends(c, "done")
    /\ ArtifactStays /\ LocksStay /\ UNCHANGED met

\* MUTANT of Updated: the row that was read is written back, the notes with it.
UpdatedWhole(c) == [notes |-> storing[c].read, outcome |-> c]

\* The columns among the allowed ones that the call names; notes is not allowed.
Updated(c) == [session EXCEPT !.outcome = c]

UpdateSession(c) ==
    /\ c \in Open("update")
    /\ session' = Updated(c)
    /\ Ends(c, "done")
    /\ ArtifactStays /\ LocksStay /\ UNCHANGED met

-----------------------------------------------------------------------------
(* project_artifacts.                                                        *)

Existing == IF artifact = Nobody THEN {} ELSE {artifact}

ReadArtifact(c) ==
    /\ Reads(c, "put", Existing)
    /\ SessionStays /\ ArtifactStays /\ LocksStay

\* The UPDATE of a row that was deleted in between changes nothing and the call answers all the same;
\* the INSERT of one that was inserted in between raises.
PutArtifact(c) ==
    /\ c \in Open("put")
    /\ \/ storing[c].read # {} /\ Existing # {} /\ artifact' = c /\ Ends(c, "done")
       \/ storing[c].read # {} /\ Existing = {} /\ ArtifactStays /\ Ends(c, "lost")
       \/ storing[c].read = {} /\ Existing = {} /\ artifact' = c /\ Ends(c, "done")
       \/ storing[c].read = {} /\ Existing # {} /\ ArtifactStays /\ Ends(c, "raised")
    /\ SessionStays /\ LocksStay /\ UNCHANGED met

DeleteArtifact ==
    /\ Existing # {}
    /\ artifact' = Nobody
    /\ met' = met \cup Open("put")
    /\ SessionStays /\ LocksStay /\ UNCHANGED storing

-----------------------------------------------------------------------------
(* resource_locks.                                                           *)

AcquireResourceLock(c) ==
    /\ storing[c] = NotCalled
    /\ locks' = Append(locks, [holder |-> c, waiting |-> {}])
    /\ storing' = [storing EXCEPT ![c] = [op |-> "hold", at |-> "done", read |-> {}]]
    /\ met' = met \cup Open("wait")
    /\ SessionStays /\ ArtifactStays

\* The first row of the path is read; without one the call returns.
GetResourceLock(c) ==
    /\ locks # <<>>
    /\ Reads(c, "wait", Head(locks).waiting)
    /\ SessionStays /\ ArtifactStays /\ LocksStay

\* The list is written to every row that has the path by then.
AddWaitingTask(c) ==
    /\ c \in Open("wait")
    /\ locks' = [i \in DOMAIN locks |-> [locks[i] EXCEPT !.waiting = storing[c].read \cup {c}]]
    /\ Ends(c, IF locks = <<>> THEN "lost" ELSE "done")
    /\ SessionStays /\ ArtifactStays /\ UNCHANGED met

\* release_resource_lock, and release_all_locks_for_task of one holder.
ReleaseLocks ==
    /\ locks # <<>>
    /\ locks' \in {<<>>} \cup {Without(locks, [holder : {h}, waiting : SUBSET Callers]) : h \in Callers}
    /\ met' = met \cup Open("wait")
    /\ SessionStays /\ ArtifactStays /\ UNCHANGED storing

RecordNext ==
    \/ DeleteArtifact \/ ReleaseLocks
    \/ \E c \in Callers :
           \/ GetSession(c) \/ AddNote(c) \/ UpdateSession(c)
           \/ ReadArtifact(c) \/ PutArtifact(c)
           \/ AcquireResourceLock(c) \/ GetResourceLock(c) \/ AddWaitingTask(c)

RecordSpec == RecordInit /\ [][RecordNext]_recordVars

-----------------------------------------------------------------------------
RecordTypes ==
    /\ session \in [notes : SUBSET Callers, outcome : Callers \cup {Nobody}]
    /\ artifact \in Callers \cup {Nobody}
    /\ locks \in Seq([holder : Callers, waiting : SUBSET Callers])
    /\ storing \in [Callers -> [op : Ops \cup {"none", "hold"}, at : {"new", "read", "done", "lost", "raised"},
                                read : SUBSET Callers]]
    /\ met \subseteq Callers

\* What is written back is lost to races only: a call between whose read and
\* write no other call of its kind came takes effect and is answered as such,
\* and its note stays in the session whatever comes later, updates of other
\* columns included.
LostToRacesOnly ==
    \A c \in Callers \ met :
        /\ storing[c].at \notin {"lost", "raised"}
        /\ storing[c].op = "note" /\ storing[c].at = "done" => c \in session.notes
=============================================================================
