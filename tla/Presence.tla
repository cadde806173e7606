------------------------------ MODULE Presence -------------------------------
(***************************************************************************)
(* Which agents the coordinator believes to be there.  Three things carry    *)
(* that belief and are updated by different parties between awaits: the row  *)
(* of the agent (is_online, last_seen_at), the entry of the agent in          *)
(* ConnectionHub.active_connections, and the endpoint coroutine that serves   *)
(* its WebSocket.  An agent that reconnects has two endpoints for a while.    *)
(***************************************************************************)
EXTENDS Naturals

CONSTANTS
    Agents,
    Sockets,     \* WebSocket endpoints; a closed one may stand for a later one
    Owner,       \* the agent id in the path of each endpoint
    NoSocket,
    MaxCrashes   \* bound: restarts of the coordinator

ASSUME OwnerAssumption == Owner \in [Sockets -> Agents]
ASSUME NoSocketAssumption == NoSocket \notin Sockets
ASSUME CrashAssumption == MaxCrashes \in Nat

VARIABLES
    registered, \* agents with a row
    online,     \* is_online of those rows
    lastSeen,   \* last_seen_at: NULL, within the timeout, or older
    active,     \* hub.active_connections
    sock,       \* where each endpoint is
    stale,      \* what the timeout checker has listed and not yet marked
    crashes

rows == <<registered, online, lastSeen>>
vars == <<registered, online, lastSeen, active, sock, stale, crashes>>

Endpoint == {"none", "asked", "known", "accepted", "open", "registering", "leaving"}

Init ==
    /\ registered = {}
    /\ online = [a \in Agents |-> FALSE]
    /\ lastSeen = [a \in Agents |-> "never"]
    /\ active = [a \in Agents |-> NoSocket]
    /\ sock = [w \in Sockets |-> "none"]
    /\ stale = {}
    /\ crashes = 0

Goto(w, s) == sock' = [sock EXCEPT ![w] = s]

\* UPDATE agents SET is_online, last_seen_at = now: no row, no effect.
SetAgentOnline(a, flag) ==
    IF a \in registered
      THEN /\ online' = [online EXCEPT ![a] = flag]
           /\ lastSeen' = [lastSeen EXCEPT ![a] = "fresh"]
           /\ UNCHANGED registered
      ELSE UNCHANGED rows

\* INSERT of a new row: online although nobody is connected, never seen.
InsertAgent(a) ==
    /\ a \notin registered
    /\ registered' = registered \cup {a}
    /\ online' = [online EXCEPT ![a] = TRUE]
    /\ lastSeen' = [lastSeen EXCEPT ![a] = "never"]

-----------------------------------------------------------------------------
(* REST: the read before the INSERT only chooses between 409 and 500.        *)

RegisterAgent(a) ==
    /\ InsertAgent(a)
    /\ UNCHANGED <<active, sock, stale, crashes>>

DeregisterAgent(a) ==
    /\ a \in registered
    /\ registered' = registered \ {a}
    /\ online' = [online EXCEPT ![a] = FALSE]
    /\ lastSeen' = [lastSeen EXCEPT ![a] = "never"]
    /\ UNCHANGED <<active, sock, stale, crashes>>

-----------------------------------------------------------------------------
(* The endpoint: two reads of the agent, accept, mark online, loop, finally. *)

\* websocket_endpoint looks the agent up (and checks its token and role) ...
Ask(w) ==
    /\ sock[w] = "none"
    /\ Owner[w] \in registered
    /\ Goto(w, "asked")
    /\ UNCHANGED <<rows, active, stale, crashes>>

\* ... and hub.connect once more.
Recheck(w) ==
    /\ sock[w] = "asked"
    /\ Goto(w, IF Owner[w] \in registered THEN "known" ELSE "none")
    /\ UNCHANGED <<rows, active, stale, crashes>>

\* MUTANT of Accept: the socket is not entered in the table.
AcceptUnlisted(w) ==
    /\ sock[w] = "known"
    /\ Goto(w, "accepted")
    /\ UNCHANGED <<rows, active, stale, crashes>>

\* The entry of an earlier endpoint of the same agent is overwritten.
Accept(w) ==
    /\ sock[w] = "known"
    /\ active' = [active EXCEPT ![Owner[w]] = w]
    /\ Goto(w, "accepted")
    /\ UNCHANGED <<rows, stale, crashes>>

MarkOnline(w) ==
    /\ sock[w] \in {"accepted", "registering"}
    /\ SetAgentOnline(Owner[w], TRUE)
    /\ Goto(w, "open")
    /\ UNCHANGED <<active, stale, crashes>>

\* update_agent_heartbeat: load and active_tasks aside, what mark-online does.
HeartbeatMsg(w) ==
    /\ sock[w] = "open"
    /\ SetAgentOnline(Owner[w], TRUE)
    /\ UNCHANGED <<active, sock, stale, crashes>>

\* MUTANT of Leave: the entry stays in the table.
LeaveKeepsEntry(w) ==
    /\ Goto(w, "leaving")
    /\ UNCHANGED <<rows, active, stale, crashes>>

\* The finally clause up to its first await: hub.disconnect(agent_id) pops the
\* agent's entry, whichever endpoint it belongs to.
Leave(w) ==
    /\ active' = [active EXCEPT ![Owner[w]] = NoSocket]
    /\ Goto(w, "leaving")
    /\ UNCHANGED <<rows, stale, crashes>>

ConnectionBreaks(w) == sock[w] = "open" /\ Leave(w)

\* REGISTER over the WebSocket inserts the row; the INSERT of an agent that is
\* registered raises, which ends the endpoint's loop.
RegisterMsg(w) ==
    /\ sock[w] = "open"
    /\ \/ /\ Owner[w] \in registered
          /\ Leave(w)
       \/ /\ InsertAgent(Owner[w])
          /\ Goto(w, "registering")
          /\ UNCHANGED <<active, stale, crashes>>

\* MUTANT of MarkOffline: on_agent_disconnect forgets the row.
MarkOfflineForgotten(w) ==
    /\ sock[w] = "leaving"
    /\ Goto(w, "none")
    /\ UNCHANGED <<rows, active, stale, crashes>>

MarkOffline(w) ==
    /\ sock[w] = "leaving"
    /\ SetAgentOnline(Owner[w], FALSE)
    /\ Goto(w, "none")
    /\ UNCHANGED <<active, stale, crashes>>

-----------------------------------------------------------------------------
(* heartbeat_timeout_checker: lists once, then marks one row per await.      *)

\* MUTANT of ListStale: agents seen recently are listed, old ones are not.
ListStaleInverted ==
    /\ stale = {}
    /\ stale' = {a \in registered : online[a] /\ lastSeen[a] = "fresh"}
    /\ UNCHANGED <<rows, active, sock, crashes>>

\* A row with last_seen_at NULL is passed over.
ListStale ==
    /\ stale = {}
    /\ stale' = {a \in registered : online[a] /\ lastSeen[a] = "old"}
    /\ UNCHANGED <<rows, active, sock, crashes>>

MarkStale(a) ==
    /\ a \in stale
    /\ stale' = stale \ {a}
    /\ SetAgentOnline(a, FALSE)
    /\ UNCHANGED <<active, sock, crashes>>

-----------------------------------------------------------------------------

\* heartbeat_timeout_seconds go by without an update of the row.
Age(a) ==
    /\ a \in registered
    /\ lastSeen[a] = "fresh"
    /\ lastSeen' = [lastSeen EXCEPT ![a] = "old"]
    /\ UNCHANGED <<registered, online, active, sock, stale, crashes>>

\* A restart: the database stays as it is, presence included.
Crash ==
    /\ crashes < MaxCrashes
    /\ crashes' = crashes + 1
    /\ active' = [a \in Agents |-> NoSocket]
    /\ sock' = [w \in Sockets |-> "none"]
    /\ stale' = {}
    /\ UNCHANGED rows

EndpointStep(w) == Recheck(w) \/ Accept(w) \/ MarkOnline(w) \/ MarkOffline(w)
EndpointInput(w) == Ask(w) \/ HeartbeatMsg(w) \/ RegisterMsg(w) \/ ConnectionBreaks(w)
Checker == ListStale \/ \E a \in Agents : MarkStale(a)

Next ==
    \/ \E w \in Sockets : EndpointStep(w) \/ EndpointInput(w)
    \/ \E a \in Agents : RegisterAgent(a) \/ DeregisterAgent(a) \/ Age(a)
    \/ Checker
    \/ Crash

Spec == Init /\ [][Next]_vars

\* The event loop runs what can run, the checker comes back every interval,
\* and time passes.
Fairness ==
    /\ \A w \in Sockets : WF_vars(EndpointStep(w))
    /\ WF_vars(Checker)
    /\ \A a \in Agents : WF_vars(Age(a))

FairSpec == Spec /\ Fairness

-----------------------------------------------------------------------------
(* Properties.                                                              *)

\* The variables have their types.
TypeOK ==
    /\ registered \subseteq Agents
    /\ online \in [Agents -> BOOLEAN]
    /\ lastSeen \in [Agents -> {"never", "fresh", "old"}]
    /\ active \in [Agents -> Sockets \cup {NoSocket}]
    /\ sock \in [Sockets -> Endpoint]
    /\ stale \subseteq Agents
    /\ crashes \in 0..MaxCrashes

SocketsOf(a) == {w \in Sockets : Owner[w] = a}

\* hub.send and hub.broadcast write to the entry they find (ws.py:58-81): it is
\* never the socket of an endpoint that has returned, even though endpoints of
\* one agent overwrite and pop each other's entries.
EntryLive ==
    \A a \in Agents : active[a] # NoSocket =>
        Owner[active[a]] = a /\ sock[active[a]] \in {"accepted", "open", "registering"}

\* DESIGN-fault-tolerance.md:135: on reconnect the session is restored.  An
\* agent whose endpoint is in its loop gets what the hub sends.
ConnectedReachable ==
    \A w \in Sockets : sock[w] = "open" => active[Owner[w]] = w

\* That much is true: an agent that never has two endpoints at a time can be
\* reached whenever its endpoint is in its loop, however often it is dropped,
\* deregistered or restarted in between (ws.py:39-56).
LoneReachable ==
    \A w \in Sockets :
        sock[w] = "open" /\ SocketsOf(Owner[w]) = {w} => active[Owner[w]] = w

\* Whatever the order in which the endpoints of an agent come and go, and
\* whatever heartbeats and the checker write meanwhile, a row that is online,
\* and not merely inserted, has an endpoint that will take it back: the last
\* one to go leaves the agent offline, unless the process dies
\* (ws_endpoint.py:124-126).
GoneIsOffline ==
    crashes = 0 =>
        \A a \in Agents :
            online[a] /\ lastSeen[a] # "never"
              => \E w \in SocketsOf(a) : sock[w] \in {"open", "registering", "leaving"}

\* An agent that has been seen and has no connection any more does not count
\* as online forever, not even when the coordinator has restarted and no
\* finally clause ran for it (timeout_checker.py:24-29).
Gone(a) == \A w \in SocketsOf(a) : sock[w] = "none"
GhostsFade ==
    \A a \in Agents :
        (Gone(a) /\ online[a] /\ lastSeen[a] # "never")
            ~> (~Gone(a) \/ ~online[a] \/ lastSeen[a] = "never")

=============================================================================
