--------------------------- MODULE Presence_proofs ---------------------------
(***************************************************************************)
(* Theorems of Presence, for every number of agents and endpoints.           *)
(***************************************************************************)
EXTENDS Presence, TLAPS

\* SetAgentOnline writes one row, if there is one.
LEMMA SetAgentOnlineType ==
    ASSUME TypeOK, NEW a \in Agents, NEW flag \in BOOLEAN, SetAgentOnline(a, flag)
    PROVE  /\ registered' = registered
           /\ online' \in [Agents -> BOOLEAN]
           /\ lastSeen' \in [Agents -> {"never", "fresh", "old"}]
           /\ \A b \in Agents \ {a} : online'[b] = online[b] /\ lastSeen'[b] = lastSeen[b]
           /\ online'[a] => flag \/ online[a]
           /\ a \in registered => online'[a] = flag /\ lastSeen'[a] = "fresh"
           /\ a \notin registered => UNCHANGED <<online, lastSeen>>
BY DEF SetAgentOnline, TypeOK, rows

\* Every step keeps the types.
LEMMA NextType == TypeOK /\ [Next]_vars => TypeOK'
<1> SUFFICES ASSUME TypeOK, [Next]_vars PROVE TypeOK'
  OBVIOUS
<1> USE OwnerAssumption, CrashAssumption DEF TypeOK
<1>1. ASSUME NEW w \in Sockets, EndpointStep(w) PROVE TypeOK'
  <2>1. CASE Recheck(w)
    BY <2>1 DEF Recheck, Goto, Endpoint, rows
  <2>2. CASE Accept(w)
    BY <2>2 DEF Accept, Goto, Endpoint, rows
  <2>3. CASE MarkOnline(w)
    BY <2>3, SetAgentOnlineType DEF MarkOnline, Goto, Endpoint
  <2>4. CASE MarkOffline(w)
    BY <2>4, SetAgentOnlineType DEF MarkOffline, Goto, Endpoint
  <2> QED
    BY <1>1, <2>1, <2>2, <2>3, <2>4 DEF EndpointStep
<1>2. ASSUME NEW w \in Sockets, EndpointInput(w) PROVE TypeOK'
  <2>1. CASE Ask(w)
    BY <2>1 DEF Ask, Goto, Endpoint, rows
  <2>2. CASE HeartbeatMsg(w)
    BY <2>2, SetAgentOnlineType DEF HeartbeatMsg
  <2>3. CASE RegisterMsg(w)
    <3>1. CASE Leave(w)
      BY <3>1 DEF Leave, Goto, Endpoint, rows
    <3>2. CASE InsertAgent(Owner[w]) /\ Goto(w, "registering")
                 /\ UNCHANGED <<active, stale, crashes>>
      BY <3>2 DEF InsertAgent, Goto, Endpoint
    <3> QED
      BY <2>3, <3>1, <3>2 DEF RegisterMsg
  <2>4. CASE ConnectionBreaks(w)
    BY <2>4 DEF ConnectionBreaks, Leave, Goto, Endpoint, rows
  <2> QED
    BY <1>2, <2>1, <2>2, <2>3, <2>4 DEF EndpointInput
<1>3. ASSUME NEW a \in Agents, RegisterAgent(a) \/ DeregisterAgent(a) \/ Age(a)
      PROVE  TypeOK'
  BY <1>3 DEF RegisterAgent, DeregisterAgent, Age, InsertAgent
<1>4. CASE Checker
  <2>1. CASE ListStale
    BY <2>1 DEF ListStale, rows
  <2>2. ASSUME NEW a \in Agents, MarkStale(a) PROVE TypeOK'
    BY <2>2, SetAgentOnlineType DEF MarkStale
  <2> QED
    BY <1>4, <2>1, <2>2 DEF Checker
<1>5. CASE Crash
  BY <1>5 DEF Crash, Endpoint, rows
<1>6. CASE UNCHANGED vars
  BY <1>6 DEF vars
<1> QED
  BY <1>1, <1>2, <1>3, <1>4, <1>5, <1>6 DEF Next

\* The variables keep their types.
THEOREM TypeCorrect == Spec => []TypeOK
<1>1. Init => TypeOK
  BY CrashAssumption DEF Init, TypeOK, Endpoint
<1> QED
  BY <1>1, NextType, PTL DEF Spec

-----------------------------------------------------------------------------
(***************************************************************************)
(* The connection table.                                                    *)
(***************************************************************************)

\* One step never leaves an entry to an endpoint that has returned: whoever
\* leaves the loop pops the agent's entry, its own or a newer one.
LEMMA EntryStep == TypeOK /\ EntryLive /\ [Next]_vars => EntryLive'
<1> SUFFICES ASSUME TypeOK, EntryLive, [Next]_vars PROVE EntryLive'
  OBVIOUS
<1> USE OwnerAssumption, NoSocketAssumption DEF TypeOK, EntryLive
<1>1. ASSUME NEW w \in Sockets, EndpointStep(w) PROVE EntryLive'
  <2>1. CASE Recheck(w)
    BY <2>1 DEF Recheck, Goto
  <2>2. CASE Accept(w)
    BY <2>2 DEF Accept, Goto
  <2>3. CASE MarkOnline(w)
    BY <2>3 DEF MarkOnline, Goto
  <2>4. CASE MarkOffline(w)
    BY <2>4 DEF MarkOffline, Goto
  <2> QED
    BY <1>1, <2>1, <2>2, <2>3, <2>4 DEF EndpointStep
<1>2. ASSUME NEW w \in Sockets, EndpointInput(w) PROVE EntryLive'
  <2>0. CASE Ask(w)
    BY <2>0 DEF Ask, Goto
  <2>1. CASE HeartbeatMsg(w)
    BY <2>1 DEF HeartbeatMsg
  <2>2. CASE Leave(w)
    <3>1. active' = [active EXCEPT ![Owner[w]] = NoSocket] /\ Owner[w] \in Agents
      BY <2>2 DEF Leave
    <3>2. \A v \in Sockets : v # w => sock'[v] = sock[v]
      BY <2>2 DEF Leave, Goto
    <3>3. ASSUME NEW a \in Agents, active'[a] # NoSocket
          PROVE  active'[a] = active[a] /\ active[a] # w
      BY <3>1, <3>3
    <3> QED
      BY <3>2, <3>3
  <2>3. CASE RegisterMsg(w) /\ ~Leave(w)
    BY <2>3 DEF RegisterMsg, Goto
  <2> QED
    BY <1>2, <2>0, <2>1, <2>2, <2>3 DEF EndpointInput, ConnectionBreaks
<1>3. ASSUME NEW a \in Agents, RegisterAgent(a) \/ DeregisterAgent(a) \/ Age(a)
      PROVE  EntryLive'
  BY <1>3 DEF RegisterAgent, DeregisterAgent, Age
<1>4. CASE Checker
  BY <1>4 DEF Checker, ListStale, MarkStale
<1>5. CASE Crash
  BY <1>5 DEF Crash
<1>6. CASE UNCHANGED vars
  BY <1>6 DEF vars
<1> QED
  BY <1>1, <1>2, <1>3, <1>4, <1>5, <1>6 DEF Next

\* The hub never holds the socket of an endpoint that has returned.
THEOREM EntriesLive == Spec => []EntryLive
<1>1. Init => TypeOK /\ EntryLive
  BY CrashAssumption DEF Init, TypeOK, Endpoint, EntryLive
<1> QED
  BY <1>1, NextType, EntryStep, PTL DEF Spec

\* The strengthening: the entry is there from accept to the finally clause.
Entered ==
    \A w \in Sockets :
        /\ sock[w] \in {"accepted", "open", "registering"}
        /\ SocketsOf(Owner[w]) = {w}
        => active[Owner[w]] = w

\* One step keeps it, as nobody else writes the entry of this agent.
LEMMA EnteredStep ==
    ASSUME TypeOK, Entered, [Next]_vars
    PROVE  Entered'
<1> USE OwnerAssumption, NoSocketAssumption DEF TypeOK, Entered, SocketsOf
<1>1. ASSUME NEW w \in Sockets, EndpointStep(w) PROVE Entered'
  <2>1. CASE Recheck(w)
    BY <2>1 DEF Recheck, Goto
  <2>2. CASE Accept(w)
    BY <2>2 DEF Accept, Goto
  <2>3. CASE MarkOnline(w)
    BY <2>3 DEF MarkOnline, Goto
  <2>4. CASE MarkOffline(w)
    BY <2>4 DEF MarkOffline, Goto
  <2> QED
    BY <1>1, <2>1, <2>2, <2>3, <2>4 DEF EndpointStep
<1>2. ASSUME NEW w \in Sockets, EndpointInput(w) PROVE Entered'
  <2>1. CASE Ask(w) \/ HeartbeatMsg(w)
    BY <2>1 DEF Ask, HeartbeatMsg, Goto
  <2>2. CASE Leave(w)
    BY <2>2 DEF Leave, Goto
  <2>3. CASE RegisterMsg(w) /\ ~Leave(w)
    BY <2>3 DEF RegisterMsg, Goto
  <2> QED
    BY <1>2, <2>1, <2>2, <2>3 DEF EndpointInput, ConnectionBreaks
<1>3. ASSUME NEW a \in Agents, RegisterAgent(a) \/ DeregisterAgent(a) \/ Age(a)
      PROVE  Entered'
  BY <1>3 DEF RegisterAgent, DeregisterAgent, Age
<1>4. CASE Checker
  BY <1>4 DEF Checker, ListStale, MarkStale
<1>5. CASE Crash
  BY <1>5 DEF Crash
<1>6. CASE UNCHANGED vars
  BY <1>6 DEF vars
<1> QED
  BY <1>1, <1>2, <1>3, <1>4, <1>5, <1>6 DEF Next

\* An agent that never has two endpoints at a time can be reached whenever its
\* endpoint is in its loop.
THEOREM SingleReachable == Spec => []LoneReachable
<1>1. Init => TypeOK /\ Entered
  BY CrashAssumption DEF Init, TypeOK, Endpoint, Entered
<1>2. TypeOK /\ Entered /\ [Next]_vars => TypeOK' /\ Entered'
  BY NextType, EnteredStep
<1>3. Entered => LoneReachable
  BY DEF Entered, LoneReachable
<1> QED
  BY <1>1, <1>2, <1>3, PTL DEF Spec

-----------------------------------------------------------------------------
(***************************************************************************)
(* The rows.                                                                *)
(***************************************************************************)

\* The strengthening: there is nothing online of an agent without a row, which
\* no finally clause could take back.
GoneInv ==
    /\ GoneIsOffline
    /\ crashes = 0 => \A a \in Agents : a \notin registered => ~online[a]

\* One step keeps it; a restart ends it.
LEMMA GoneStep ==
    ASSUME TypeOK, GoneInv, [Next]_vars
    PROVE  GoneInv'
<1> USE OwnerAssumption DEF TypeOK, GoneInv, GoneIsOffline, SocketsOf
<1>1. ASSUME NEW w \in Sockets, EndpointStep(w) PROVE GoneInv'
  <2>1. CASE Recheck(w)
    BY <2>1 DEF Recheck, Goto, rows
  <2>2. CASE Accept(w)
    BY <2>2 DEF Accept, Goto, rows
  <2>3. CASE MarkOnline(w)
    BY <2>3 DEF MarkOnline, SetAgentOnline, Goto, rows
  <2>4. CASE MarkOffline(w)
    BY <2>4 DEF MarkOffline, SetAgentOnline, Goto, rows
  <2> QED
    BY <1>1, <2>1, <2>2, <2>3, <2>4 DEF EndpointStep
<1>2. ASSUME NEW w \in Sockets, EndpointInput(w) PROVE GoneInv'
  <2>1. CASE Ask(w)
    BY <2>1 DEF Ask, Goto, rows
  <2>2. CASE HeartbeatMsg(w)
    BY <2>2 DEF HeartbeatMsg, SetAgentOnline, rows
  <2>3. CASE sock[w] = "open" /\ Leave(w)
    BY <2>3 DEF Leave, Goto, rows
  <2>4. CASE /\ sock[w] = "open" /\ InsertAgent(Owner[w]) /\ Goto(w, "registering")
             /\ UNCHANGED crashes
    BY <2>4 DEF InsertAgent, Goto
  <2> QED
    BY <1>2, <2>1, <2>2, <2>3, <2>4 DEF EndpointInput, RegisterMsg, ConnectionBreaks
<1>3. ASSUME NEW a \in Agents, RegisterAgent(a) \/ DeregisterAgent(a) \/ Age(a)
      PROVE  GoneInv'
  BY <1>3 DEF RegisterAgent, DeregisterAgent, Age, InsertAgent
<1>4. CASE Checker
  BY <1>4 DEF Checker, ListStale, MarkStale, SetAgentOnline, rows
<1>5. CASE Crash
  BY <1>5 DEF Crash
<1>6. CASE UNCHANGED vars
  BY <1>6 DEF vars
<1> QED
  BY <1>1, <1>2, <1>3, <1>4, <1>5, <1>6 DEF Next

\* Without restarts, the last endpoint of an agent to go leaves it offline.
THEOREM LastOneOut == Spec => []GoneIsOffline
<1>1. Init => TypeOK /\ GoneInv
  BY CrashAssumption DEF Init, TypeOK, Endpoint, GoneInv, GoneIsOffline
<1>2. TypeOK /\ GoneInv /\ [Next]_vars => TypeOK' /\ GoneInv'
  BY NextType, GoneStep
<1>3. GoneInv => GoneIsOffline
  BY DEF GoneInv
<1> QED
  BY <1>1, <1>2, <1>3, PTL DEF Spec

=============================================================================
