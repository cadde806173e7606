----------------------------- MODULE MCRegistries -----------------------------
(***************************************************************************)
(* Instances of the tables that the coordinator keeps for all its          *)
(* coroutines: file locks, tenants, plugins, rate limits, dashboards, rows  *)
(* that are read and written back, timers.  They share no state, so a       *)
(* behaviour moves in one of them, part; the others stay as they begin.     *)
(***************************************************************************)
EXTENDS FileLocks, TenantStore, Plugins, RateLimits, DashboardPush, Records, Deadlines

CONSTANTS t1, t2, t3, path1, path2, MaxLoads

VARIABLE part

Parts == {"locks", "tenant", "plugins", "messages", "socket", "rest", "page", "notices",
          "records", "timers"}
registryVars == <<part, lockVars, tenantVars, pluginVars, rateVars, pushVars, recordVars, deadlineVars>>

NotLocks == UNCHANGED <<part, tenantVars, pluginVars, rateVars, pushVars, recordVars, deadlineVars>>
NotTenant == UNCHANGED <<part, lockVars, pluginVars, rateVars, pushVars, recordVars, deadlineVars>>
NotPlugins == UNCHANGED <<part, lockVars, tenantVars, rateVars, pushVars, recordVars, deadlineVars>>
NotRates == UNCHANGED <<part, lockVars, tenantVars, pluginVars, pushVars, recordVars, deadlineVars>>
NotPush == UNCHANGED <<part, lockVars, tenantVars, pluginVars, rateVars, recordVars, deadlineVars>>
NotRecords == UNCHANGED <<part, lockVars, tenantVars, pluginVars, rateVars, pushVars, deadlineVars>>
NotDeadlines == UNCHANGED <<part, lockVars, tenantVars, pluginVars, rateVars, pushVars, recordVars>>

\* One file is used by all three tasks and a second by one of them: with three users of it too nothing
\* new happens, and the instance is 40 times as large.
Init ==
    /\ part \in Parts
    /\ LockInit /\ uses[t2][path2] = "none" /\ uses[t3][path2] = "none"
    /\ part # "locks" => \A t \in LockTasks : uses[t][path1] = "none" /\ uses[t][path2] = "none"
    /\ TenantInit /\ (part # "tenant" => began = Min(FileVersions))
    /\ PluginInit /\ (part # "plugins" => allowed = {})
    /\ RateInit /\ (part \notin {"socket", "rest"} => limits = [tpm |-> Max(Tpms), burst |-> DefaultBurst])
    /\ PushInit /\ RecordInit
    /\ DeadlineInit /\ (part # "timers" => listening)

\* A plugin that is reloaded for ever is cut off.
FewLoads == \A i \in Plugin : loads[i] <= MaxLoads

Next ==
    \/ part = "locks" /\ LockNext /\ NotLocks
    \/ part = "tenant" /\ TenantNext /\ NotTenant
    \/ part = "plugins" /\ FewLoads /\ PluginNext /\ NotPlugins
    \/ part = "messages" /\ MessageNext /\ NotRates
    \/ part = "socket" /\ SocketNext /\ NotRates
    \/ part = "rest" /\ RestNext /\ NotRates
    \/ part \in {"page", "notices"} /\ ConnectionNext /\ NotPush
    \/ part = "page" /\ ChannelNext /\ NotPush
    \/ part = "notices" /\ NoticeNext /\ NotPush
    \/ part = "records" /\ RecordNext /\ NotRecords
    \/ part = "timers" /\ DeadlineNext /\ NotDeadlines

\* LockFairness and PushFairness, in this instance.
Fairness ==
    /\ \A t \in LockTasks, f \in Paths :
           /\ WF_registryVars(part = "locks" /\ Release(t, f) /\ NotLocks)
           /\ SF_registryVars(part = "locks" /\ f \in asking[t] /\ Acquire(t, f) /\ NotLocks)
    /\ WF_registryVars(part \in {"page", "notices"} /\ PageProgress /\ NotPush)
    /\ \A p \in Publishers :
           WF_registryVars(part \in {"page", "notices"} /\ BroadcastEvent(p) /\ NotPush)

Spec == Init /\ [][Next]_registryVars /\ Fairness

\* Every table holds values of its kind: a type invariant of all seven modules.
RegistryTypes ==
    /\ LockTypes /\ TenantTypes /\ PluginTypes /\ RateTypes /\ PushTypes
    /\ RecordTypes /\ DeadlineTypes
=============================================================================
