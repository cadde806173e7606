------------------------------- MODULE Plugins -------------------------------
(***************************************************************************)
(* The plugin coordinator (plugin_manager.py), the routes that enable,     *)
(* disable and reload a plugin (plugin_routes_actions.py), discovery       *)
(* (plugin_discovery.py), and what main.py does at startup and shutdown.   *)
(*                                                                         *)
(* Every discovery makes new instances, so a plugin is a name and a        *)
(* number.  on_load, on_unload and health_check are awaited: between their *)
(* beginning and their end the other coroutines run.  Hook points are left *)
(* out: an instance has all its handlers registered, or none.              *)
(***************************************************************************)
EXTENDS Naturals, FiniteSets

CONSTANTS
    PluginNames,    \* plugins that are installed
    Admins,         \* coroutines that work on plugins: requests, the health check, the shutdown
    MaxInstances,   \* instances of one plugin
    NoPlugin

ASSUME PluginAssumption == MaxInstances \in Nat \ {0} /\ NoPlugin \notin PluginNames \X Nat

Plugin == PluginNames \X (1..MaxInstances)

VARIABLES
    allowed,      \* configuration: what plugins_enabled, plugins_disabled and the manifests let through
    registered,   \* [PluginNames -> Plugin \cup {NoPlugin}]: _plugins
    handlers,     \* [Plugin -> Nat]: how often the instance is in _hook_registry
    made,         \* [PluginNames -> number of instances]
    loads,        \* [Plugin -> Nat]: history: on_load calls that came back
    unloads,      \* [Plugin -> Nat]: history: on_unload calls
    admin         \* [Admins -> what the coroutine is doing]

pluginVars == <<allowed, registered, handlers, made, loads, unloads, admin>>

\* at: where it is suspended, on which instance; then: what it does after unloading; todo: what is left
\* of the snapshot that health_check_all or the shutdown goes through.
Works == [at : {"idle", "loading", "unloading", "checking"}, on : Plugin \cup {NoPlugin},
          then : {"end", "load", "check", "down"}, todo : SUBSET Plugin]
IdleAdmin == [at |-> "idle", on |-> NoPlugin, then |-> "end", todo |-> {}]

\* filter_plugins: a whitelist that is not empty, minus the blacklist.
Filtered(installed, enabled, disabled) ==
    (IF enabled = {} THEN installed ELSE installed \cap enabled) \ disabled

\* discover_plugins: an entry point that does not load, whose constructor raises or that is no plugin is
\* passed over; what is left has a manifest that the versions and the dependencies satisfy, or not.
Discovered == SUBSET PluginNames
Valid(found) == SUBSET found

\* Startup loads what is allowed and valid, one by one before any request; an on_load may fail.
PluginInit ==
    /\ \E enabled, disabled \in SUBSET PluginNames, found \in Discovered :
           \E valid \in Valid(found) : allowed = Filtered(found, enabled, disabled) \cap valid
    /\ \E up \in SUBSET allowed :
           /\ registered = [n \in PluginNames |-> IF n \in up THEN <<n, 1>> ELSE NoPlugin]
           /\ handlers = [i \in Plugin |-> IF i[2] = 1 /\ i[1] \in up THEN 1 ELSE 0]
           /\ loads = handlers
    /\ made = [n \in PluginNames |-> 1]
    /\ unloads = [i \in Plugin |-> 0]
    /\ admin = [a \in Admins |-> IdleAdmin]

-----------------------------------------------------------------------------
(* load_plugin.                                                              *)

\* A name that is taken ends the load; otherwise on_load is awaited.
StartLoad(a, i) ==
    admin' = [admin EXCEPT ![a] = IF registered[i[1]] # NoPlugin THEN IdleAdmin
                                  ELSE [IdleAdmin EXCEPT !.at = "loading", !.on = i]]

\* on_load is back: the instance takes the name, whoever has taken it meanwhile.
Loaded(a) ==
    LET i == admin[a].on IN
    /\ admin[a].at = "loading"
    /\ handlers' = [handlers EXCEPT ![i] = @ + 1]
    /\ loads' = [loads EXCEPT ![i] = @ + 1]
    /\ registered' = [registered EXCEPT ![i[1]] = i]
    /\ admin' = [admin EXCEPT ![a] = IdleAdmin]
    /\ UNCHANGED <<allowed, made, unloads>>

LoadFails(a) ==
    /\ admin[a].at = "loading"
    /\ admin' = [admin EXCEPT ![a] = IdleAdmin]
    /\ UNCHANGED <<allowed, registered, handlers, made, loads, unloads>>

\* Enable: not loaded, and a new instance by a second discovery.
Enable(a, n) ==
    /\ admin[a].at = "idle"
    /\ registered[n] = NoPlugin
    /\ made[n] < MaxInstances
    /\ made' = [made EXCEPT ![n] = @ + 1]
    /\ StartLoad(a, <<n, made[n] + 1>>)
    /\ UNCHANGED <<allowed, registered, handlers, loads, unloads>>

-----------------------------------------------------------------------------
(* unload_plugin: by name; the entry goes first, then on_unload is awaited.  *)

\* MUTANT of TakeOut: the entry is read here and deleted when on_unload is back.
ReadOnly(n) == UNCHANGED registered

TakeOut(n) == registered' = [registered EXCEPT ![n] = NoPlugin]

\* The instance that has the name now is unloaded; what the coroutine does then is in `to`.
Unload(a, n, to) ==
    /\ registered[n] # NoPlugin
    /\ TakeOut(n)
    /\ unloads' = [unloads EXCEPT ![registered[n]] = @ + 1]
    /\ admin' = [admin EXCEPT ![a] = [to EXCEPT !.at = "unloading", !.on = registered[n]]]
    /\ UNCHANGED <<allowed, handlers, made, loads>>

Disable(a, n) == admin[a].at = "idle" /\ Unload(a, n, IdleAdmin)

\* The instance that is unloaded is loaded again, if it finds its name free.
Reload(a, n) == admin[a].at = "idle" /\ Unload(a, n, [IdleAdmin EXCEPT !.then = "load"])

\* remove takes one entry out, if there is one.
Unhook(i) == handlers' = [handlers EXCEPT ![i] = IF @ > 0 THEN @ - 1 ELSE 0]

Unloaded(a) ==
    /\ admin[a].at = "unloading"
    /\ Unhook(admin[a].on)
    /\ \/ admin[a].then = "load" /\ StartLoad(a, admin[a].on)
       \/ admin[a].then # "load" /\ admin' = [admin EXCEPT ![a].at = "checking", ![a].on = NoPlugin]
    /\ UNCHANGED <<allowed, registered, made, loads, unloads>>

-----------------------------------------------------------------------------
(* health_check_all and the shutdown go through a snapshot, awaiting.        *)

Snapshot == {registered[n] : n \in PluginNames} \ {NoPlugin}

StartSweep(a, then) ==
    /\ admin[a].at = "idle"
    /\ admin' = [admin EXCEPT ![a] = [at |-> "checking", on |-> NoPlugin, then |-> then,
                                      todo |-> Snapshot]]
    /\ UNCHANGED <<allowed, registered, handlers, made, loads, unloads>>

HealthCheckAll(a) == StartSweep(a, "check")
Shutdown(a) == StartSweep(a, "down")

\* The next of the snapshot is well, or its name has been given up; or the sweep is over.
Skip(a, i) ==
    /\ admin[a].at = "checking" /\ i \in admin[a].todo
    /\ admin[a].then = "check" \/ registered[i[1]] = NoPlugin
    /\ admin' = [admin EXCEPT ![a].todo = @ \ {i}]
    /\ UNCHANGED <<allowed, registered, handlers, made, loads, unloads>>

\* What is unloaded is what has the name now, be it another instance than the one that was asked.
Unwell(a, i) ==
    /\ admin[a].at = "checking" /\ i \in admin[a].todo
    /\ Unload(a, i[1], [admin[a] EXCEPT !.todo = @ \ {i}])

EndSweep(a) ==
    /\ admin[a].at = "checking" /\ admin[a].todo = {}
    /\ admin' = [admin EXCEPT ![a] = IdleAdmin]
    /\ UNCHANGED <<allowed, registered, handlers, made, loads, unloads>>

AdminStep(a) ==
    \/ Loaded(a) \/ LoadFails(a) \/ Unloaded(a) \/ EndSweep(a)
    \/ \E i \in Plugin : Skip(a, i) \/ Unwell(a, i)

PluginNext ==
    \E a \in Admins :
        \/ \E n \in PluginNames : Enable(a, n) \/ Disable(a, n) \/ Reload(a, n)
        \/ HealthCheckAll(a) \/ Shutdown(a)
        \/ AdminStep(a)

PluginSpec == PluginInit /\ [][PluginNext]_pluginVars

-----------------------------------------------------------------------------
PluginTypes ==
    /\ allowed \subseteq PluginNames
    /\ registered \in [PluginNames -> Plugin \cup {NoPlugin}]
    /\ handlers \in [Plugin -> Nat] /\ loads \in [Plugin -> Nat] /\ unloads \in [Plugin -> Nat]
    /\ made \in [PluginNames -> 1..MaxInstances]
    /\ admin \in [Admins -> Works]

\* on_unload is called once for each on_load that came back, never twice and
\* never for an instance that is still loading, and an instance that is
\* registered has exactly one of its calls to come: a reload, a second request
\* and a health check may all be unloading the name at once (unload_plugin takes
\* the entry out before it awaits).
UnloadOnce ==
    \A i \in Plugin :
        /\ unloads[i] <= loads[i]
        /\ registered[i[1]] = i => loads[i] = unloads[i] + 1

\* A registered instance is called once for each event, however often it was
\* reloaded and whoever else had its name: its handlers are in the registry once.
HookedOnce == \A i \in Plugin : handlers[i] <= 1 /\ (registered[i[1]] = i => handlers[i] = 1)

\* Both.  Not that every handler that is called is one of an instance that is up: until its on_unload is back
\* one that is being unloaded is still called, and two instances of a name may be loaded at once.
PluginsOnce == UnloadOnce /\ HookedOnce
=============================================================================
