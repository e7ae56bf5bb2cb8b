---------------------------- MODULE MCBackground ----------------------------
(***************************************************************************)
(* Instances of five parts that share no state: the prefetch engine, the   *)
(* eviction policy, the task supervisor, the plugin manager and the        *)
(* metadata service.  A behaviour is of one of them (part), so that the    *)
(* others' steps do not multiply its states.                               *)
(***************************************************************************)
EXTENDS Prefetch, Eviction, Supervisor, Plugins, MCTagService

CONSTANTS a, b, link    \* two libraries, and a second name of the first

MCPaths == {a, b, link}
MCCanonical == [p \in Paths |-> IF p = link THEN a ELSE p]
MCConfigured == {a, link}
MCFound == {a, b}

VARIABLE part

backgroundVars == <<part, prefetchVars, evictionVars, supervisorVars, pluginVars, tagVars>>

BackgroundInit ==
    /\ part \in {"prefetch", "eviction", "supervisor", "plugins", "tags"}
    /\ PrefetchInit /\ EvictionInit /\ SupervisorInit /\ PluginsInit /\ TagInit
    /\ part = "plugins" \/ file = [f \in Libraries |-> "broken"]

BackgroundNext ==
    \/ /\ part = "prefetch" /\ PrefetchNext
       /\ UNCHANGED <<part, evictionVars, supervisorVars, pluginVars, tagVars>>
    \/ /\ part = "eviction" /\ EvictionNext
       /\ UNCHANGED <<part, prefetchVars, supervisorVars, pluginVars, tagVars>>
    \/ /\ part = "supervisor" /\ SupervisorNext
       /\ UNCHANGED <<part, prefetchVars, evictionVars, pluginVars, tagVars>>
    \/ /\ part = "plugins" /\ PluginsNext
       /\ UNCHANGED <<part, prefetchVars, evictionVars, supervisorVars, tagVars>>
    \/ /\ part = "tags" /\ TagNext
       /\ UNCHANGED <<part, prefetchVars, evictionVars, supervisorVars, pluginVars>>

BackgroundSpec ==
    /\ BackgroundInit /\ [][BackgroundNext]_backgroundVars
    /\ PrefetchFairness /\ EvictionFairness
=============================================================================
