------------------------------ MODULE Plugins ------------------------------
(***************************************************************************)
(* PluginManager (musicfs-plugins/src/manager.rs) over NativePluginHost    *)
(* (native.rs) and WasmPluginHost (wasm.rs).                               *)
(*                                                                         *)
(* The manager is borrowed mutably by every call, so calls do not overlap; *)
(* what a step of the model chooses is what the plugins' own code and the  *)
(* library files do: a library may be broken or replaced between two       *)
(* calls, and init and shutdown may fail.                                  *)
(***************************************************************************)
EXTENDS Integers, FiniteSets, Maps

CONSTANTS
    Paths,       \* names of library files, two of which may be one file
    Canonical,   \* the file a path resolves to
    Configured,  \* the paths of the enabled entries of the configuration
    Found,       \* the paths that the search directories list
    WasmEnabled, \* the feature is compiled in and configured
    WasmBase,    \* the first id of a WASM plugin
    MaxId,       \* bound: native plugins that are ever created
    MaxWasm      \* bound: WASM plugins that are ever loaded

Libraries == {Canonical[p] : p \in Paths}
PluginTypes == {"Origin", "Metadata", "Format"}

ASSUME PluginsAssumption ==
    /\ Configured \subseteq Paths /\ Found \subseteq Paths
    /\ WasmEnabled \in BOOLEAN
    /\ MaxId \in Nat /\ MaxWasm \in Nat
    /\ WasmBase \in Nat /\ WasmBase > MaxId

VARIABLES
    file,       \* the type of the plugin in each library file, or "broken"
    plugins,    \* NativePluginHost.plugins: id to path, type, what was done
    wasm,       \* WasmPluginHost.plugins
    registry,   \* PluginRegistry: the ids of each type
    next_id, next_wasm_id,
    call,       \* the call under way
    stale       \* history: registered ids whose reload failed or met a new type

pluginVars == <<file, plugins, wasm, registry, next_id, next_wasm_id, call, stale>>

NoCall == [pc |-> "idle"]
NothingRegistered == [t \in PluginTypes |-> {}]

Registered == UNION {registry[t] : t \in PluginTypes}

PluginsInit ==
    /\ file \in [Libraries -> PluginTypes \cup {"broken"}]
    /\ plugins = EmptyMap /\ wasm = {}
    /\ registry = NothingRegistered
    /\ next_id = 1 /\ next_wasm_id = WasmBase
    /\ call = [pc |-> "entries", left |-> Configured]
    /\ stale = {}

----------------------------------------------------------------------------
(* The native host.                                                        *)

Loaded(f) == \E i \in DOMAIN plugins : plugins[i].path = f

\* A mutant: the name is compared as it was given.
SameFileAsGiven(p) == p
SameFile(p) == Canonical[p]

Accepts(f) == file[f] # "broken"

Loads(p) == ~Loaded(SameFile(p)) /\ Accepts(Canonical[p])

\* An instance as it was created, by load_and_init, discover or reload.
Fresh(f, by) == [path |-> f, type |-> file[f], by |-> by, ready |-> FALSE]

NewId == next_id

\* load: a library once, whatever name it is given.
load(p, instance) ==
    /\ Loads(p) /\ next_id <= MaxId
    /\ next_id' = next_id + 1
    /\ plugins' = Insert(plugins, NewId, instance)

register(reg, i, t) == [reg EXCEPT ![t] = @ \cup {i}]
unregister(reg, i) == [t \in PluginTypes |-> reg[t] \ {i}]

\* unload takes the plugin out before its shutdown is called, whose failure
\* does not bring it back.
RemovePlugin(S) == plugins' = Remove(plugins, S)

\* What a shutdown goes through.  A mutant: the native plugins only.
ListedNative == DOMAIN plugins
Listed == DOMAIN plugins \cup wasm

World == UNCHANGED <<file, wasm, next_wasm_id>>

----------------------------------------------------------------------------
(* The manager.                                                            *)

RegisterIf(done, i, t) == IF done THEN register(registry, i, t) ELSE registry

\* load_and_init: a plugin whose init failed stays loaded, unregistered; to
\* load it again is then refused.
LoadAndInit(p) ==
    \E done \in BOOLEAN :
      /\ load(p, [Fresh(Canonical[p], "entry") EXCEPT !.ready = done])
      /\ registry' = RegisterIf(done, NewId, file[Canonical[p]])
      /\ UNCHANGED stale /\ World

Refused(p) ==
    /\ ~Loads(p)
    /\ UNCHANGED <<plugins, registry, next_id, stale>> /\ World

\* init: the entries in any order, whatever becomes of each; then what the
\* search paths hold, which is registered but not initialised.
InitEntry ==
    /\ call.pc = "entries"
    /\ \E p \in call.left :
         /\ LoadAndInit(p) \/ Refused(p)
         /\ call' = [call EXCEPT !.left = @ \ {p}]

InitDiscovers ==
    /\ call.pc = "entries" /\ call.left = {}
    /\ call' = [pc |-> "discover", left |-> Found]
    /\ UNCHANGED <<plugins, registry, next_id, stale>> /\ World

Discover ==
    /\ call.pc = "discover"
    /\ \E p \in call.left :
         /\ \/ /\ load(p, Fresh(Canonical[p], "discover"))
               /\ UNCHANGED <<registry, stale>> /\ World
            \/ Refused(p)
         /\ call' = [call EXCEPT !.left = @ \ {p}]

Discovered(t) == {i \in DOMAIN plugins : plugins[i].by = "discover" /\ plugins[i].type = t}

\* What was discovered is registered once all search paths are through.
InitDone ==
    /\ call.pc = "discover" /\ call.left = {}
    /\ call' = NoCall
    /\ registry' = [t \in PluginTypes |-> registry[t] \cup Discovered(t)]
    /\ UNCHANGED <<plugins, next_id, stale>> /\ World

\* A search path that cannot be read fails the whole init, and the manager is
\* dropped, which shuts down what was loaded.
InitFails ==
    /\ call.pc = "discover"
    /\ call' = [pc |-> "shutdown", left |-> Listed]
    /\ UNCHANGED <<plugins, registry, next_id, stale>> /\ World

Load(p) ==
    /\ call = NoCall
    /\ LoadAndInit(p) \/ Refused(p)
    /\ UNCHANGED call

LoadWasm ==
    /\ call = NoCall /\ WasmEnabled
    /\ next_wasm_id < WasmBase + MaxWasm
    /\ wasm' = wasm \cup {next_wasm_id}
    /\ next_wasm_id' = next_wasm_id + 1
    /\ UNCHANGED <<file, plugins, registry, next_id, call, stale>>

\* The registry forgets the id first, known or not.
Unload(i) ==
    /\ registry' = unregister(registry, i)
    /\ RemovePlugin({i})
    /\ wasm' = IF i \in DOMAIN plugins THEN wasm ELSE wasm \ {i}
    /\ stale' = stale \ {i}
    /\ UNCHANGED <<file, next_id, next_wasm_id>>

\* Any id that was ever given out.
UnloadOne(i) ==
    /\ call = NoCall
    /\ i \in (1..(next_id - 1)) \cup (WasmBase..(next_wasm_id - 1))
    /\ Unload(i)
    /\ UNCHANGED call

\* reload: unload, and load under a new id which is then given up for the old
\* one.  Where either fails the plugin is gone, and the registry not told; the
\* new instance is not initialised, and its type may be another.
ReloadFails(i) ==
    /\ RemovePlugin({i})
    /\ stale' = stale \cup ({i} \cap Registered)
    /\ UNCHANGED <<next_id, registry>> /\ World

\* A mutant: the plugin stays under the id that load gave it.
ReloadedAnew(i) == Insert(Remove(plugins, {i}), NewId, Fresh(plugins[i].path, "reload"))
Reloaded(i) == Insert(plugins, i, Fresh(plugins[i].path, "reload"))

Reloads(i) ==
    /\ Accepts(plugins[i].path) /\ next_id <= MaxId
    /\ next_id' = next_id + 1
    /\ plugins' = Reloaded(i)
    /\ stale' = IF file[plugins[i].path] = plugins[i].type THEN stale
                ELSE stale \cup ({i} \cap Registered)
    /\ UNCHANGED registry /\ World

Reload(i) ==
    /\ call = NoCall /\ i \in DOMAIN plugins
    /\ ReloadFails(i) \/ Reloads(i)
    /\ UNCHANGED call

\* reload_all: in any order, and no further than the first that fails.
ReloadAll ==
    /\ call = NoCall /\ DOMAIN plugins # {}
    /\ call' = [pc |-> "reload", left |-> DOMAIN plugins]
    /\ UNCHANGED <<plugins, registry, next_id, stale>> /\ World

ReloadNext ==
    /\ call.pc = "reload"
    /\ \/ call.left = {} /\ call' = NoCall
          /\ UNCHANGED <<plugins, registry, next_id, stale>> /\ World
       \/ \E i \in call.left :
            \/ Reloads(i) /\ call' = [call EXCEPT !.left = @ \ {i}]
            \/ ReloadFails(i) /\ call' = NoCall

\* shutdown, which the drop of the manager calls too: what is listed is
\* unloaded, errors or not.
Shutdown ==
    /\ call = NoCall
    /\ call' = [pc |-> "shutdown", left |-> Listed]
    /\ UNCHANGED <<plugins, registry, next_id, stale>> /\ World

ShutdownNext ==
    /\ call.pc = "shutdown"
    /\ \/ \E i \in call.left : Unload(i) /\ call' = [call EXCEPT !.left = @ \ {i}]
       \/ /\ call.left = {} /\ call' = [pc |-> "down"]
          /\ UNCHANGED <<plugins, registry, next_id, stale>> /\ World

\* Somebody installs another build of a library, or none.
Replace(f) ==
    /\ call.pc \in {"idle", "entries", "discover", "reload"}
    /\ \E t \in PluginTypes \cup {"broken"} : t # file[f] /\ file' = [file EXCEPT ![f] = t]
    /\ UNCHANGED <<plugins, wasm, registry, next_id, next_wasm_id, call, stale>>

----------------------------------------------------------------------------
PluginsNext ==
    \/ InitEntry \/ InitDiscovers \/ Discover \/ InitDone \/ InitFails
    \/ \E p \in Paths : Load(p)
    \/ LoadWasm
    \/ \E i \in 1..MaxId \cup WasmBase..(WasmBase + MaxWasm) : UnloadOne(i) \/ Reload(i)
    \/ ReloadAll \/ ReloadNext
    \/ Shutdown \/ ShutdownNext
    \/ \E f \in Libraries : Replace(f)

PluginsSpec == PluginsInit /\ [][PluginsNext]_pluginVars

----------------------------------------------------------------------------
(* Properties.                                                             *)

Ids == 1..MaxId

Plugin == [path : Libraries, type : PluginTypes, by : {"entry", "discover", "reload"}, ready : BOOLEAN]

TypeOK ==
    /\ file \in [Libraries -> PluginTypes \cup {"broken"}]
    /\ DOMAIN plugins \subseteq Ids
    /\ \A i \in DOMAIN plugins : plugins[i] \in Plugin /\ i < next_id
    /\ wasm \subseteq WasmBase..(next_wasm_id - 1)
    /\ registry \in [PluginTypes -> SUBSET Ids]
    /\ next_id \in 1..(MaxId + 1) /\ next_wasm_id \in WasmBase..(WasmBase + MaxWasm)
    /\ stale \subseteq Registered

\* No library is loaded twice, under whatever names and through however many
\* reloads: two instances of one library share its statics.
LoadedOnce ==
    \A i, j \in DOMAIN plugins : plugins[i].path = plugins[j].path => i = j

\* What the registry lists under a type is loaded, of that type, and was
\* initialised if it is from an entry or a load (one whose init failed stays
\* loaded, but nobody is led to it), except after a reload that failed or met
\* another type, until it is unloaded.
RegistryIsTrue ==
    \A t \in PluginTypes : \A i \in registry[t] \ stale :
      /\ i \in DOMAIN plugins /\ plugins[i].type = t
      /\ plugins[i].by = "entry" => plugins[i].ready

\* An id belongs to one library for good: it is neither moved to another by a
\* reload nor given out again.
IdKeepsLibrary ==
    [][\A i \in DOMAIN plugins' :
         \/ i \in DOMAIN plugins /\ plugins'[i].path = plugins[i].path
         \/ i >= next_id]_pluginVars

\* A shutdown leaves nothing loaded, whatever the plugins answer; only ids
\* that were stale stay in the registry.
ShutdownLeavesNothing ==
    call.pc = "down" => plugins = EmptyMap /\ wasm = {} /\ Registered = stale
=============================================================================
