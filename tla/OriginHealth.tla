---------------------------- MODULE OriginHealth ----------------------------
(***************************************************************************)
(* Which origin a read goes to: HealthMonitor (musicfs-origins/src/        *)
(* health.rs), OriginRegistry (registry.rs), Router (router.rs) and        *)
(* FailoverExecutor (failover.rs), over the origins of local.rs, nfs.rs    *)
(* and smb.rs.                                                             *)
(*                                                                         *)
(* Registering and unregistering go through the maps of three objects one  *)
(* after the other; checks and reads run between any two of those steps.   *)
(* Calls of register and unregister for one origin do not overlap: nothing *)
(* in the code orders them, the caller must.                               *)
(***************************************************************************)
EXTENDS Integers, FiniteSets, Maps

CONSTANTS
    Origins,
    Kind,         \* of an origin: "local", "nfs", "smb", or "other", a plugin's
    Priority,     \* the priority an origin is registered with
    Threshold,    \* failed checks that make an origin unhealthy
    MaxAttempts,  \* of FailoverExecutor at a read
    MaxRetries,   \* of an NFS or SMB origin at a read
    Movable,      \* the origins that come and go
    Watched       \* the origins whose condition changes

ASSUME OriginHealthAssumption ==
    /\ \A o \in Origins : /\ Kind[o] \in {"local", "nfs", "smb", "other"}
                          /\ Priority[o] \in 0..255
                          /\ Threshold[o] \in Nat
    /\ MaxAttempts \in Nat \ {0} /\ MaxRetries \in Nat \ {0}
    /\ Movable \subseteq Origins /\ Watched \subseteq Origins

VARIABLES
    registered,   \* OriginRegistry.origins
    prioritised,  \* keys of Router.priorities
    timed,        \* keys of Router.latency_stats
    monitored,    \* keys of HealthMonitor.origins
    admin,        \* the step of register or unregister each origin is at
    state,        \* HealthMonitor.state: a map from origins to status, failures
    check,        \* the check each task makes of each origin
    running,      \* the monitor's loop has not been stopped
    published,    \* what the events said last: healthy or not
    muddled,      \* history: checks of it overlapped, or its state was reset
    read,         \* the read under way, or its answer
    cond,         \* how each origin is
    overtaken     \* history: gone while a check or a read of it was under way

registry == <<registered, prioritised, timed, monitored, admin>>
monitor == <<state, check, running, published, muddled>>
vars == <<registry, monitor, read, cond, overtaken>>

Tasks == {"loop", "now"}
Unchecked == [pc |-> "idle"]
Fresh == [status |-> "Unknown", failures |-> 0]
Conditions(o) == {"up", "down", "hung"}
                   \cup (IF Kind[o] \in {"nfs", "smb"} THEN {"stale"} ELSE {})
                   \cup (IF Kind[o] = "other" THEN {"degraded"} ELSE {})

Init ==
    /\ registered = Origins \ Movable
    /\ prioritised = registered
    /\ timed = {}
    /\ monitored = registered
    /\ admin = [o \in Origins |-> "done"]
    /\ state = [o \in registered |-> Fresh]
    /\ check = [t \in Tasks |-> [o \in Origins |-> Unchecked]]
    /\ running = TRUE
    /\ published = [o \in Origins |-> FALSE]
    /\ muddled = {}
    /\ read = [pc |-> "idle", answer |-> "none", there |-> TRUE]
    /\ cond = [o \in Origins |-> "up"]
    /\ overtaken = {}

Checking(o) == \E t \in Tasks : check[t][o].pc # "idle"
IsHealthy(o) == o \in DOMAIN state /\ state[o].status = "Healthy"

----------------------------------------------------------------------------
(* register and unregister.                                                *)

Step(o, from, to) == admin[o] = from /\ admin' = [admin EXCEPT ![o] = to]

\* check_now holds a guard of HealthMonitor.origins while it waits.
NotHeld(o) == check["now"][o].pc = "idle"

\* The state of o changes beside its checks: what was published stays.
Restate(o, new) ==
    /\ state' = new
    /\ muddled' = IF Checking(o) \/ published[o] THEN muddled \cup {o} ELSE muddled
    /\ UNCHANGED <<check, running, published>>

SetPriority(o) ==
    /\ Step(o, "done", "prioritised")
    /\ prioritised' = prioritised \cup {o}
    /\ UNCHANGED <<registered, timed, monitored, monitor, read, cond, overtaken>>

AddOrigin(o) ==
    /\ Step(o, "prioritised", "monitored") /\ NotHeld(o)
    /\ monitored' = monitored \cup {o}
    /\ UNCHANGED <<registered, prioritised, timed, monitor, read, cond, overtaken>>

AddState(o) ==
    /\ Step(o, "monitored", "stated")
    /\ Restate(o, Insert(state, o, Fresh))
    /\ UNCHANGED <<registered, prioritised, timed, monitored, read, cond, overtaken>>

EnterRegistry(o) ==
    /\ Step(o, "stated", "done")
    /\ registered' = registered \cup {o}
    /\ overtaken' = overtaken \ {o}
    /\ UNCHANGED <<prioritised, timed, monitored, monitor, read, cond>>

Register(o) == SetPriority(o) \/ AddOrigin(o) \/ AddState(o) \/ EnterRegistry(o)

\* What goes while a check or a read of the origin is under way may come back.
Overtake(o) ==
    overtaken' = IF Checking(o) \/ (read.pc = "try" /\ read.origin = o)
                 THEN overtaken \cup {o} ELSE overtaken

\* Mutants: the registry keeps the origin till the rest is gone; the monitor
\* keeps the state.
UnlistLate(o) == registered
Unlist(o) == registered \ {o}
StateKept(o) == state
WithoutState(o) == Remove(state, {o})

LeaveRegistry(o) ==
    /\ o \in registered
    /\ Step(o, "done", "unlisted")
    /\ registered' = Unlist(o)
    /\ read' = [read EXCEPT !.there = @ /\ (read.pc = "idle" \/ read.path # o)]
    /\ UNCHANGED <<prioritised, timed, monitored, monitor, cond, overtaken>>

RemovePriority(o) ==
    /\ Step(o, "unlisted", "unrouted")
    /\ prioritised' = prioritised \ {o}
    /\ timed' = timed \ {o}
    /\ Overtake(o)
    /\ UNCHANGED <<registered, monitored, monitor, read, cond>>

RemoveOrigin(o) ==
    /\ Step(o, "unrouted", "unmonitored") /\ NotHeld(o)
    /\ monitored' = monitored \ {o}
    /\ UNCHANGED <<registered, prioritised, timed, monitor, read, cond, overtaken>>

RemoveState(o) ==
    /\ Step(o, "unmonitored", "done")
    /\ Restate(o, WithoutState(o))
    /\ Overtake(o)
    /\ UNCHANGED <<registered, prioritised, timed, monitored, read, cond>>

Unregister(o) == LeaveRegistry(o) \/ RemovePriority(o) \/ RemoveOrigin(o) \/ RemoveState(o)

----------------------------------------------------------------------------
(* The checks.                                                             *)

Monitoring == UNCHANGED <<registry, read, cond, overtaken>>

\* The answer to health(); the monitor's timeout is shorter than any other.
Answer(o) == CASE cond[o] = "up" -> "Healthy"
               [] cond[o] = "degraded" -> "Degraded"
               [] OTHER -> "Unhealthy"

Ask(t, asked) ==
    /\ \A o \in Origins : check[t][o] = Unchecked
    /\ asked # {}
    /\ check' = [check EXCEPT ![t] = [o \in Origins |-> IF o \in asked THEN [pc |-> "asked"]
                                                                       ELSE Unchecked]]
    /\ muddled' = muddled \cup {o \in asked : Checking(o)}
    /\ UNCHANGED <<state, running, published>> /\ Monitoring

CheckAll == running /\ Ask("loop", monitored)

CheckNow(o) == o \in monitored /\ Ask("now", {o})

Hear(t, o) ==
    /\ check[t][o].pc = "asked"
    /\ check' = [check EXCEPT ![t][o] = [pc |-> "heard", status |-> Answer(o)]]
    /\ UNCHANGED <<state, running, published, muddled>> /\ Monitoring

\* What the status was is looked at before the entry is locked.
Peek(t, o) ==
    /\ check[t][o].pc = "heard"
    /\ check' = [check EXCEPT ![t][o] = [pc |-> "peeked", status |-> @.status,
                                         was |-> IsHealthy(o)]]
    /\ UNCHANGED <<state, running, published, muddled>> /\ Monitoring

\* Failures are counted up to the threshold: more make no difference here.
\* A mutant: counted anew with every status but unhealthy.
JudgedAnew(o, status) ==
    IF status = "Healthy" \/ Threshold[o] > 1
    THEN [status |-> IF status = "Healthy" THEN status ELSE "Degraded", failures |-> 0]
    ELSE [status |-> "Unhealthy", failures |-> 1]
Judged(o, status) ==
    LET old == IF o \in DOMAIN state THEN state[o] ELSE Fresh
        failures == IF old.failures < Threshold[o] THEN old.failures + 1 ELSE old.failures
    IN  CASE status = "Healthy"  -> [status |-> "Healthy", failures |-> 0]
          [] status = "Degraded" -> [old EXCEPT !.status = "Degraded"]
          [] OTHER -> [status |-> IF failures >= Threshold[o] THEN "Unhealthy" ELSE "Degraded",
                       failures |-> failures]

\* What the subscribers have heard, after the event if there is one.
\* A mutant: an event only for an origin that was known.
TellKnown(o, was, now) == IF was # now /\ o \in DOMAIN state /\ state[o].status # "Unknown"
                          THEN now ELSE published[o]
Tell(o, was, now) == IF was # now THEN now ELSE published[o]

Record(t, o) ==
    /\ check[t][o].pc = "peeked"
    /\ state' = Insert(state, o, Judged(o, check[t][o].status))
    /\ LET now == state'[o].status = "Healthy"
           told == Tell(o, check[t][o].was, now)
       IN  /\ published' = [published EXCEPT ![o] = told]
           /\ muddled' = IF told = now /\ \A u \in Tasks \ {t} : check[u][o].pc = "idle"
                         THEN muddled \ {o} ELSE muddled
    /\ check' = [check EXCEPT ![t][o] = Unchecked]
    /\ UNCHANGED running /\ Monitoring

\* The loop's select: a stop is only seen between two rounds.
Stop ==
    /\ running /\ \A o \in Origins : check["loop"][o].pc = "idle"
    /\ running' = FALSE
    /\ UNCHANGED <<state, check, published, muddled>> /\ Monitoring

----------------------------------------------------------------------------
(* A read with failover; a path names its origin (can_serve).              *)

Candidates(path) == {o \in registered : o = path}

PriorityOf(o) == IF o \in prioritised THEN Priority[o] ELSE 100

\* The best by priority; which of the best is a matter of their latencies.
Best(S) == {o \in S : \A p \in S : PriorityOf(o) <= PriorityOf(p)}

\* An origin that was never checked counts as degraded.
IsDegraded(o) == o \in DOMAIN state /\ state[o].status \in {"Degraded", "Unknown"}

LeastBad(S) ==
    LET known == S \cap DOMAIN state
        least == {o \in known : \A p \in known : state[o].failures <= state[p].failures}
    IN  Best(IF known = {} THEN S ELSE least)

Select(S) == Best({o \in S : IsHealthy(o)})

\* A mutant: an unhealthy origin is not tried.
SelectNoneBad(S) ==
    IF Select(S) # {} THEN Select(S) ELSE Best({o \in S : IsDegraded(o)})
SelectWithFallback(S) ==
    LET degraded == {o \in S : IsDegraded(o)}
    IN  IF Select(S) # {} THEN Select(S)
        ELSE IF degraded # {} THEN Best(degraded) ELSE LeastBad(S)

Reading(next) ==
    /\ read' = next
    /\ UNCHANGED <<registered, prioritised, monitored, admin, monitor, cond, overtaken>>

Trying(path, o, fallback, there) ==
    [pc |-> "try", path |-> path, origin |-> o, fallback |-> fallback,
     attempt |-> 1, again |-> 1, there |-> there]

\* route_all: the healthy origins of the path
ReadFrom(path) ==
    /\ read.pc = "idle"
    /\ LET there == path \in registered
       IN  Reading(IF \E o \in Candidates(path) : IsHealthy(o)
                   THEN Trying(path, path, FALSE, there)
                   ELSE [pc |-> "fallback", path |-> path, there |-> there])
    /\ UNCHANGED timed

Ended(answer) == [pc |-> "idle", answer |-> answer, there |-> read.there]

\* route_with_fallback, with the health as it is by then
Fallback ==
    /\ read.pc = "fallback"
    /\ LET selected == SelectWithFallback(Candidates(read.path))
       IN  \/ \E o \in selected : Reading(Trying(read.path, o, TRUE, read.there))
           \/ selected = {} /\ Reading(Ended("no_origin"))
    /\ UNCHANGED timed

\* Only a read from a healthy origin is timed.
ReadData ==
    /\ read.pc = "try" /\ cond[read.origin] \in {"up", "degraded"}
    /\ Reading(Ended("data"))
    /\ timed' = IF read.fallback THEN timed ELSE timed \cup {read.origin}

\* NFS and SMB origins try a stale handle or a lost connection again by
\* themselves, within each attempt of the executor.
TriesStaleAgain == Kind[read.origin] = "nfs" /\ cond[read.origin] = "stale"
TriesConnectionAgain == Kind[read.origin] = "smb" /\ cond[read.origin] = "stale"
Again == (TriesStaleAgain \/ TriesConnectionAgain) /\ read.again < MaxRetries

\* A mutant: the executor's attempts are not counted.
NextTryForEver == [read EXCEPT !.again = IF Again THEN @ + 1 ELSE 1]
NextTry ==
    IF Again THEN [read EXCEPT !.again = @ + 1]
    ELSE IF read.attempt < MaxAttempts THEN [read EXCEPT !.attempt = @ + 1, !.again = 1]
    ELSE Ended("error")

\* Nothing bounds the time of a read: while the origin hangs, it waits.
ReadFails ==
    /\ read.pc = "try" /\ cond[read.origin] \in {"down", "stale"}
    /\ Reading(NextTry)
    /\ UNCHANGED timed

----------------------------------------------------------------------------
Turn(o, to) ==
    /\ to \in Conditions(o) \ {cond[o]}
    /\ cond' = [cond EXCEPT ![o] = to]
    /\ UNCHANGED <<registry, monitor, read, overtaken>>

Checks(t, o) == Hear(t, o) \/ Peek(t, o) \/ Record(t, o)
ReadStep == Fallback \/ ReadData \/ ReadFails

Next ==
    \/ \E o \in Movable : Register(o) \/ Unregister(o)
    \/ CheckAll \/ Stop
    \/ \E o \in Origins : CheckNow(o) \/ \E t \in Tasks : Checks(t, o)
    \/ \E o \in Origins : ReadFrom(o)
    \/ ReadStep
    \/ \E o \in Watched : \E to \in Conditions(o) : Turn(o, to)

Spec == Init /\ [][Next]_vars

\* The timer ticks and health() is cut off after a while, so the checks go on;
\* a read goes on when the origin answers or fails.
FairSpec ==
    /\ Spec
    /\ WF_vars(CheckAll)
    /\ \A o \in Origins, t \in Tasks : WF_vars(Checks(t, o))
    /\ WF_vars(ReadStep)

----------------------------------------------------------------------------
(* Properties.                                                             *)

\* An origin the registry can route to is known to the monitor and has its
\* state and its priority: register enters it last, unregister takes it first.
RegisteredIsMonitored ==
    registered \subseteq monitored \cap prioritised \cap DOMAIN state

\* OriginHealthChanged tells the truth: a subscriber that heard every event
\* knows which origins are healthy, but for those whose checks overlapped or
\* whose state was reset without an event.
EventsTellTheStatus == \A o \in Origins \ muddled : published[o] = IsHealthy(o)

\* unregister leaves nothing of the origin, unless a check or a read that was
\* under way puts its state or its latencies back.
NothingLeftBehind ==
    \A o \in Origins \ (registered \cup overtaken) :
      admin[o] = "done" => o \notin prioritised \cup timed \cup monitored \cup DOMAIN state

\* NoOriginAvailable only when the path's origin was unregistered meanwhile or
\* before: an unhealthy origin, or one never checked, is tried all the same.
ReadsFindTheirOrigin == read.pc = "idle" /\ read.answer = "no_origin" => ~read.there

\* An origin that stays down is found to be unhealthy, and stays so, while the
\* monitor runs and nobody registers it anew.
DownIsNoticed ==
    \A o \in Origins :
      <>[](running /\ o \in registered /\ admin[o] = "done" /\ cond[o] \notin {"up", "degraded"})
        => <>[](o \in DOMAIN state /\ state[o].status = "Unhealthy")

\* A read ends, unless its origin hangs.
ReadsEnd == (\A o \in Origins : <>[](cond[o] # "hung")) => []<>(read.pc = "idle")
=============================================================================
