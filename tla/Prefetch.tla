------------------------------ MODULE Prefetch ------------------------------
(***************************************************************************)
(* The prefetch engine (musicfs-cache/src/prefetch.rs) on the event bus,   *)
(* with the access patterns it learns (musicfs-cache/src/patterns.rs).     *)
(*                                                                         *)
(* One task, the loop, hears of every file that is opened, records which   *)
(* file followed which, and has the likely next ones fetched by tasks of   *)
(* their own.  Whoever started it may stop it and start it anew.  What a   *)
(* fetch does to the store is ReadPath's.                                  *)
(*                                                                         *)
(* Of access_log the row that matters is the newest: the next play counts  *)
(* as its successor, and pruning spares it.                                *)
(***************************************************************************)
EXTENDS EventBus, FiniteSets

CONSTANTS
    Files,
    lookahead,
    max_concurrent,
    MaxPlays,       \* bound on the plays
    MaxGaps         \* bound on gaps, see below

ASSUME PrefetchAssumption ==
    /\ lookahead \in Nat /\ max_concurrent \in Nat
    /\ MaxPlays \in Nat /\ MaxGaps \in Nat

VARIABLES
    running,
    loop,           \* where the loop is
    latest,         \* the newest row of access_log: the files it names, one at most
    counts,         \* sequence_counts: how often the second file followed the first
    saved,          \* the same in the database
    in_flight,
    fetching,       \* the files whose task is fetching them
    landed,         \* the tasks that have fetched and still hold their permit
    plays,          \* history: the file played last, and how many were played
    followed,       \* history: how often the second was played right after the first
    gaps            \* history: the times the log missed plays

patterns == <<latest, counts, saved>>
flights == <<in_flight, fetching, landed>>
history == <<plays, followed, gaps>>
prefetchVars == <<bus, running, loop, patterns, flights, history>>

Engine == "engine"
Pairs == Files \X Files
Ended == [pc |-> "ended"]
Checking == [pc |-> "check"]
Receiving == [pc |-> "recv"]
Cooling == [pc |-> "cooldown"]

PrefetchInit ==
    /\ inbox = EmptyMap /\ lagged = {}
    /\ running = FALSE /\ loop = Ended
    /\ latest = {}
    /\ counts = [p \in Pairs |-> 0] /\ saved = counts
    /\ in_flight = {} /\ fetching = {} /\ landed = 0
    /\ plays = [last |-> {}, number |-> 0]
    /\ followed = counts
    /\ gaps = 0

\* One more time that f came after one of the files before it.
More(count, before, f) ==
    [p \in Pairs |-> IF p \in before \X {f} THEN count[p] + 1 ELSE count[p]]

Gap == gaps < MaxGaps /\ gaps' = gaps + 1

\* FileAccessed, from an open.
Play(f) ==
    /\ plays.number < MaxPlays
    /\ plays' = [last |-> {f}, number |-> plays.number + 1]
    /\ followed' = More(followed, plays.last, f)
    /\ publish(f)
    /\ UNCHANGED <<running, loop, patterns, flights, gaps>>

----------------------------------------------------------------------------
(* start, stop, and the loop.                                              *)

start ==
    /\ loop = Ended
    /\ latest = {} \/ gaps < MaxGaps
    /\ running' = TRUE
    /\ loop' = [pc |-> "subscribe"]
    /\ UNCHANGED <<bus, patterns, flights, history>>

\* The task subscribes when it first runs, and hears of nothing before.
Subscribe ==
    /\ loop.pc = "subscribe"
    /\ inbox' = Insert(inbox, Engine, <<>>)
    /\ loop' = Checking
    /\ IF latest = {} THEN UNCHANGED gaps ELSE Gap
    /\ UNCHANGED <<lagged, running, patterns, flights, plays, followed>>

\* PrefetchHandle::stop: the loop is told, and awaited.
stop ==
    /\ running
    /\ running' = FALSE
    /\ UNCHANGED <<bus, loop, patterns, flights, history>>

\* A mutant: the flag is looked at when the loop begins, and not again.
LoopGoesOn == TRUE
LoopRuns == running

EndLoop ==
    /\ loop' = Ended
    /\ Unsubscribe(Engine)

\* The loop looks at the flag, then waits up to a second for an event.
CheckRunning ==
    /\ loop = Checking
    /\ IF LoopRuns THEN loop' = Receiving /\ UNCHANGED bus ELSE EndLoop
    /\ UNCHANGED <<running, patterns, flights, history>>

RecvTimeout ==
    /\ loop = Receiving /\ Engine \notin lagged /\ inbox[Engine] = <<>>
    /\ loop' = Checking
    /\ UNCHANGED <<bus, running, patterns, flights, history>>

\* "Ok(Err(_)) => break": a receiver that lagged ends the loop, and nobody
\* resets the flag.
LagEnds ==
    /\ loop = Receiving
    /\ Engine \in lagged
    /\ EndLoop
    /\ UNCHANGED <<running, patterns, flights, history>>

----------------------------------------------------------------------------
(* PatternStore.                                                           *)

\* A mutant: the row of MAX(id), which is this one.
SelfBefore(f) == {f}
Before(f) == latest

Likely(count, f) == {g \in Files : count[<<f, g>>] >= 2}

\* The most frequent first; of equal ones any.
predict_next(count, f) ==
    LET likely == Likely(count, f)
        n == IF Cardinality(likely) < lookahead THEN Cardinality(likely) ELSE lookahead
    IN  {s \in [1..n -> likely] :
           \A i \in 1..n : \A g \in likely \ {s[j] : j \in 1..i} :
             count[<<f, g>>] <= count[<<f, s[i]>>] /\ \A j \in 1..i - 1 : s[j] # s[i]}

Hear(f) ==
    /\ loop = Receiving
    /\ Hears(Engine)
    /\ f = Head(inbox[Engine])

Logged(f) ==
    /\ latest' = {f}
    /\ counts' = More(counts, Before(f), f)

\* The statements of record commit one by one: the row, the successor (which
\* memory counts first), the pruning.
Record(f) ==
    /\ Hear(f) /\ Logged(f)
    /\ saved' = More(saved, Before(f), f)
    /\ \E predicted \in predict_next(counts', f) :
         loop' = [pc |-> "prefetch", files |-> predicted]
    /\ UNCHANGED <<running, flights, history>>

\* Any of them may fail; the loop goes on with the next event.
RecordFails(f) ==
    /\ Hear(f)
    /\ \/ UNCHANGED patterns /\ Gap
       \/ Logged(f) /\ saved' \in {saved, More(saved, Before(f), f)} /\ UNCHANGED gaps
    /\ loop' = Checking
    /\ UNCHANGED <<running, flights, plays, followed>>

----------------------------------------------------------------------------
(* prefetch_file, and the tasks it spawns.                                 *)

Rest == [loop EXCEPT !.pc = "prefetch", !.files = Tail(@)]

PrefetchFile ==
    /\ loop.pc = "prefetch" /\ loop.files # <<>>
    /\ LET f == Head(loop.files)
       IN  IF f \in in_flight THEN loop' = Rest /\ UNCHANGED in_flight
           ELSE /\ in_flight' = in_flight \cup {f}
                /\ loop' = [loop EXCEPT !.pc = "permit"]
    /\ UNCHANGED <<bus, running, patterns, fetching, landed, history>>

\* A mutant: what gets no permit stays in flight.
StaysInFlight(f) == in_flight
NotInFlight(f) == in_flight \ {f}

AcquirePermit ==
    /\ loop.pc = "permit"
    /\ LET f == Head(loop.files)
       IN  IF Cardinality(fetching) + landed < max_concurrent
           THEN fetching' = fetching \cup {f} /\ UNCHANGED in_flight
           ELSE in_flight' = NotInFlight(f) /\ UNCHANGED fetching
    /\ loop' = Rest
    /\ UNCHANGED <<bus, running, patterns, landed, history>>

AllAsked ==
    /\ \/ loop = [pc |-> "prefetch", files |-> <<>>] /\ loop' = Cooling
       \/ loop = Cooling /\ loop' = Checking
    /\ UNCHANGED <<bus, running, patterns, flights, history>>

\* Fetched or not.
FetchEnds(f) ==
    /\ f \in fetching
    /\ fetching' = fetching \ {f}
    /\ in_flight' = in_flight \ {f}
    /\ landed' = landed + 1
    /\ UNCHANGED <<bus, running, loop, patterns, history>>

DropPermit ==
    /\ landed > 0
    /\ landed' = landed - 1
    /\ UNCHANGED <<bus, running, loop, patterns, in_flight, fetching, history>>

\* The daemon dies and comes back; PatternStore::new reads the counts.
Restart ==
    /\ inbox' = EmptyMap /\ lagged' = {}
    /\ running' = FALSE /\ loop' = Ended
    /\ counts' = saved
    /\ in_flight' = {} /\ fetching' = {} /\ landed' = 0
    /\ UNCHANGED <<latest, saved, history>>

LoopStep ==
    \/ Subscribe \/ CheckRunning \/ RecvTimeout \/ LagEnds
    \/ \E f \in Files : Record(f) \/ RecordFails(f)
    \/ PrefetchFile \/ AcquirePermit \/ AllAsked

PrefetchNext ==
    \/ \E f \in Files : Play(f) \/ FetchEnds(f)
    \/ start \/ stop \/ LoopStep
    \/ DropPermit \/ Restart

\* The loop and the fetches go on by themselves; an origin answers some time.
PrefetchFairness ==
    /\ WF_prefetchVars(LoopStep)
    /\ WF_prefetchVars(DropPermit)
    /\ \A f \in Files : WF_prefetchVars(FetchEnds(f))

PrefetchSpec == PrefetchInit /\ [][PrefetchNext]_prefetchVars /\ PrefetchFairness

----------------------------------------------------------------------------
(* Properties.                                                             *)

\* The engine counts a succession no more often than it was played, but for
\* one each time plays were lost to it, whatever failed, and the database
\* counts no more than memory.
CountsAreEarned ==
    \A p \in Pairs : saved[p] <= counts[p] /\ counts[p] <= followed[p] + gaps

\* What is in flight lands, with or without a permit, so that it can be
\* prefetched again.  Fetches are taken to end.
FlightsLand == \A f \in Files : f \in in_flight ~> f \notin in_flight

\* Who stops the engine and waits for it, waits for one event's work.
StopEnds == ~running ~> loop = Ended
=============================================================================
