------------------------------ MODULE Eviction ------------------------------
(***************************************************************************)
(* The eviction policy (musicfs-cache/src/eviction.rs): LruEviction keeps  *)
(* who was used when in two maps, and evict_to_target deletes the least    *)
(* recently used chunks from the store while tasks go on to put, use and   *)
(* delete chunks.  Nothing in the repository calls it yet: who reports an  *)
(* access is the caller's, and modelled as a task that just put or read    *)
(* the chunk.                                                              *)
(*                                                                         *)
(* Of the store (CasStore) only what get, delete and current_size tell is  *)
(* kept; a chunk is one byte.                                              *)
(***************************************************************************)
EXTENDS Maps, Integers, Sequences, FiniteSets

Seqs == INSTANCE SequencesExt

CONSTANTS
    Tasks,     \* the tasks that use chunks and report it
    Chunks,
    Target,    \* target_size
    MaxNow,    \* bound on the clock
    MaxPuts    \* bound on the puts, so that the evictor may catch up

ASSUME EvictionAssumption == Target \in Nat /\ MaxNow \in Nat /\ MaxPuts \in Nat

VARIABLES
    stored,        \* the chunks the store has
    unreadable,    \* those of them that get refuses
    puts,
    now,           \* the clock, which may stand still between two looks at it
    report,        \* what each task is about to record: chunk and time
    access_times,  \* time to chunk
    hash_to_time,  \* chunk to time
    evictor,       \* where evict_to_target is
    ties,          \* history: the times at which two chunks were used
    blamed         \* history: the chunks others deleted, spoilt, or recorded
                   \*   when they were gone

lru == <<access_times, hash_to_time>>
disk == <<stored, unreadable, puts>>
evictionVars == <<disk, now, report, lru, evictor, ties, blamed>>

Idle == [pc |-> "idle"]
NoReport == [is |-> "none"]

EvictionInit ==
    /\ stored = {} /\ unreadable = {} /\ puts = 0
    /\ now = 0
    /\ report = [t \in Tasks |-> NoReport]
    /\ access_times = EmptyMap /\ hash_to_time = EmptyMap
    /\ evictor = Idle
    /\ ties = {} /\ blamed = {}

Readable(c) == c \in stored \ unreadable

----------------------------------------------------------------------------
(* The store in the hands of others.                                       *)

Tick ==
    /\ now < MaxNow
    /\ now' = now + 1
    /\ UNCHANGED <<disk, report, lru, evictor, ties, blamed>>

PutChunk(c) ==
    /\ c \notin stored /\ puts < MaxPuts
    /\ stored' = stored \cup {c}
    /\ puts' = puts + 1
    /\ blamed' = blamed \ {c}
    /\ UNCHANGED <<unreadable, now, report, lru, evictor, ties>>

\* A read deletes a chunk it found corrupt; the disk spoils one.
LoseChunk(c) ==
    /\ c \in stored
    /\ \/ stored' = stored \ {c} /\ unreadable' = unreadable \ {c}
       \/ c \notin unreadable /\ unreadable' = unreadable \cup {c} /\ UNCHANGED stored
    /\ blamed' = blamed \cup {c}
    /\ UNCHANGED <<puts, now, report, lru, evictor, ties>>

----------------------------------------------------------------------------
(* record_access looks at the clock before it asks for the locks.          *)

Access(t, c) ==
    /\ report[t] = NoReport
    /\ Readable(c)
    /\ report' = [report EXCEPT ![t] = [is |-> "access", chunk |-> c, at |-> now]]
    /\ UNCHANGED <<disk, now, lru, evictor, ties, blamed>>

Without(times, c) ==
    IF c \in DOMAIN hash_to_time THEN Remove(times, {hash_to_time[c]}) ELSE times

\* A mutant: the old time is removed after the new one was inserted.
RecordedFirst(times, c, at) == Without(Insert(times, at, c), c)
Recorded(times, c, at) == Insert(Without(times, c), at, c)

record_access(t) ==
    /\ report[t] # NoReport
    /\ LET c == report[t].chunk
           at == report[t].at
       IN  /\ access_times' = Recorded(access_times, c, at)
           /\ hash_to_time' = Insert(hash_to_time, c, at)
           /\ ties' = IF \E d \in DOMAIN hash_to_time : d # c /\ hash_to_time[d] = at
                      THEN ties \cup {at} ELSE ties
           /\ blamed' = IF Readable(c) THEN blamed ELSE blamed \cup {c}
    /\ report' = [report EXCEPT ![t] = NoReport]
    /\ UNCHANGED <<disk, now, evictor>>

----------------------------------------------------------------------------
(* evict_to_target, between its calls of the store.                        *)

Tracked == {access_times[at] : at \in DOMAIN access_times}

\* The oldest first; the batch of ten is all there are.
select_victims ==
    LET times == Seqs!SetToSortSeq(DOMAIN access_times, <)
    IN  [i \in 1..Len(times) |-> access_times[times[i]]]

evict_to_target ==
    /\ evictor = Idle
    /\ evictor' = [pc |-> "check"]
    /\ UNCHANGED <<disk, now, report, lru, ties, blamed>>

Victims(victims) == [pc |-> "victim", victims |-> victims]

SelectVictims ==
    /\ evictor.pc = "check"
    /\ evictor' = IF Cardinality(stored) > Target /\ Tracked # {}
                  THEN Victims(select_victims) ELSE Idle
    /\ UNCHANGED <<disk, now, report, lru, ties, blamed>>

\* "if let Ok(data) = store.get": a victim that cannot be read stays one.
GetVictim ==
    /\ evictor.pc = "victim"
    /\ evictor' = IF evictor.victims = <<>> THEN [pc |-> "check"]
                  ELSE IF Readable(Head(evictor.victims))
                  THEN [evictor EXCEPT !.pc = "delete"]
                  ELSE Victims(Tail(evictor.victims))
    /\ UNCHANGED <<disk, now, report, lru, ties, blamed>>

\* An error ends the eviction; a chunk that is gone by now is none.
DeleteVictim ==
    /\ evictor.pc = "delete"
    /\ LET c == Head(evictor.victims)
       IN  \/ /\ stored' = stored \ {c} /\ unreadable' = unreadable \ {c}
              /\ evictor' = [evictor EXCEPT !.pc = "remove"]
           \/ evictor' = Idle /\ UNCHANGED <<stored, unreadable>>
    /\ UNCHANGED <<puts, now, report, lru, ties, blamed>>

\* A mutant: the chunk is gone and the policy is not told.
Forgotten(c) == UNCHANGED lru
remove(c) ==
    /\ access_times' = Without(access_times, c)
    /\ hash_to_time' = Remove(hash_to_time, {c})

RemoveVictim ==
    /\ evictor.pc = "remove"
    /\ remove(Head(evictor.victims))
    /\ evictor' = Victims(Tail(evictor.victims))
    /\ UNCHANGED <<disk, now, report, ties, blamed>>

EvictorStep == SelectVictims \/ GetVictim \/ DeleteVictim \/ RemoveVictim

EvictionNext ==
    \/ Tick
    \/ \E c \in Chunks : PutChunk(c) \/ LoseChunk(c) \/ \E t \in Tasks : Access(t, c)
    \/ \E t \in Tasks : record_access(t)
    \/ evict_to_target \/ EvictorStep

\* The evictor goes on by itself; the disk and the lock answer.
EvictionFairness == WF_evictionVars(EvictorStep)

EvictionSpec == EvictionInit /\ [][EvictionNext]_evictionVars /\ EvictionFairness

----------------------------------------------------------------------------
(* Properties.                                                             *)

\* A chunk is a victim by its last recorded access, and by no older one.
VictimsAreCurrent ==
    \A at \in DOMAIN access_times :
       LET c == access_times[at]
       IN  c \in DOMAIN hash_to_time /\ hash_to_time[c] = at

\* A chunk the policy knows is a victim some time, unless another chunk was
\* used at the very instant of its last access: the map keeps one of the two.
OnlyTiesForget ==
    \A c \in DOMAIN hash_to_time : c \in Tracked \/ hash_to_time[c] \in ties

\* The two maps of the policy say the same, but for the chunks that shared an
\* instant of the clock.
PolicyIsRight == VictimsAreCurrent /\ OnlyTiesForget

\* Once chunks are neither deleted, spoilt nor recorded behind its back, an
\* eviction ends; one such victim and it may ask for it for ever.
EvictionEnds == evictor # Idle ~> (evictor = Idle \/ Tracked \cap blamed # {})
=============================================================================
