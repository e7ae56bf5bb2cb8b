-------------------------- MODULE BackgroundProofs --------------------------
(***************************************************************************)
(* Theorems about four parts that work in the background and share no      *)
(* state: the two maps of the eviction policy agree, the prefetch engine   *)
(* credits no succession that was not played, the task supervisor's        *)
(* answers are true, and the plugin manager loads no library twice and     *)
(* forgets none; for any files, chunks, tasks, names, capacity of the bus, *)
(* clock, libraries and configuration.                                     *)
(***************************************************************************)
EXTENDS Eviction, Prefetch, Supervisor, Plugins, FiniteSetTheorems, SequenceTheorems, TLAPS

----------------------------------------------------------------------------
(* The eviction policy.                                                    *)

\* Two chunks last used at one instant: that instant is a tie.
SameInstantIsTie ==
    \A c, d \in DOMAIN hash_to_time :
      c # d /\ hash_to_time[c] = hash_to_time[d] => hash_to_time[c] \in ties

PolicyInv == PolicyIsRight /\ SameInstantIsTie

\* A chunk the policy knows is still a victim when another chunk c is taken
\* out of the times, unless the two shared their instant.
LEMMA WithoutKeepsOthers ==
    ASSUME PolicyInv, NEW c, NEW d \in DOMAIN hash_to_time, d # c,
           hash_to_time[d] \notin ties
    PROVE  /\ hash_to_time[d] \in DOMAIN Without(access_times, c)
           /\ Without(access_times, c)[hash_to_time[d]] = d
<1> DEFINE at == hash_to_time[d]
<1>1. at \in DOMAIN access_times /\ access_times[at] = d
  BY DEF PolicyInv, PolicyIsRight, OnlyTiesForget, VictimsAreCurrent, Tracked
<1>2. CASE c \in DOMAIN hash_to_time
  <2>1. hash_to_time[c] # at
    BY <1>2 DEF PolicyInv, SameInstantIsTie
  <2> QED
    BY <1>1, <1>2, <2>1 DEF Without, Remove
<1>3. CASE c \notin DOMAIN hash_to_time
  BY <1>1, <1>3 DEF Without
<1> QED
  BY <1>2, <1>3

\* What is left of the times without c are current times of other chunks.
LEMMA WithoutIsCurrent ==
    ASSUME PolicyInv, NEW c, NEW at \in DOMAIN Without(access_times, c)
    PROVE  LET d == Without(access_times, c)[at]
           IN  d # c /\ d \in DOMAIN hash_to_time /\ hash_to_time[d] = at
<1>1. at \in DOMAIN access_times /\ Without(access_times, c)[at] = access_times[at]
  BY DEF Without, Remove
<1>2. c \in DOMAIN hash_to_time => hash_to_time[c] # at
  BY DEF Without, Remove
<1> QED
  BY <1>1, <1>2 DEF PolicyInv, PolicyIsRight, VictimsAreCurrent

\* An access recorded, at a time that may lie in the past.
LEMMA RecordKeepsPolicy ==
    ASSUME PolicyInv, NEW t \in Tasks, record_access(t)
    PROVE  PolicyInv'
<1> DEFINE c == report[t].chunk
           at == report[t].at
<1>1. /\ access_times' = Insert(Without(access_times, c), at, c)
      /\ hash_to_time' = Insert(hash_to_time, c, at)
      /\ ties' = IF \E d \in DOMAIN hash_to_time : d # c /\ hash_to_time[d] = at
                 THEN ties \cup {at} ELSE ties
  BY DEF record_access, Recorded
<1> HIDE DEF c, at
<1>2. /\ DOMAIN hash_to_time' = DOMAIN hash_to_time \cup {c}
      /\ hash_to_time'[c] = at
      /\ \A d \in DOMAIN hash_to_time : d # c => hash_to_time'[d] = hash_to_time[d]
  BY <1>1 DEF Insert
<1>3. /\ DOMAIN access_times' = DOMAIN Without(access_times, c) \cup {at}
      /\ access_times'[at] = c
      /\ \A a \in DOMAIN Without(access_times, c) :
           a # at => access_times'[a] = Without(access_times, c)[a]
  BY <1>1 DEF Insert
<1>4. VictimsAreCurrent'
  <2> SUFFICES ASSUME NEW a \in DOMAIN access_times'
               PROVE  /\ access_times'[a] \in DOMAIN hash_to_time'
                      /\ hash_to_time'[access_times'[a]] = a
    BY DEF VictimsAreCurrent
  <2>1. CASE a = at
    BY <2>1, <1>2, <1>3
  <2>2. CASE a # at
    BY <2>2, <1>2, <1>3, WithoutIsCurrent
  <2> QED
    BY <2>1, <2>2
<1>5. OnlyTiesForget'
  <2> SUFFICES ASSUME NEW d \in DOMAIN hash_to_time', hash_to_time'[d] \notin ties'
               PROVE  \E a \in DOMAIN access_times' : access_times'[a] = d
    BY DEF OnlyTiesForget, Tracked
  <2>1. CASE d = c
    BY <2>1, <1>3
  <2>2. CASE d # c
    <3>1. d \in DOMAIN hash_to_time /\ hash_to_time'[d] = hash_to_time[d]
      BY <2>2, <1>2
    <3>2. hash_to_time[d] # at /\ hash_to_time[d] \notin ties
      BY <2>2, <3>1, <1>1
    <3> QED
      BY <2>2, <3>1, <3>2, <1>3, WithoutKeepsOthers
  <2> QED
    BY <2>1, <2>2
<1>6. SameInstantIsTie'
  <2> SUFFICES ASSUME NEW d \in DOMAIN hash_to_time', NEW e \in DOMAIN hash_to_time',
                      d # e, hash_to_time'[d] = hash_to_time'[e]
               PROVE  hash_to_time'[d] \in ties'
    BY DEF SameInstantIsTie
  <2>1. CASE d # c /\ e # c
    BY <2>1, <1>1, <1>2 DEF PolicyInv, SameInstantIsTie
  <2>2. CASE d = c \/ e = c
    BY <2>2, <1>1, <1>2
  <2> QED
    BY <2>1, <2>2
<1> QED
  BY <1>4, <1>5, <1>6 DEF PolicyInv, PolicyIsRight

\* A chunk removed, whether or not the policy still knows it.
LEMMA RemoveKeepsPolicy ==
    ASSUME PolicyInv, NEW c, remove(c), UNCHANGED ties
    PROVE  PolicyInv'
<1>1. /\ access_times' = Without(access_times, c)
      /\ DOMAIN hash_to_time' = DOMAIN hash_to_time \ {c}
      /\ \A d \in DOMAIN hash_to_time' : hash_to_time'[d] = hash_to_time[d]
  BY DEF remove, Remove
<1>2. VictimsAreCurrent'
  BY <1>1, WithoutIsCurrent DEF VictimsAreCurrent
<1>3. OnlyTiesForget'
  <2> SUFFICES ASSUME NEW d \in DOMAIN hash_to_time', hash_to_time'[d] \notin ties'
               PROVE  \E a \in DOMAIN access_times' : access_times'[a] = d
    BY DEF OnlyTiesForget, Tracked
  <2> QED
    BY <1>1, WithoutKeepsOthers
<1>4. SameInstantIsTie'
  BY <1>1 DEF PolicyInv, SameInstantIsTie
<1> QED
  BY <1>2, <1>3, <1>4 DEF PolicyInv, PolicyIsRight

\* Every other step leaves the policy alone.
LEMMA OthersLeavePolicy ==
    ASSUME PolicyInv, UNCHANGED <<lru, ties>>
    PROVE  PolicyInv'
BY DEF PolicyInv, PolicyIsRight, VictimsAreCurrent, OnlyTiesForget, SameInstantIsTie, Tracked, lru

\* Every step of tasks, disk and evictor keeps the invariant.
LEMMA PolicyStep ==
    ASSUME PolicyInv, [EvictionNext]_evictionVars
    PROVE  PolicyInv'
<1>1. CASE Tick
  BY <1>1, OthersLeavePolicy DEF Tick
<1>2. ASSUME NEW c \in Chunks, PutChunk(c) \/ LoseChunk(c)
      PROVE  PolicyInv'
  BY <1>2, OthersLeavePolicy DEF PutChunk, LoseChunk
<1>3. ASSUME NEW c \in Chunks, NEW t \in Tasks, Access(t, c)
      PROVE  PolicyInv'
  BY <1>3, OthersLeavePolicy DEF Access
<1>4. ASSUME NEW t \in Tasks, record_access(t)
      PROVE  PolicyInv'
  BY <1>4, RecordKeepsPolicy
<1>5. CASE evict_to_target \/ SelectVictims \/ GetVictim \/ DeleteVictim
  BY <1>5, OthersLeavePolicy DEF evict_to_target, SelectVictims, GetVictim, DeleteVictim
<1>6. CASE RemoveVictim
  BY <1>6, RemoveKeepsPolicy DEF RemoveVictim
<1>7. CASE UNCHANGED evictionVars
  BY <1>7, OthersLeavePolicy DEF evictionVars
<1> QED
  BY <1>1, <1>2, <1>3, <1>4, <1>5, <1>6, <1>7 DEF EvictionNext, EvictorStep

\* LruEviction's two maps never contradict each other: a victim is chosen by
\* its last recorded access, and a chunk that is known is found as a victim,
\* unless another one was used at the same instant of the clock
\* (record_access and remove of eviction.rs).
THEOREM PolicyStaysRight == EvictionSpec => []PolicyIsRight
<1>1. EvictionInit => PolicyInv
  BY DEF EvictionInit, PolicyInv, PolicyIsRight, VictimsAreCurrent, OnlyTiesForget,
         SameInstantIsTie, EmptyMap
<1>2. PolicyInv /\ [EvictionNext]_evictionVars => PolicyInv'
  BY PolicyStep
<1>3. PolicyInv => PolicyIsRight
  BY DEF PolicyInv
<1> QED
  BY <1>1, <1>2, <1>3, PTL DEF EvictionSpec

----------------------------------------------------------------------------
(* The prefetch engine.                                                    *)

Waiting == inbox[Engine]
Listening == Engine \in DOMAIN inbox \ lagged

\* Where p's second file comes right after its first.
SuccessionsAt(seq, p) == {i \in 1..Len(seq) - 1 : <<seq[i], seq[i + 1]>> = p}
Successions(seq, p) == Cardinality(SuccessionsAt(seq, p))

\* Whether the next event counts for p.
NextCounts(p) == IF Waiting # <<>> /\ p \in latest \X {Waiting[1]} THEN 1 ELSE 0

PrefetchShape ==
    /\ DOMAIN inbox \subseteq {Engine}
    /\ Engine \in DOMAIN inbox => inbox[Engine] \in Seq(Files)
    /\ counts \in [Pairs -> Nat] /\ saved \in [Pairs -> Nat] /\ followed \in [Pairs -> Nat]
    /\ gaps \in Nat
    /\ DOMAIN plays = {"last", "number"}

\* What waits is counted for as well, while the engine hears of everything.
Earned(p) ==
    /\ saved[p] <= counts[p] /\ counts[p] <= followed[p] + gaps
    /\ Listening => counts[p] + Successions(Waiting, p) + NextCounts(p) <= followed[p] + gaps

\* Where the next play falls in, or a gap is left for it.
Connected ==
    Listening =>
      IF Waiting = <<>>
      THEN latest \subseteq plays.last \/ \A p \in Pairs : counts[p] + 1 <= followed[p] + gaps
      ELSE plays.last = {Waiting[Len(Waiting)]}

CountsInv == PrefetchShape /\ Connected /\ \A p \in Pairs : Earned(p)

\* Successions are finitely many.
LEMMA SuccessionsFinite ==
    ASSUME NEW q \in Seq(Files), NEW p
    PROVE  IsFiniteSet(SuccessionsAt(q, p)) /\ Successions(q, p) \in Nat
<1>1. Len(q) - 1 \in Int /\ SuccessionsAt(q, p) \subseteq 1..Len(q) - 1
  BY LenProperties DEF SuccessionsAt
<1>2. IsFiniteSet(1..Len(q) - 1)
  BY <1>1, FS_Interval
<1> QED
  BY <1>1, <1>2, FS_Subset, FS_CardinalityType DEF Successions

\* One more event that waits succeeds the last that does.
LEMMA AppendSuccessions ==
    ASSUME NEW q \in Seq(Files), NEW f \in Files, NEW p
    PROVE  Successions(Append(q, f), p) =
             Successions(q, p) + IF q # <<>> /\ <<q[Len(q)], f>> = p THEN 1 ELSE 0
<1> DEFINE r == Append(q, f)
<1>1. /\ Len(q) \in Nat /\ Len(r) = Len(q) + 1
      /\ \A i \in 1..Len(q) : r[i] = q[i]
      /\ r[Len(q) + 1] = f
      /\ q # <<>> <=> Len(q) > 0
  BY LenProperties, AppendProperties, EmptySeq
<1> HIDE DEF r
<1>2. IsFiniteSet(SuccessionsAt(q, p)) /\ Successions(q, p) \in Nat
  BY SuccessionsFinite
<1>3. Len(q) \notin SuccessionsAt(q, p)
  BY <1>1 DEF SuccessionsAt
<1>4. CASE q # <<>> /\ <<q[Len(q)], f>> = p
  <2>1. SuccessionsAt(r, p) = SuccessionsAt(q, p) \cup {Len(q)}
    BY <1>1, <1>4 DEF SuccessionsAt
  <2>2. Cardinality(SuccessionsAt(q, p) \cup {Len(q)}) = Cardinality(SuccessionsAt(q, p)) + 1
    BY <1>2, <1>3, FS_AddElement
  <2> QED
    BY <1>4, <2>1, <2>2 DEF Successions, r
<1>5. CASE ~(q # <<>> /\ <<q[Len(q)], f>> = p)
  <2>1. SuccessionsAt(r, p) = SuccessionsAt(q, p)
    BY <1>1, <1>5 DEF SuccessionsAt
  <2> QED
    BY <1>2, <1>5, <2>1 DEF Successions, r
<1> QED
  BY <1>4, <1>5

\* The first event taken away, with its successor.
LEMMA TailSuccessions ==
    ASSUME NEW q \in Seq(Files), q # <<>>, NEW p
    PROVE  Successions(q, p) =
             Successions(Tail(q), p) + IF Tail(q) # <<>> /\ <<q[1], Tail(q)[1]>> = p THEN 1 ELSE 0
<1> DEFINE r == Tail(q)
<1>1. /\ Len(q) \in Nat \ {0} /\ r \in Seq(Files) /\ Len(r) = Len(q) - 1
      /\ \A i \in 1..Len(r) : r[i] = q[i + 1]
      /\ r # <<>> <=> Len(r) > 0
  <2>1. Len(q) \in Nat \ {0}
    BY EmptySeq
  <2>2. r \in Seq(Files) /\ Len(r) = Len(q) - 1 /\ \A i \in 1..Len(r) : r[i] = q[i + 1]
    BY HeadTailProperties
  <2> HIDE DEF r
  <2>3. r # <<>> <=> Len(r) > 0
    BY <2>1, <2>2, EmptySeq
  <2> QED
    BY <2>1, <2>2, <2>3
<1> HIDE DEF r
<1> DEFINE later == SuccessionsAt(q, p) \ {1}
<1>2. /\ IsFiniteSet(SuccessionsAt(q, p)) /\ Successions(q, p) \in Nat
      /\ IsFiniteSet(SuccessionsAt(r, p)) /\ Successions(r, p) \in Nat
  BY <1>1, SuccessionsFinite
<1>3. /\ IsFiniteSet(later)
      /\ Cardinality(later) = IF 1 \in SuccessionsAt(q, p) THEN Successions(q, p) - 1 ELSE Successions(q, p)
  BY <1>2, FS_RemoveElement DEF Successions
<1>4. 1 \in SuccessionsAt(q, p) <=> r # <<>> /\ <<q[1], r[1]>> = p
  BY <1>1 DEF SuccessionsAt
<1>5. ExistsBijection(later, SuccessionsAt(r, p))
  <2> DEFINE back == [i \in later |-> i - 1]
  <2>1. later = {i \in 2..Len(q) - 1 : <<q[i], q[i + 1]>> = p}
    BY <1>1 DEF SuccessionsAt
  <2>2. \A i \in later : i - 1 \in SuccessionsAt(r, p)
    <3> TAKE i \in later
    <3>1. i \in 2..Len(q) - 1 /\ <<q[i], q[i + 1]>> = p
      BY <2>1
    <3>2. i - 1 \in 1..Len(r) - 1 /\ r[i - 1] = q[i] /\ r[i - 1 + 1] = q[i + 1]
      BY <1>1, <3>1
    <3> QED
      BY <3>1, <3>2 DEF SuccessionsAt
  <2>3. \A j \in SuccessionsAt(r, p) : j + 1 \in later /\ back[j + 1] = j
    <3> TAKE j \in SuccessionsAt(r, p)
    <3>1. j \in 1..Len(r) - 1 /\ <<r[j], r[j + 1]>> = p
      BY DEF SuccessionsAt
    <3>2. j + 1 \in 2..Len(q) - 1 /\ q[j + 1] = r[j] /\ q[j + 1 + 1] = r[j + 1]
      BY <1>1, <3>1
    <3>3. j + 1 \in later
      BY <2>1, <3>1, <3>2
    <3> QED
      BY <3>1, <3>3
  <2>4. back \in [later -> SuccessionsAt(r, p)]
    BY <2>2
  <2>5. \A i, j \in later : back[i] = back[j] => i = j
    BY <2>1
  <2> HIDE DEF later, back
  <2>6. back \in Injection(later, SuccessionsAt(r, p))
    BY <2>4, <2>5 DEF Injection, IsInjective
  <2>7. back \in Surjection(later, SuccessionsAt(r, p))
    BY <2>3, <2>4 DEF Surjection
  <2> QED
    BY <2>6, <2>7 DEF ExistsBijection, Bijection
<1>6. Cardinality(SuccessionsAt(r, p)) = Cardinality(later)
  BY <1>3, <1>5, FS_Bijection
<1> QED
  BY <1>2, <1>3, <1>4, <1>6 DEF Successions, r

\* The kinds of numbers the invariant adds up.
LEMMA CountTypes ==
    ASSUME PrefetchShape, NEW p \in Pairs
    PROVE  /\ counts[p] \in Nat /\ saved[p] \in Nat /\ followed[p] \in Nat /\ gaps \in Nat
           /\ NextCounts(p) \in {0, 1}
           /\ Listening => Waiting \in Seq(Files) /\ Successions(Waiting, p) \in Nat
<1>1. Listening => Waiting \in Seq(Files)
  BY DEF Listening, Waiting, PrefetchShape
<1> QED
  BY <1>1, SuccessionsFinite DEF PrefetchShape, NextCounts

\* What one more succession counts for a pair.
LEMMA MoreOf ==
    ASSUME NEW count \in [Pairs -> Nat], NEW before, NEW f, NEW p \in Pairs
    PROVE  More(count, before, f)[p] = count[p] + IF p \in before \X {f} THEN 1 ELSE 0
BY DEF More

\* Counts stay numbers.
LEMMA MoreType ==
    ASSUME NEW count \in [Pairs -> Nat], NEW before, NEW f
    PROVE  More(count, before, f) \in [Pairs -> Nat]
BY DEF More

\* No succession waits where nothing does.
LEMMA NothingSucceeds ==
    ASSUME NEW p
    PROVE  Successions(<<>>, p) = 0
<1>1. SuccessionsAt(<<>>, p) = {}
  BY DEF SuccessionsAt
<1> QED
  BY <1>1, FS_EmptySet DEF Successions

\* A step that leaves queue and counts alone.
LEMMA OthersKeepCounts ==
    ASSUME CountsInv, UNCHANGED <<bus, patterns, history>>
    PROVE  CountsInv'
BY DEF CountsInv, PrefetchShape, Connected, Earned, Listening, Waiting, NextCounts,
       bus, patterns, history

\* An engine that hears of nothing has its counts, and what it kept of them.
LEMMA DeafKeepsCounts ==
    ASSUME CountsInv, ~Listening', DOMAIN inbox' \subseteq {Engine},
           Engine \in DOMAIN inbox' => inbox'[Engine] \in Seq(Files),
           counts' \in {counts, saved}, saved' = saved, history' = history
    PROVE  CountsInv'
<1>1. \A p \in Pairs : saved[p] <= counts[p] /\ counts[p] <= followed[p] + gaps
  BY DEF CountsInv, Earned
<1>2. PrefetchShape'
  BY DEF CountsInv, PrefetchShape, history
<1>3. \A p \in Pairs : Earned(p)'
  BY <1>1, CountTypes DEF CountsInv, Earned, history
<1> QED
  BY <1>2, <1>3 DEF CountsInv, Connected

\* The loop ends and hears of nothing more.
LEMMA EndingKeepsCounts ==
    ASSUME CountsInv, Unsubscribe(Engine), UNCHANGED <<patterns, history>>
    PROVE  CountsInv'
<1>1. DOMAIN inbox' = DOMAIN inbox \ {Engine}
  BY DEF Unsubscribe, Remove
<1> QED
  BY <1>1, DeafKeepsCounts DEF Listening, patterns, CountsInv, PrefetchShape

\* The loop subscribes: the plays it has not heard of are a gap.
LEMMA SubscribeKeepsCounts ==
    ASSUME CountsInv, Subscribe
    PROVE  CountsInv'
<1>1. /\ inbox' = Insert(inbox, Engine, <<>>)
      /\ UNCHANGED <<latest, counts, saved, plays, followed>>
      /\ gaps' = IF latest = {} THEN gaps ELSE gaps + 1
  BY DEF Subscribe, Gap, patterns
<1>2. Waiting' = <<>> /\ DOMAIN inbox' = DOMAIN inbox \cup {Engine} /\ <<>> \in Seq(Files)
  BY <1>1, EmptySeq DEF Waiting, Insert
<1>3. PrefetchShape'
  <2>1. inbox'[Engine] = <<>> /\ Engine \in DOMAIN inbox'
    BY <1>1 DEF Insert
  <2>2. gaps' \in Nat
    BY <1>1 DEF CountsInv, PrefetchShape
  <2> QED
    BY <1>1, <1>2, <2>1, <2>2 DEF CountsInv, PrefetchShape
<1>4. ASSUME NEW p \in Pairs
      PROVE  Earned(p)'
  <2>1. Successions(<<>>, p) = 0 /\ (NextCounts(p))' = 0
    BY <1>2, NothingSucceeds DEF NextCounts
  <2>2. saved[p] <= counts[p] /\ counts[p] <= followed[p] + gaps
    BY DEF CountsInv, Earned
  <2>3. counts[p] \in Nat /\ saved[p] \in Nat /\ followed[p] \in Nat /\ gaps \in Nat
    BY CountTypes DEF CountsInv
  <2> QED
    BY <1>1, <1>2, <2>1, <2>2, <2>3 DEF Earned
<1>5. Connected'
  <2>1. CASE latest = {}
    BY <1>1, <1>2, <2>1 DEF Connected
  <2>2. CASE latest # {}
    <3>1. \A p \in Pairs : counts'[p] + 1 <= followed'[p] + gaps'
      BY <1>1, <2>2, CountTypes DEF CountsInv, Earned
    <3> QED
      BY <1>2, <3>1 DEF Connected
  <2> QED
    BY <2>1, <2>2
<1> QED
  BY <1>3, <1>4, <1>5 DEF CountsInv

\* What publish does to the engine that listens on, and that it listened.
LEMMA HearsOfPlay ==
    ASSUME CountsInv, NEW f \in Files, publish(f), Listening'
    PROVE  Listening /\ Waiting \in Seq(Files) /\ Waiting' = Append(Waiting, f)
<1>1. DOMAIN inbox' = DOMAIN inbox /\ lagged' = lagged \cup {r \in DOMAIN inbox : Overflows(r)}
  BY DEF publish
<1>2. Engine \in DOMAIN inbox /\ Engine \notin lagged /\ ~Overflows(Engine)
  BY <1>1 DEF Listening
<1>3. Waiting' = Append(Waiting, f)
  BY <1>2 DEF publish, Waiting
<1> QED
  BY <1>2, <1>3 DEF Listening, CountsInv, PrefetchShape, Waiting

\* A play: what it succeeds is counted now by the listener, and by the engine
\* when it gets there.
LEMMA PlayKeepsCounts ==
    ASSUME CountsInv, NEW f \in Files, Play(f)
    PROVE  CountsInv'
<1> USE DEF CountsInv
<1>1. /\ publish(f) /\ UNCHANGED <<latest, counts, saved, gaps>>
      /\ followed' = More(followed, plays.last, f)
      /\ plays'.last = {f} /\ DOMAIN plays' = {"last", "number"}
  BY DEF Play, patterns
<1>2. followed \in [Pairs -> Nat]
  BY DEF PrefetchShape
<1>3. PrefetchShape'
  <2>1. DOMAIN inbox' = DOMAIN inbox
    BY <1>1 DEF publish
  <2>2. ASSUME Engine \in DOMAIN inbox
        PROVE  inbox'[Engine] \in Seq(Files)
    <3> DEFINE q == inbox[Engine]
    <3>1. q \in Seq(Files)
      BY <2>2 DEF PrefetchShape
    <3>2. Overflows(Engine) => q # <<>>
      BY <3>1, EmptySeq, EventBusAssumption DEF Overflows
    <3>3. Overflows(Engine) => Tail(q) \in Seq(Files)
      BY <3>1, <3>2, HeadTailProperties
    <3>4. inbox'[Engine] = Append(IF Overflows(Engine) THEN Tail(q) ELSE q, f)
      BY <1>1, <2>2 DEF publish
    <3> QED
      BY <3>1, <3>3, <3>4, AppendProperties
  <2>3. followed' \in [Pairs -> Nat]
    BY <1>1, <1>2, MoreType
  <2> QED
    BY <1>1, <2>1, <2>2, <2>3 DEF PrefetchShape
<1>4. ASSUME NEW p \in Pairs
      PROVE  Earned(p)'
  <2>1. counts[p] \in Nat /\ saved[p] \in Nat /\ followed[p] \in Nat /\ gaps \in Nat
    BY CountTypes
  <2>2. saved[p] <= counts[p] /\ counts[p] <= followed[p] + gaps
    BY DEF Earned
  <2>3. followed'[p] = followed[p] + IF p \in plays.last \X {f} THEN 1 ELSE 0
    BY <1>1, <1>2, MoreOf
  <2>4. ASSUME Listening'
        PROVE  counts[p] + Successions(Waiting', p) + (NextCounts(p))' <= followed'[p] + gaps
    <3> DEFINE q == Waiting
    <3>1. Listening /\ q \in Seq(Files) /\ Waiting' = Append(q, f)
      BY <1>1, <2>4, HearsOfPlay
    <3>2. Successions(Waiting', p) = Successions(q, p) + IF q # <<>> /\ <<q[Len(q)], f>> = p THEN 1 ELSE 0
      BY <3>1, AppendSuccessions
    <3>3. counts[p] + Successions(q, p) + NextCounts(p) <= followed[p] + gaps
      BY <3>1 DEF Earned
    <3>4. Successions(q, p) \in Nat /\ NextCounts(p) \in {0, 1}
      BY <3>1, CountTypes
    <3>5. CASE q = <<>>
      <4>1. Waiting'[1] = f /\ Waiting' # <<>>
        BY <3>1, <3>5, AppendProperties
      <4>2. (NextCounts(p))' = IF p \in latest \X {f} THEN 1 ELSE 0
        BY <1>1, <4>1 DEF NextCounts
      <4>3. latest \subseteq plays.last \/ counts[p] + 1 <= followed[p] + gaps
        BY <3>1, <3>5 DEF Connected
      <4>4. Successions(q, p) = 0
        BY <3>5, NothingSucceeds
      <4>5. latest \subseteq plays.last => (p \in latest \X {f} => p \in plays.last \X {f})
        OBVIOUS
      <4> HIDE DEF q
      <4> QED
        BY <2>1, <2>2, <2>3, <3>2, <3>5, <4>2, <4>3, <4>4, <4>5
    <3>6. CASE q # <<>>
      <4>0. Len(q) \in Nat \ {0}
        BY <3>1, <3>6, EmptySeq
      <4>1. Waiting'[1] = q[1] /\ Waiting' # <<>>
        BY <3>1, <4>0, AppendProperties
      <4>2. (NextCounts(p))' = NextCounts(p)
        BY <1>1, <3>6, <4>1 DEF NextCounts
      <4>3. plays.last = {q[Len(q)]}
        BY <3>1, <3>6 DEF Connected
      <4>4. <<q[Len(q)], f>> = p => p \in plays.last \X {f}
        BY <4>3
      <4> HIDE DEF q
      <4> QED
        BY <2>1, <2>3, <3>2, <3>3, <3>4, <4>2, <4>4
    <3> QED
      BY <3>5, <3>6
  <2> QED
    BY <1>1, <2>1, <2>2, <2>3, <2>4 DEF Earned
<1>5. Connected'
  <2> SUFFICES ASSUME Listening' PROVE Waiting' # <<>> /\ Waiting'[Len(Waiting')] = f
    BY <1>1 DEF Connected
  <2>1. Waiting \in Seq(Files) /\ Waiting' = Append(Waiting, f)
    BY <1>1, HearsOfPlay
  <2> QED
    BY <2>1, AppendProperties
<1> QED
  BY <1>3, <1>4, <1>5

\* The engine hears of the event that waited longest.
LEMMA HearsTheFirst ==
    ASSUME CountsInv, NEW f \in Files, Hear(f)
    PROVE  /\ Listening /\ Listening' /\ Waiting \in Seq(Files) /\ Waiting # <<>> /\ f = Waiting[1]
           /\ Waiting' = Tail(Waiting) /\ Waiting' \in Seq(Files)
           /\ DOMAIN inbox' = DOMAIN inbox /\ inbox'[Engine] = Waiting'
<1>1. /\ Engine \in DOMAIN inbox \ lagged /\ inbox[Engine] # <<>> /\ lagged' = lagged
      /\ inbox' = [inbox EXCEPT ![Engine] = Tail(inbox[Engine])]
      /\ f = Head(inbox[Engine])
  BY DEF Hear, Hears
<1>2. inbox[Engine] \in Seq(Files)
  BY <1>1 DEF CountsInv, PrefetchShape
<1>3. Tail(inbox[Engine]) \in Seq(Files)
  BY <1>1, <1>2, HeadTailProperties
<1> QED
  BY <1>1, <1>2, <1>3 DEF Listening, Waiting

\* What waits last is what was played last, until nothing waits.
LEMMA LastStaysLast ==
    ASSUME CountsInv, NEW f \in Files, Hear(f), UNCHANGED plays,
           Waiting' = <<>> => \/ latest' \subseteq plays.last
                              \/ \A p \in Pairs : counts'[p] + 1 <= followed'[p] + gaps'
    PROVE  Connected'
<1>1. /\ Listening /\ Waiting \in Seq(Files) /\ Waiting # <<>>
      /\ Waiting' = Tail(Waiting) /\ Waiting' \in Seq(Files)
  BY HearsTheFirst
<1>2. plays.last = {Waiting[Len(Waiting)]}
  BY <1>1 DEF CountsInv, Connected
<1>3. CASE Waiting' # <<>>
  <2> DEFINE q == Waiting
             r == Waiting'
  <2>1. Len(r) \in Nat \ {0} /\ Len(r) = Len(q) - 1 /\ \A i \in 1..Len(r) : r[i] = q[i + 1]
    BY <1>1, <1>3, HeadTailProperties, EmptySeq
  <2>2. Len(q) \in Nat /\ r[Len(r)] = q[Len(r) + 1] /\ Len(r) + 1 = Len(q)
    BY <1>1, <2>1, LenProperties
  <2>3. r[Len(r)] = q[Len(q)]
    BY <2>2
  <2> QED
    BY <1>2, <1>3, <2>3 DEF Connected
<1>4. CASE Waiting' = <<>>
  BY <1>4 DEF Connected
<1> QED
  BY <1>3, <1>4

\* An event that is logged: it counts for what it succeeds, and waits no more.
LEMMA LoggedKeepsCounts ==
    ASSUME CountsInv, NEW f \in Files, Hear(f), Logged(f),
           saved' \in {saved, More(saved, latest, f)}, UNCHANGED history
    PROVE  CountsInv'
<1> USE DEF CountsInv
<1>1. /\ Listening /\ Listening' /\ Waiting \in Seq(Files) /\ Waiting # <<>> /\ f = Waiting[1]
      /\ Waiting' = Tail(Waiting) /\ Waiting' \in Seq(Files)
      /\ DOMAIN inbox' = DOMAIN inbox /\ inbox'[Engine] = Waiting'
  BY HearsTheFirst
<1>2. latest' = {f} /\ counts' = More(counts, latest, f) /\ UNCHANGED <<plays, followed, gaps>>
  BY DEF Logged, Before, history
<1>3. counts \in [Pairs -> Nat] /\ saved \in [Pairs -> Nat]
  BY DEF PrefetchShape
<1>4. counts' \in [Pairs -> Nat] /\ saved' \in [Pairs -> Nat]
  BY <1>2, <1>3, MoreType
<1>5. PrefetchShape'
  BY <1>1, <1>2, <1>4 DEF PrefetchShape
<1>6. ASSUME NEW p \in Pairs
      PROVE  Earned(p)'
  <2> DEFINE q == Waiting
             r == Tail(Waiting)
             counted == IF p \in latest \X {f} THEN 1 ELSE 0
             next == IF r # <<>> /\ <<q[1], r[1]>> = p THEN 1 ELSE 0
  <2>1. counts'[p] = counts[p] + counted
    BY <1>2, <1>3, MoreOf
  <2>2. saved'[p] = saved[p] \/ saved'[p] = saved[p] + counted
    BY <1>3, MoreOf
  <2>3. counted = NextCounts(p)
    BY <1>1 DEF NextCounts
  <2>4. Successions(q, p) = Successions(r, p) + next
    BY <1>1, TailSuccessions
  <2>5. (NextCounts(p))' = next
    <3>1. latest' = {q[1]}
      BY <1>1, <1>2
    <3>2. \A x, y : p \in {x} \X {y} <=> <<x, y>> = p
      OBVIOUS
    <3>3. p \in latest' \X {r[1]} <=> <<q[1], r[1]>> = p
      BY <3>1, <3>2
    <3> QED
      BY <1>1, <3>3 DEF NextCounts
  <2>6. counts[p] + Successions(q, p) + NextCounts(p) <= followed[p] + gaps
    BY <1>1 DEF Earned
  <2>7. counts[p] \in Nat /\ saved[p] \in Nat /\ followed[p] \in Nat /\ gaps \in Nat
    BY CountTypes
  <2>8. saved[p] <= counts[p]
    BY DEF Earned
  <2>9. Successions(r, p) \in Nat /\ counted \in {0, 1} /\ next \in {0, 1}
    BY <1>1, SuccessionsFinite
  <2> HIDE DEF q, r, counted, next
  <2>10. counts'[p] + Successions(r, p) + next <= followed[p] + gaps
    BY <2>1, <2>3, <2>4, <2>6, <2>7, <2>9
  <2>11. saved'[p] <= counts'[p] /\ counts'[p] <= followed[p] + gaps
    BY <2>1, <2>2, <2>7, <2>8, <2>9, <2>10
  <2> QED
    BY <1>1, <1>2, <2>5, <2>10, <2>11 DEF Earned, r
<1>7. Connected'
  <2>1. ASSUME Waiting' = <<>> PROVE latest' \subseteq plays.last
    <3>1. Len(Waiting) = 1
      <4>1. Len(Waiting') = Len(Waiting) - 1 /\ Len(Waiting) \in Nat /\ Len(Waiting') = 0
        BY <1>1, <2>1, HeadTailProperties, LenProperties
      <4> QED
        BY <4>1
    <3> QED
      BY <1>1, <1>2, <3>1 DEF Connected
  <2> QED
    BY <1>2, <2>1, LastStaysLast
<1> QED
  BY <1>5, <1>6, <1>7

\* An event whose record fails at its first statement is a gap.
LEMMA LostRecordKeepsCounts ==
    ASSUME CountsInv, NEW f \in Files, Hear(f), UNCHANGED <<patterns, plays, followed>>,
           gaps' = gaps + 1
    PROVE  CountsInv'
<1> USE DEF CountsInv
<1>1. /\ Listening /\ Listening' /\ Waiting \in Seq(Files) /\ Waiting # <<>>
      /\ Waiting' = Tail(Waiting) /\ Waiting' \in Seq(Files)
      /\ DOMAIN inbox' = DOMAIN inbox /\ inbox'[Engine] = Waiting'
  BY HearsTheFirst
<1>2. UNCHANGED <<latest, counts, saved, plays, followed>>
  BY DEF patterns
<1>3. PrefetchShape'
  BY <1>1, <1>2 DEF PrefetchShape
<1>4. ASSUME NEW p \in Pairs
      PROVE  Earned(p)' /\ counts[p] + 1 <= followed[p] + gaps'
  <2> DEFINE q == Waiting
             r == Tail(Waiting)
  <2>1. Successions(r, p) <= Successions(q, p) /\ Successions(r, p) \in Nat /\ Successions(q, p) \in Nat
    <3>1. Successions(r, p) \in Nat /\ Successions(q, p) \in Nat
      BY <1>1, SuccessionsFinite
    <3>2. Successions(q, p) = Successions(r, p) + IF r # <<>> /\ <<q[1], r[1]>> = p THEN 1 ELSE 0
      BY <1>1, TailSuccessions
    <3> QED
      BY <3>1, <3>2
  <2>2. (NextCounts(p))' \in {0, 1} /\ NextCounts(p) \in {0, 1}
    BY DEF NextCounts
  <2>3. counts[p] + Successions(q, p) + NextCounts(p) <= followed[p] + gaps
    BY <1>1 DEF Earned
  <2>4. counts[p] \in Nat /\ saved[p] \in Nat /\ followed[p] \in Nat /\ gaps \in Nat
    BY CountTypes
  <2>5. saved[p] <= counts[p] /\ counts[p] <= followed[p] + gaps
    BY DEF Earned
  <2> HIDE DEF q, r
  <2>6. counts[p] + Successions(r, p) + (NextCounts(p))' <= followed[p] + gaps'
    BY <2>1, <2>2, <2>3, <2>4
  <2>7. counts[p] + 1 <= followed[p] + gaps'
    BY <2>4, <2>5
  <2> QED
    BY <1>1, <1>2, <2>4, <2>5, <2>6, <2>7 DEF Earned, r
<1>5. Connected'
  BY <1>2, <1>4, LastStaysLast
<1> QED
  BY <1>3, <1>4, <1>5

\* The daemon comes back with the counts the database kept.
LEMMA RestartKeepsCounts ==
    ASSUME CountsInv, Restart
    PROVE  CountsInv'
<1>1. DOMAIN inbox' = {}
  BY DEF Restart, EmptyMap
<1> QED
  BY <1>1, DeafKeepsCounts DEF Restart, Listening

\* Every step of players, engine, fetches and daemon keeps the invariant.
LEMMA CountsStep ==
    ASSUME CountsInv, [PrefetchNext]_prefetchVars
    PROVE  CountsInv'
<1>1. ASSUME NEW f \in Files, Play(f) PROVE CountsInv'
  BY <1>1, PlayKeepsCounts
<1>2. ASSUME NEW f \in Files, FetchEnds(f) PROVE CountsInv'
  BY <1>2, OthersKeepCounts DEF FetchEnds
<1>3. CASE start \/ stop \/ DropPermit \/ UNCHANGED prefetchVars
  BY <1>3, OthersKeepCounts DEF start, stop, DropPermit, prefetchVars
<1>4. CASE Subscribe
  BY <1>4, SubscribeKeepsCounts
<1>5. CASE CheckRunning \/ LagEnds
  BY <1>5, OthersKeepCounts, EndingKeepsCounts DEF CheckRunning, LagEnds, EndLoop
<1>6. CASE RecvTimeout \/ PrefetchFile \/ AcquirePermit \/ AllAsked
  BY <1>6, OthersKeepCounts DEF RecvTimeout, PrefetchFile, AcquirePermit, AllAsked
<1>7. ASSUME NEW f \in Files, Record(f) PROVE CountsInv'
  BY <1>7, LoggedKeepsCounts DEF Record, Before
<1>8. ASSUME NEW f \in Files, RecordFails(f) PROVE CountsInv'
  <2>1. CASE UNCHANGED patterns /\ Gap
    BY <1>8, <2>1, LostRecordKeepsCounts DEF RecordFails, Gap
  <2>2. CASE Logged(f) /\ saved' \in {saved, More(saved, Before(f), f)} /\ UNCHANGED gaps
    BY <1>8, <2>2, LoggedKeepsCounts DEF RecordFails, Before, history
  <2> QED
    BY <1>8, <2>1, <2>2 DEF RecordFails
<1>9. CASE Restart
  BY <1>9, RestartKeepsCounts
<1> QED
  BY <1>1, <1>2, <1>3, <1>4, <1>5, <1>6, <1>7, <1>8, <1>9 DEF PrefetchNext, LoopStep

\* PatternStore::record (patterns.rs) never credits a succession that was not
\* played, but for one each time the engine missed plays, and what the
\* database has of a count is no more than what memory has: however often
\* record fails, the engine lags, is stopped, or the daemon dies.
THEOREM CountsStayEarned == PrefetchSpec => []CountsAreEarned
<1>1. PrefetchInit => CountsInv
  <2> SUFFICES ASSUME PrefetchInit PROVE CountsInv
    OBVIOUS
  <2>1. DOMAIN inbox = {} /\ counts = [p \in Pairs |-> 0]
    BY DEF PrefetchInit, EmptyMap
  <2> QED
    BY <2>1 DEF PrefetchInit, CountsInv, PrefetchShape, Connected, Earned, Listening
<1>2. CountsInv /\ [PrefetchNext]_prefetchVars => CountsInv'
  BY CountsStep
<1>3. CountsInv => CountsAreEarned
  BY DEF CountsInv, Earned, CountsAreEarned
<1> QED
  BY <1>1, <1>2, <1>3, PTL DEF PrefetchSpec

----------------------------------------------------------------------------
(* The task supervisor.                                                    *)

Places == {"start", "runs", "returned", "panicked", "backoff", "alone", "leaves", "finished"}
Calls == [caller : {"inserts", "done", "late"}, name : Names, at : Places, restarts : Nat]
Statuses == {"Running", "Stopped", "Failed", "Restarting"}
Entries == [handle : Spawns, status : Statuses, restart_count : Nat]

\* An entry is that of a call which has entered it, under the name it was
\* called with.
SupervisorShape ==
    /\ spawn \in [Spawns -> Calls \cup {NotYet}]
    /\ \A n \in DOMAIN tasks :
         /\ tasks[n] \in Entries /\ spawn[tasks[n].handle] # NotYet
         /\ spawn[tasks[n].handle].caller # "inserts" /\ spawn[tasks[n].handle].name = n
    /\ told # Nothing =>
         told.of \in Spawns /\ spawn[told.of] # NotYet /\ spawn[told.of].caller # "inserts"

\* What the table says of a task that is alone with its name and was entered
\* in time: what is so, until the handle is all that is left to tell.
Word(at) == IF at = "finished" THEN Statuses ELSE Honest(at)
LastWord(n) ==
    LET h == tasks[n].handle
    IN  Alone(h) /\ InTime(h) => tasks[n].status \in Word(spawn[h].at)

SupervisorInv ==
    /\ SupervisorShape
    /\ StatusIsTrue
    /\ \A n \in DOMAIN tasks : LastWord(n)

\* No call takes its name back, or its entry.
CallsGoOn ==
    \A s \in Spawns : spawn[s] # NotYet =>
      /\ spawn'[s] # NotYet /\ spawn'[s].name = spawn[s].name
      /\ spawn[s].caller # "inserts" => spawn'[s].caller = spawn[s].caller

\* The steps of the task of call s and of its monitor.
TaskStep(s) ==
    \/ MonitorStarts(s) \/ TaskStops(s) \/ SeesReturn(s) \/ SeesPanic(s) \/ BackoffEnds(s)
    \/ TaskEnds(s)

\* A call is a record of a call, or has not been made.
LEMMA CallType ==
    ASSUME SupervisorShape, NEW s \in Spawns
    PROVE  /\ spawn[s] = NotYet \/ spawn[s] \in Calls
           /\ spawn[s] \in Calls => spawn[s] # NotYet
           /\ DOMAIN spawn = Spawns
BY DEF SupervisorShape, Calls, NotYet

\* Moving a call to another place leaves the rest of it alone.
LEMMA MovesACall ==
    ASSUME SupervisorShape, NEW s \in Spawns, spawn[s] \in Calls,
           NEW at \in Places, Moves(s, at)
    PROVE  /\ spawn' \in [Spawns -> Calls \cup {NotYet}]
           /\ spawn'[s] \in Calls /\ spawn'[s].at = at
           /\ spawn'[s].name = spawn[s].name /\ spawn'[s].caller = spawn[s].caller
           /\ \A other \in Spawns \ {s} : spawn'[other] = spawn[other]
<1>1. spawn' = [spawn EXCEPT ![s] = [spawn[s] EXCEPT !.at = at]]
  BY CallType DEF Moves
<1> DEFINE moved == [spawn[s] EXCEPT !.at = at]
<1>2. moved \in Calls /\ moved.at = at /\ moved.name = spawn[s].name /\ moved.caller = spawn[s].caller
  BY DEF Calls
<1>3. spawn' = [spawn EXCEPT ![s] = moved]
  BY <1>1
<1> HIDE DEF moved
<1>4. spawn \in [Spawns -> Calls \cup {NotYet}]
  BY DEF SupervisorShape
<1>5. spawn'[s] = moved /\ \A other \in Spawns \ {s} : spawn'[other] = spawn[other]
  BY <1>3, <1>4
<1>6. spawn' \in [Spawns -> Calls \cup {NotYet}]
  BY <1>2, <1>3, <1>4
<1> QED
  BY <1>2, <1>5, <1>6

\* What a step of its task does to the call s.
LEMMA StepsOfATask ==
    ASSUME SupervisorShape, NEW s \in Spawns, TaskStep(s)
    PROVE  /\ spawn' \in [Spawns -> Calls \cup {NotYet}]
           /\ spawn[s] \in Calls /\ spawn'[s] \in Calls
           /\ spawn'[s].name = spawn[s].name /\ spawn'[s].caller = spawn[s].caller
           /\ \A other \in Spawns \ {s} : spawn'[other] = spawn[other]
           /\ told' = told
<1>0. spawn[s] \in Calls
  BY CallType DEF TaskStep, MonitorStarts, TaskStops, SeesReturn, SeesPanic, BackoffEnds, TaskEnds, NotYet
<1>1. ASSUME NEW at \in Places, Moves(s, at), told' = told
      PROVE  /\ spawn' \in [Spawns -> Calls \cup {NotYet}]
             /\ spawn[s] \in Calls /\ spawn'[s] \in Calls
             /\ spawn'[s].name = spawn[s].name /\ spawn'[s].caller = spawn[s].caller
             /\ \A other \in Spawns \ {s} : spawn'[other] = spawn[other]
             /\ told' = told
  BY <1>0, <1>1, MovesACall
<1>2. CASE MonitorStarts(s) \/ TaskStops(s) \/ SeesReturn(s) \/ BackoffEnds(s) \/ TaskEnds(s)
  BY <1>1, <1>2 DEF MonitorStarts, TaskStops, SeesReturn, BackoffEnds, TaskEnds, Places
<1>3. CASE SeesPanic(s) /\ GivesUp(s)
  BY <1>1, <1>3 DEF SeesPanic, Places
<1>4. CASE SeesPanic(s) /\ ~GivesUp(s)
  <2> DEFINE moved == [spawn[s] EXCEPT !.at = "backoff", !.restarts = spawn[s].restarts + 1]
  <2>1. spawn' = [spawn EXCEPT ![s] = moved] /\ told' = told
    BY <1>4, CallType DEF SeesPanic
  <2>2. moved \in Calls /\ moved.name = spawn[s].name /\ moved.caller = spawn[s].caller
    <3>1. spawn[s].restarts + 1 \in Nat
      BY <1>0 DEF Calls
    <3> QED
      BY <1>0, <3>1 DEF Calls, Places
  <2> HIDE DEF moved
  <2> QED
    BY <1>0, <2>1, <2>2 DEF SupervisorShape
<1> QED
  BY <1>2, <1>3, <1>4 DEF TaskStep

\* What entering it does to the call s.
LEMMA EnteringACall ==
    ASSUME SupervisorShape, NEW s \in Spawns, InsertEntry(s)
    PROVE  /\ spawn' \in [Spawns -> Calls \cup {NotYet}]
           /\ spawn[s] \in Calls /\ spawn'[s] \in Calls /\ spawn[s].caller = "inserts"
           /\ spawn'[s].name = spawn[s].name /\ spawn'[s].at = spawn[s].at
           /\ spawn'[s].caller = IF Spoken(s) THEN "late" ELSE "done"
           /\ \A other \in Spawns \ {s} : spawn'[other] = spawn[other]
           /\ told' = told
<1>1. spawn[s] \in Calls
  BY CallType DEF InsertEntry, NotYet
<1>2. PICK caller \in {"late", "done"} : caller = IF Spoken(s) THEN "late" ELSE "done"
  OBVIOUS
<1> DEFINE moved == [spawn[s] EXCEPT !.caller = caller]
<1>3. spawn' = [spawn EXCEPT ![s] = moved] /\ told' = told
  BY <1>2, CallType DEF InsertEntry
<1>4. /\ moved \in Calls /\ moved.at = spawn[s].at /\ moved.name = spawn[s].name
      /\ moved.caller = caller
  BY <1>1 DEF Calls
<1> HIDE DEF moved
<1>5. spawn \in [Spawns -> Calls \cup {NotYet}]
  BY DEF SupervisorShape
<1>6. spawn'[s] = moved /\ \A other \in Spawns \ {s} : spawn'[other] = spawn[other]
  BY <1>3, <1>5
<1>7. spawn' \in [Spawns -> Calls \cup {NotYet}]
  BY <1>3, <1>4, <1>5
<1> QED
  BY <1>1, <1>2, <1>3, <1>4, <1>6, <1>7 DEF InsertEntry

\* Every step lets the calls go on.
LEMMA CallsDoGoOn ==
    ASSUME SupervisorShape, [SupervisorNext]_supervisorVars
    PROVE  CallsGoOn /\ spawn' \in [Spawns -> Calls \cup {NotYet}]
<1>1. ASSUME NEW s \in Spawns, NEW name \in Names, NEW first \in {"start", "alone"},
             SpawnTask(s, name, first)
      PROVE  CallsGoOn /\ spawn' \in [Spawns -> Calls \cup {NotYet}]
  <2> DEFINE moved == [caller |-> "inserts", name |-> name, at |-> first, restarts |-> 0]
  <2>1. moved \in Calls
    BY DEF Calls, Places
  <2>2. spawn' = [spawn EXCEPT ![s] = moved] /\ spawn[s] = NotYet
    BY <1>1 DEF SpawnTask
  <2> HIDE DEF moved
  <2> QED
    BY <2>1, <2>2 DEF SupervisorShape, CallsGoOn
<1>2. ASSUME NEW s \in Spawns, TaskStep(s) \/ InsertEntry(s)
      PROVE  CallsGoOn /\ spawn' \in [Spawns -> Calls \cup {NotYet}]
  <2>1. /\ spawn' \in [Spawns -> Calls \cup {NotYet}] /\ spawn'[s] \in Calls
        /\ spawn'[s].name = spawn[s].name
        /\ spawn[s].caller # "inserts" => spawn'[s].caller = spawn[s].caller
        /\ \A other \in Spawns \ {s} : spawn'[other] = spawn[other]
    BY <1>2, StepsOfATask, EnteringACall
  <2>2. spawn'[s] # NotYet
    BY <2>1 DEF Calls, NotYet
  <2>3. ASSUME NEW other \in Spawns, spawn[other] # NotYet
        PROVE  /\ spawn'[other] # NotYet /\ spawn'[other].name = spawn[other].name
               /\ spawn[other].caller # "inserts" => spawn'[other].caller = spawn[other].caller
    <3>1. CASE other = s
      BY <2>1, <2>2, <3>1
    <3>2. CASE other # s
      BY <2>1, <2>3, <3>2
    <3> QED
      BY <3>1, <3>2
  <2> QED
    BY <2>1, <2>3 DEF CallsGoOn
<1>3. CASE UNCHANGED spawn
  BY <1>3 DEF CallsGoOn, SupervisorShape
<1> QED
  BY <1>1, <1>2, <1>3 DEF SupervisorNext, TaskStep, task_status, check_all, supervisorVars

\* Who is alone with its name was so before.
LEMMA WasAlone ==
    ASSUME CallsGoOn, NEW s \in Spawns, spawn[s] # NotYet, Alone(s)'
    PROVE  Alone(s)
<1> SUFFICES ASSUME NEW other \in Spawns \ {s}, spawn[other] # NotYet
             PROVE  spawn[other].name # spawn[s].name
  BY DEF Alone
<1>1. spawn'[other] # NotYet /\ spawn'[other].name = spawn[other].name
  BY DEF CallsGoOn
<1>2. spawn'[s].name = spawn[s].name
  BY DEF CallsGoOn
<1> QED
  BY <1>1, <1>2 DEF Alone

\* The handle of an entry is a call that was made and has entered it.
LEMMA HandleOfEntry ==
    ASSUME SupervisorShape, NEW n \in DOMAIN tasks
    PROVE  LET h == tasks[n].handle
           IN  h \in Spawns /\ spawn[h] \in Calls /\ spawn[h] # NotYet
               /\ spawn[h].caller # "inserts" /\ spawn[h].name = n
<1>1. tasks[n].handle \in Spawns
  BY DEF SupervisorShape, Entries
<1>2. spawn[tasks[n].handle].caller # "inserts" /\ spawn[tasks[n].handle].name = n
  BY DEF SupervisorShape
<1>3. spawn[tasks[n].handle] # NotYet
  BY DEF SupervisorShape
<1> QED
  BY <1>1, <1>2, <1>3, CallType

\* An entry that keeps its handle and its status, as its call stays where it
\* is, keeps its last word.
LEMMA KeepsItsWord ==
    ASSUME SupervisorInv, CallsGoOn, NEW n \in DOMAIN tasks,
           tasks'[n].handle = tasks[n].handle, tasks'[n].status = tasks[n].status,
           spawn'[tasks[n].handle] = spawn[tasks[n].handle]
    PROVE  LastWord(n)'
<1>1. PICK h \in Spawns : h = tasks[n].handle /\ spawn[h] # NotYet
  BY HandleOfEntry DEF SupervisorInv
<1>2. Alone(h) /\ InTime(h) => tasks[n].status \in Word(spawn[h].at)
  BY <1>1 DEF SupervisorInv, LastWord
<1>3. Alone(h)' => Alone(h)
  BY <1>1, WasAlone
<1>4. (Alone(tasks[n].handle))' => Alone(h)'
  BY <1>1 DEF Alone
<1>5. (InTime(tasks[n].handle))' => InTime(h)
  BY <1>1 DEF InTime
<1>6. (Word(spawn[tasks[n].handle].at))' = Word(spawn[h].at)
  BY <1>1 DEF Word, Honest
<1> QED
  BY <1>2, <1>3, <1>4, <1>5, <1>6 DEF LastWord

\* Entries of calls stay entries of theirs.
LEMMA KeepsShape ==
    ASSUME SupervisorInv, CallsGoOn, spawn' \in [Spawns -> Calls \cup {NotYet}],
           NEW n \in DOMAIN tasks, tasks'[n].handle = tasks[n].handle
    PROVE  /\ spawn'[tasks'[n].handle] # NotYet
           /\ spawn'[tasks'[n].handle].caller # "inserts" /\ spawn'[tasks'[n].handle].name = n
BY HandleOfEntry DEF SupervisorInv, CallsGoOn

\* SetStatus changes the status of one entry.
LEMMA SetStatusOf ==
    ASSUME SupervisorShape, NEW name, NEW status \in Statuses, tasks' = SetStatus(name, status)
    PROVE  /\ DOMAIN tasks' = DOMAIN tasks
           /\ \A n \in DOMAIN tasks :
                /\ tasks'[n] \in Entries /\ tasks'[n].handle = tasks[n].handle
                /\ tasks'[n].status = IF n = name THEN status ELSE tasks[n].status
<1>1. \A n \in DOMAIN tasks : tasks[n] \in Entries
  BY DEF SupervisorShape
<1>2. CASE name \notin DOMAIN tasks
  BY <1>1, <1>2 DEF SetStatus
<1>3. CASE name \in DOMAIN tasks
  <2> DEFINE entry == [tasks[name] EXCEPT !.status = status]
  <2>1. tasks' = [tasks EXCEPT ![name] = entry]
    BY <1>3 DEF SetStatus
  <2>2. entry \in Entries /\ entry.handle = tasks[name].handle /\ entry.status = status
    BY <1>1, <1>3 DEF Entries
  <2> HIDE DEF entry
  <2> QED
    BY <1>1, <1>3, <2>1, <2>2
<1> QED
  BY <1>2, <1>3

\* An answer that nobody corrects stays true of the state it was given in.
LEMMA AnswerStays ==
    ASSUME SupervisorInv, CallsGoOn, told' = told
    PROVE  /\ StatusIsTrue'
           /\ told' # Nothing => /\ told'.of \in Spawns /\ spawn'[told'.of] # NotYet
                                 /\ spawn'[told'.of].caller # "inserts"
<1>1. CASE told = Nothing
  BY <1>1 DEF StatusIsTrue
<1>2. CASE told # Nothing
  <2>1. PICK s \in Spawns : s = told.of /\ spawn[s] # NotYet /\ spawn[s].caller # "inserts"
    BY <1>2 DEF SupervisorInv, SupervisorShape
  <2>2. spawn'[s] # NotYet /\ spawn'[s].caller = spawn[s].caller
    BY <2>1 DEF CallsGoOn
  <2>3. (Alone(told.of))' => Alone(s)
    <3>1. (Alone(told.of))' => Alone(s)'
      BY <2>1 DEF Alone
    <3> QED
      BY <2>1, <3>1, WasAlone
  <2>4. (InTime(told.of))' => InTime(s)
    BY <2>1, <2>2 DEF InTime
  <2>5. Alone(s) /\ InTime(s) => told.status \in Honest(told.at)
    BY <1>2, <2>1 DEF SupervisorInv, StatusIsTrue
  <2>6. StatusIsTrue'
    BY <2>3, <2>4, <2>5 DEF StatusIsTrue
  <2> QED
    BY <2>1, <2>2, <2>6
<1> QED
  BY <1>1, <1>2

\* What it takes for a step that enters nothing and answers nothing.
LEMMA KeepsSupervisor ==
    ASSUME SupervisorInv, CallsGoOn, spawn' \in [Spawns -> Calls \cup {NotYet}], told' = told,
           DOMAIN tasks' = DOMAIN tasks,
           \A n \in DOMAIN tasks : tasks'[n] \in Entries /\ tasks'[n].handle = tasks[n].handle,
           \A n \in DOMAIN tasks : LastWord(n)'
    PROVE  SupervisorInv'
<1>1. \A n \in DOMAIN tasks :
        /\ spawn'[tasks'[n].handle] # NotYet
        /\ spawn'[tasks'[n].handle].caller # "inserts" /\ spawn'[tasks'[n].handle].name = n
  BY KeepsShape
<1>2. /\ StatusIsTrue'
      /\ told' # Nothing => /\ told'.of \in Spawns /\ spawn'[told'.of] # NotYet
                            /\ spawn'[told'.of].caller # "inserts"
  BY AnswerStays
<1>3. SupervisorShape'
  BY <1>1, <1>2 DEF SupervisorShape
<1>4. \A n \in DOMAIN tasks' : LastWord(n)'
  OBVIOUS
<1> QED
  BY <1>2, <1>3, <1>4 DEF SupervisorInv

\* What a step of the task of s does to the table: the status of the entry
\* with its name follows it.
LEMMA StepInTable ==
    ASSUME SupervisorInv, NEW s \in Spawns, TaskStep(s)
    PROVE  /\ DOMAIN tasks' = DOMAIN tasks
           /\ \A n \in DOMAIN tasks :
                /\ tasks'[n] \in Entries /\ tasks'[n].handle = tasks[n].handle
                /\ n # spawn[s].name => tasks'[n].status = tasks[n].status
                /\ n = spawn[s].name /\ tasks[n].status \in Word(spawn[s].at) =>
                     tasks'[n].status \in Word(spawn'[s].at)
<1>0. SupervisorShape /\ spawn[s] \in Calls /\ \A n \in DOMAIN tasks : tasks[n] \in Entries
  BY StepsOfATask DEF SupervisorInv, SupervisorShape
<1>1. \A at \in Places : Moves(s, at) => spawn'[s].at = at
  BY <1>0, MovesACall
<1>2. CASE MonitorStarts(s)
  <2>1. spawn'[s].at = "runs" /\ tasks' = SetStatus(spawn[s].name, "Running")
    BY <1>1, <1>2 DEF MonitorStarts, Places
  <2> QED
    BY <1>0, <2>1, SetStatusOf DEF Word, Honest, Statuses
<1>3. CASE SeesReturn(s)
  <2>1. spawn'[s].at = "leaves" /\ tasks' = SetStatus(spawn[s].name, "Stopped")
    BY <1>1, <1>3 DEF SeesReturn, Places
  <2> QED
    BY <1>0, <2>1, SetStatusOf DEF Word, Honest, Statuses
<1>4. CASE SeesPanic(s) /\ GivesUp(s)
  <2>1. spawn'[s].at = "leaves" /\ tasks' = SetStatus(spawn[s].name, "Failed")
    BY <1>1, <1>4 DEF SeesPanic, Places
  <2> QED
    BY <1>0, <2>1, SetStatusOf DEF Word, Honest, Statuses
<1>5. CASE SeesPanic(s) /\ ~GivesUp(s)
  <2>1. PICK name : name = spawn[s].name
    OBVIOUS
  <2>2. PICK count : count = spawn[s].restarts + 1
    OBVIOUS
  <2>3. count \in Nat
    BY <1>0, <2>2 DEF Calls
  <2>4. tasks' = IF name \in DOMAIN tasks
                 THEN [tasks EXCEPT ![name].status = "Restarting", ![name].restart_count = count]
                 ELSE tasks
    BY <1>5, <2>1, <2>2 DEF SeesPanic
  <2>5. spawn'[s].at = "backoff"
    <3>1. spawn' = [spawn EXCEPT ![s] = [spawn[s] EXCEPT !.at = "backoff", !.restarts = count]]
      BY <1>0, <1>5, <2>2, CallType DEF SeesPanic
    <3> DEFINE moved == [spawn[s] EXCEPT !.at = "backoff", !.restarts = count]
    <3>2. moved.at = "backoff"
      BY <1>0 DEF Calls
    <3> HIDE DEF moved
    <3> QED
      BY <1>0, <3>1, <3>2, CallType DEF moved
  <2>6. Word(spawn'[s].at) = {"Restarting"}
    BY <2>5 DEF Word, Honest
  <2>7. CASE name \notin DOMAIN tasks
    BY <1>0, <2>1, <2>4, <2>7
  <2>8. CASE name \in DOMAIN tasks
    <3> DEFINE entry == [tasks[name] EXCEPT !.status = "Restarting", !.restart_count = count]
    <3>1. tasks' = [tasks EXCEPT ![name] = entry]
      BY <2>4, <2>8
    <3>2. entry \in Entries /\ entry.handle = tasks[name].handle /\ entry.status = "Restarting"
      BY <1>0, <2>3, <2>8 DEF Entries, Statuses
    <3> HIDE DEF entry
    <3> QED
      BY <1>0, <2>1, <2>6, <2>8, <3>1, <3>2
  <2> QED
    BY <2>7, <2>8
<1>6. CASE TaskStops(s) \/ BackoffEnds(s)
  <2>1. /\ tasks' = tasks
        /\ \/ spawn[s].at = "runs" /\ spawn'[s].at \in {"returned", "panicked"}
           \/ spawn[s].at = "backoff" /\ spawn'[s].at = "start"
    BY <1>1, <1>6 DEF TaskStops, BackoffEnds, Places
  <2>2. Word(spawn[s].at) \subseteq Word(spawn'[s].at)
    BY <2>1 DEF Word, Honest
  <2> QED
    BY <1>0, <2>1, <2>2
<1>7. CASE TaskEnds(s)
  <2>1. tasks' = tasks /\ spawn'[s].at = "finished"
    BY <1>1, <1>7 DEF TaskEnds, Places
  <2> QED
    BY <1>0, <2>1 DEF Word, Entries
<1> QED
  BY <1>2, <1>3, <1>4, <1>5, <1>6, <1>7 DEF TaskStep

\* A task or its monitor takes a step: its own entry follows it; one of
\* another call with its name is not alone.
LEMMA TaskKeepsSupervisor ==
    ASSUME SupervisorInv, CallsGoOn, NEW s \in Spawns, TaskStep(s)
    PROVE  SupervisorInv'
<1>1. ASSUME NEW n \in DOMAIN tasks PROVE LastWord(n)'
  <2>1. PICK h \in Spawns : h = tasks[n].handle /\ spawn[h] # NotYet /\ spawn[h].name = n
    BY HandleOfEntry DEF SupervisorInv
  <2>2. /\ tasks'[n].handle = h /\ spawn[s] \in Calls /\ spawn'[s] \in Calls
        /\ spawn'[s].name = spawn[s].name /\ spawn'[s].caller = spawn[s].caller
        /\ h # s => spawn'[h] = spawn[h]
        /\ n # spawn[s].name => tasks'[n].status = tasks[n].status
        /\ n = spawn[s].name /\ tasks[n].status \in Word(spawn[s].at) =>
             tasks'[n].status \in Word(spawn'[s].at)
    BY <2>1, StepsOfATask, StepInTable DEF SupervisorInv
  <2>3. CASE h = s
    <3>1. Alone(s) /\ InTime(s) => tasks[n].status \in Word(spawn[s].at)
      BY <2>1, <2>3 DEF SupervisorInv, LastWord
    <3>2. Alone(s)' => Alone(s)
      BY <2>1, <2>3, WasAlone
    <3>3. (Alone(tasks[n].handle))' => Alone(s)'
      BY <2>2, <2>3 DEF Alone
    <3>4. (InTime(tasks[n].handle))' => InTime(s)
      BY <2>2, <2>3 DEF InTime
    <3>5. (Word(spawn[tasks[n].handle].at))' = Word(spawn'[s].at)
      BY <2>2, <2>3 DEF Word, Honest
    <3> QED
      BY <2>1, <2>2, <2>3, <3>1, <3>2, <3>3, <3>4, <3>5 DEF LastWord
  <2>4. CASE h # s /\ n # spawn[s].name
    BY <2>1, <2>2, <2>4, KeepsItsWord
  <2>5. CASE h # s /\ n = spawn[s].name
    <3>1. spawn'[s] # NotYet /\ spawn'[s].name = n /\ spawn'[h].name = n
      BY <2>1, <2>2, <2>5 DEF Calls, NotYet
    <3>2. ~(Alone(tasks[n].handle))'
      BY <2>2, <2>5, <3>1 DEF Alone
    <3> QED
      BY <3>2 DEF LastWord
  <2> QED
    BY <2>3, <2>4, <2>5
<1> QED
  BY <1>1, StepsOfATask, StepInTable, KeepsSupervisor DEF SupervisorInv

\* Looking at a handle makes the entry of a finished task "Failed".
LEMMA CheckedEntry ==
    ASSUME SupervisorShape, NEW n \in DOMAIN tasks
    PROVE  /\ Checked(tasks[n]) \in Entries /\ Checked(tasks[n]).handle = tasks[n].handle
           /\ Checked(tasks[n]).status = IF Finished(tasks[n].handle) THEN "Failed" ELSE tasks[n].status
BY DEF SupervisorShape, Checked, Entries, Statuses

\* After a look, the entry has the last word.
LEMMA CheckedWord ==
    ASSUME SupervisorInv, CallsGoOn, spawn' = spawn, NEW n \in DOMAIN tasks,
           tasks'[n] = Checked(tasks[n])
    PROVE  LastWord(n)'
<1>1. CASE Finished(tasks[n].handle)
  <2>1. spawn'[tasks'[n].handle].at = "finished" /\ tasks'[n].status = "Failed"
    BY <1>1, CheckedEntry DEF SupervisorInv, Finished
  <2> QED
    BY <2>1 DEF LastWord, Word, Statuses
<1>2. CASE ~Finished(tasks[n].handle)
  BY <1>2, CheckedEntry, KeepsItsWord DEF SupervisorInv
<1> QED
  BY <1>1, <1>2

\* A call enters its task, whatever entry has the name.
LEMMA EnteringKeepsSupervisor ==
    ASSUME SupervisorInv, CallsGoOn, NEW s \in Spawns, InsertEntry(s)
    PROVE  SupervisorInv'
<1>1. PICK name : name = spawn[s].name
  OBVIOUS
<1>2. tasks' = Insert(tasks, name, Entry(s))
  BY <1>1 DEF InsertEntry
<1>3. /\ spawn' \in [Spawns -> Calls \cup {NotYet}] /\ spawn[s] \in Calls
      /\ spawn[s].caller = "inserts" /\ spawn'[s].name = name /\ spawn'[s].at = spawn[s].at
      /\ spawn'[s].caller = IF Spoken(s) THEN "late" ELSE "done"
      /\ \A other \in Spawns \ {s} : spawn'[other] = spawn[other]
      /\ told' = told
  BY <1>1, EnteringACall DEF SupervisorInv
<1>4. /\ DOMAIN tasks' = DOMAIN tasks \cup {name}
      /\ tasks'[name] = Entry(s)
      /\ \A n \in DOMAIN tasks \ {name} : tasks'[n] = tasks[n]
  BY <1>2 DEF Insert
<1>5. Entry(s) \in Entries /\ Entry(s).handle = s /\ Entry(s).status = "Running"
  BY DEF Entry, Entries, Statuses
<1>6. ASSUME NEW n \in DOMAIN tasks'
      PROVE  /\ tasks'[n] \in Entries /\ spawn'[tasks'[n].handle] # NotYet
             /\ spawn'[tasks'[n].handle].caller # "inserts"
             /\ spawn'[tasks'[n].handle].name = n /\ LastWord(n)'
  <2>1. CASE n = name
    <3>1. tasks'[n].handle = s /\ tasks'[n].status = "Running"
      BY <1>4, <1>5, <2>1
    <3>2. (InTime(tasks[n].handle))' => ~Spoken(s)
      BY <1>3, <3>1 DEF InTime
    <3>3. ~Spoken(s) => "Running" \in Word(spawn[s].at)
      BY <1>3 DEF Spoken, Word, Honest, Calls, Places
    <3>4. spawn'[tasks'[n].handle].at = spawn[s].at
      BY <1>3, <3>1
    <3>5. LastWord(n)'
      BY <3>1, <3>2, <3>3, <3>4 DEF LastWord
    <3>6. spawn'[s] # NotYet
      BY <1>3 DEF NotYet
    <3> QED
      BY <1>3, <1>4, <1>5, <2>1, <3>5, <3>6
  <2>2. CASE n # name
    <3>1. n \in DOMAIN tasks /\ tasks'[n] = tasks[n]
      BY <1>4, <2>2
    <3>2. PICK h \in Spawns : h = tasks[n].handle /\ spawn[h].caller # "inserts" /\ tasks[n] \in Entries
      BY <3>1, HandleOfEntry DEF SupervisorInv, SupervisorShape
    <3>3. spawn'[tasks[n].handle] = spawn[tasks[n].handle]
      BY <1>3, <3>2
    <3>4. LastWord(n)'
      BY <3>1, <3>3, KeepsItsWord
    <3> QED
      BY <1>3, <3>1, <3>2, <3>4, KeepsShape
  <2> QED
    BY <2>1, <2>2
<1>7. /\ StatusIsTrue'
      /\ told' # Nothing => /\ told'.of \in Spawns /\ spawn'[told'.of] # NotYet
                            /\ spawn'[told'.of].caller # "inserts"
  BY <1>3, AnswerStays
<1>8. SupervisorShape'
  BY <1>3, <1>6, <1>7 DEF SupervisorShape
<1> QED
  BY <1>6, <1>7, <1>8 DEF SupervisorInv

\* task_status answers from the entry it has just looked at.
LEMMA AnswerIsTrue ==
    ASSUME SupervisorInv, CallsGoOn, spawn' \in [Spawns -> Calls \cup {NotYet}],
           NEW name, task_status(name)
    PROVE  SupervisorInv'
<1>1. name \in DOMAIN tasks /\ spawn' = spawn /\ SupervisorShape
  BY DEF task_status, SupervisorInv
<1>2. PICK h \in Spawns : /\ h = tasks[name].handle /\ spawn[h] # NotYet
                          /\ spawn[h].name = name /\ spawn[h].caller # "inserts"
  BY <1>1, HandleOfEntry
<1>3. /\ DOMAIN tasks' = DOMAIN tasks
      /\ tasks'[name] = Checked(tasks[name])
      /\ \A n \in DOMAIN tasks \ {name} : tasks'[n] = tasks[n]
  BY <1>1 DEF task_status
<1>4. ASSUME NEW n \in DOMAIN tasks
      PROVE  tasks'[n] \in Entries /\ tasks'[n].handle = tasks[n].handle /\ LastWord(n)'
  <2>1. CASE n = name
    BY <1>1, <1>3, <2>1, CheckedEntry, CheckedWord
  <2>2. CASE n # name
    BY <1>1, <1>3, <2>2, KeepsItsWord DEF SupervisorShape
  <2> QED
    BY <2>1, <2>2
<1>5. told' = [status |-> tasks'[name].status, of |-> h, at |-> spawn[h].at]
  BY <1>2 DEF task_status
<1>6. told'.of = h /\ told'.at = spawn[h].at /\ told'.status = tasks'[name].status
  BY <1>5
<1>7. tasks'[name].status = IF Finished(h) THEN "Failed" ELSE tasks[name].status
  BY <1>1, <1>2, <1>3, CheckedEntry
<1>8. Alone(h)' /\ InTime(h)' => told'.status \in Honest(told'.at)
  <2>1. CASE Finished(h)
    BY <1>6, <1>7, <2>1 DEF Finished, Honest
  <2>2. CASE ~Finished(h)
    <3>1. LastWord(name)' /\ tasks'[name].handle = h
      BY <1>1, <1>2, <1>4
    <3>2. Alone(h)' => (Alone(tasks[name].handle))'
      BY <3>1 DEF Alone
    <3>3. InTime(h)' => (InTime(tasks[name].handle))'
      BY <3>1 DEF InTime
    <3>4. (Word(spawn[tasks[name].handle].at))' = Honest(spawn[h].at)
      BY <1>1, <2>2, <3>1 DEF Word, Honest, Finished
    <3> QED
      BY <1>6, <3>1, <3>2, <3>3, <3>4 DEF LastWord
  <2> QED
    BY <2>1, <2>2
<1>9. StatusIsTrue'
  <2>1. (Alone(told.of))' => Alone(h)'
    BY <1>6 DEF Alone
  <2>2. (InTime(told.of))' => InTime(h)'
    BY <1>6 DEF InTime
  <2>3. (Honest(told.at))' = Honest(told'.at)
    BY DEF Honest
  <2> QED
    BY <1>8, <2>1, <2>2, <2>3 DEF StatusIsTrue
<1>10. \A n \in DOMAIN tasks : spawn'[tasks'[n].handle].caller # "inserts" /\ spawn'[tasks'[n].handle].name = n
  BY <1>4, KeepsShape
<1>11. SupervisorShape'
  BY <1>1, <1>2, <1>3, <1>4, <1>6, <1>10 DEF SupervisorShape
<1> QED
  BY <1>3, <1>4, <1>9, <1>11 DEF SupervisorInv

\* Every step of callers, monitors and askers keeps the invariant.
LEMMA SupervisorStep ==
    ASSUME SupervisorInv, [SupervisorNext]_supervisorVars
    PROVE  SupervisorInv'
<1>0. CallsGoOn /\ spawn' \in [Spawns -> Calls \cup {NotYet}] /\ SupervisorShape
  BY CallsDoGoOn DEF SupervisorInv
<1>1. ASSUME UNCHANGED <<tasks, told>>, \A s \in Spawns : spawn[s] # NotYet => spawn'[s] = spawn[s]
      PROVE  SupervisorInv'
  <2>1. \A n \in DOMAIN tasks : tasks[n] \in Entries
    BY <1>0 DEF SupervisorShape
  <2>2. ASSUME NEW n \in DOMAIN tasks PROVE LastWord(n)'
    BY <1>0, <1>1, HandleOfEntry, KeepsItsWord
  <2> QED
    BY <1>0, <1>1, <2>1, <2>2, KeepsSupervisor
<1>2. ASSUME NEW s \in Spawns, TaskStep(s)
      PROVE  SupervisorInv'
  BY <1>0, <1>2, TaskKeepsSupervisor
<1>3. ASSUME NEW s \in Spawns, InsertEntry(s)
      PROVE  SupervisorInv'
  BY <1>0, <1>3, EnteringKeepsSupervisor
<1>4. ASSUME NEW s \in Spawns, NEW name \in Names, NEW first, SpawnTask(s, name, first)
      PROVE  SupervisorInv'
  <2>1. \A other \in Spawns : spawn[other] # NotYet => spawn'[other] = spawn[other]
    BY <1>0, <1>4, CallType DEF SpawnTask
  <2> QED
    BY <1>1, <1>4, <2>1 DEF SpawnTask
<1>5. ASSUME NEW name \in Names, task_status(name)
      PROVE  SupervisorInv'
  BY <1>0, <1>5, AnswerIsTrue
<1>6. CASE check_all
  <2>1. /\ DOMAIN tasks' = DOMAIN tasks /\ told' = told /\ spawn' = spawn
        /\ \A n \in DOMAIN tasks : tasks'[n] = Checked(tasks[n])
    BY <1>6 DEF check_all
  <2>2. \A n \in DOMAIN tasks : tasks'[n] \in Entries /\ tasks'[n].handle = tasks[n].handle
    BY <1>0, <2>1, CheckedEntry
  <2>3. \A n \in DOMAIN tasks : LastWord(n)'
    BY <1>0, <2>1, CheckedWord
  <2> QED
    BY <1>0, <2>1, <2>2, <2>3, KeepsSupervisor
<1>7. CASE UNCHANGED supervisorVars
  BY <1>1, <1>7 DEF supervisorVars
<1> QED
  BY <1>2, <1>3, <1>4, <1>5, <1>6, <1>7 DEF SupervisorNext, TaskStep

\* What task_status (supervisor.rs) answers of a task that is alone with its
\* name and was entered before its monitor had something to say is so: running
\* until the monitor sees it return or panic, restarting until it is started
\* again, and then stopped or failed; however callers, monitors, panics and
\* askers interleave, for any number of restarts.
THEOREM AnswersAreTrue == SupervisorSpec => []StatusIsTrue
<1>1. SupervisorInit => SupervisorInv
  <2> SUFFICES ASSUME SupervisorInit PROVE SupervisorInv
    OBVIOUS
  <2>1. DOMAIN tasks = {} /\ told = Nothing
    BY DEF SupervisorInit, EmptyMap
  <2>2. SupervisorShape
    BY <2>1 DEF SupervisorInit, SupervisorShape
  <2> QED
    BY <2>1, <2>2 DEF SupervisorInv, StatusIsTrue
<1>2. SupervisorInv /\ [SupervisorNext]_supervisorVars => SupervisorInv'
  BY SupervisorStep
<1>3. SupervisorInv => StatusIsTrue
  BY DEF SupervisorInv
<1> QED
  BY <1>1, <1>2, <1>3, PTL DEF SupervisorSpec
----------------------------------------------------------------------------
(* The plugin manager.                                                     *)

USE PluginsAssumption

\* What is listed was given out.
ListedIsOld == \A t \in PluginTypes : \A i \in registry[t] : i < next_id

\* The host and the registry, which calls change and the progress of a call
\* does not.
HostInv ==
    /\ TypeOK /\ LoadedOnce /\ RegistryIsTrue
    /\ plugins = [i \in DOMAIN plugins |-> plugins[i]]
    /\ ListedIsOld

host == <<file, plugins, wasm, registry, next_id, next_wasm_id, stale>>

\* What is left of the call under way: reload_all only goes through what is
\* loaded, and a shutdown through all that is.
CallOK ==
    \/ call = NoCall
    \/ call = [pc |-> "down"] /\ Listed = {}
    \/ call \in [pc : {"entries", "discover"}, left : SUBSET Paths]
    \/ call \in [pc : {"reload"}, left : SUBSET DOMAIN plugins]
    \/ call \in [pc : {"shutdown"}, left : SUBSET Int] /\ Listed \subseteq call.left

PluginsInv == HostInv /\ CallOK

----------------------------------------------------------------------------
(* The operations of the hosts.                                            *)

\* An instance of a library that is accepted is a plugin.
LEMMA FreshIsPlugin ==
    ASSUME TypeOK, NEW f \in Libraries, Accepts(f), NEW by \in {"entry", "discover", "reload"}
    PROVE  Fresh(f, by) \in Plugin
BY DEF Fresh, Plugin, TypeOK, Accepts

\* A library loaded under a new id, and listed if it is to be.
LEMMA LoadKeepsHost ==
    ASSUME HostInv, NEW p \in Paths, NEW plugin \in Plugin, plugin.path = Canonical[p],
           NEW listed \in BOOLEAN, listed /\ plugin.by = "entry" => plugin.ready,
           load(p, plugin), registry' = RegisterIf(listed, NewId, plugin.type),
           UNCHANGED stale, World
    PROVE  HostInv' /\ DOMAIN plugins \subseteq DOMAIN plugins'
<1>1. /\ next_id \in 1..MaxId /\ next_id' = next_id + 1
      /\ next_id \notin DOMAIN plugins /\ next_id \notin Registered
      /\ DOMAIN plugins' = DOMAIN plugins \cup {next_id}
      /\ plugins'[next_id] = plugin
      /\ \A i \in DOMAIN plugins : plugins'[i] = plugins[i]
      /\ plugins' = [i \in DOMAIN plugins' |-> plugins'[i]]
  BY DEF HostInv, TypeOK, load, NewId, Insert, ListedIsOld, Registered, Ids
<1>2. \A t \in PluginTypes : registry'[t] = IF listed /\ t = plugin.type
                                            THEN registry[t] \cup {next_id} ELSE registry[t]
  BY DEF HostInv, TypeOK, RegisterIf, register, NewId
<1>3. registry' \in [PluginTypes -> SUBSET Ids]
  BY <1>1 DEF HostInv, TypeOK, RegisterIf, register, NewId, Ids, Plugin
<1>4. TypeOK'
  <2>1. Registered \subseteq Registered'
    <3> SUFFICES ASSUME NEW t \in PluginTypes, NEW i \in registry[t]
                 PROVE  i \in registry'[t]
      BY DEF Registered
    <3> QED
      BY <1>2
  <2>2. \A i \in DOMAIN plugins' : plugins'[i] \in Plugin /\ i < next_id'
    <3> SUFFICES ASSUME NEW i \in DOMAIN plugins'
                 PROVE  plugins'[i] \in Plugin /\ i < next_id'
      OBVIOUS
    <3>1. CASE i = next_id
      BY <1>1, <3>1
    <3>2. CASE i # next_id
      <4>1. i \in DOMAIN plugins
        BY <1>1, <3>2
      <4>2. plugins[i] \in Plugin /\ i < next_id /\ i \in Int
        BY <4>1 DEF HostInv, TypeOK, Ids
      <4> QED
        BY <1>1, <4>1, <4>2
    <3> QED
      BY <3>1, <3>2
  <2>3. stale' \subseteq Registered'
    BY <2>1 DEF HostInv, TypeOK
  <2> QED
    BY <1>1, <1>3, <2>2, <2>3 DEF HostInv, TypeOK, World, Ids
<1>5. LoadedOnce'
  <2>1. \A i \in DOMAIN plugins : plugins[i].path # plugin.path
    BY DEF load, Loads, Loaded, SameFile
  <2> QED
    BY <1>1, <2>1 DEF HostInv, LoadedOnce
<1>6. RegistryIsTrue'
  <2> SUFFICES ASSUME NEW t \in PluginTypes, NEW i \in registry'[t] \ stale
               PROVE  /\ i \in DOMAIN plugins' /\ plugins'[i].type = t
                      /\ plugins'[i].by = "entry" => plugins'[i].ready
    BY DEF RegistryIsTrue
  <2>1. CASE i \in registry[t]
    <3>1. i \in DOMAIN plugins /\ plugins[i].type = t
          /\ (plugins[i].by = "entry" => plugins[i].ready)
      BY <2>1 DEF HostInv, RegistryIsTrue
    <3> QED
      BY <1>1, <3>1
  <2>2. CASE i \notin registry[t]
    <3>1. i = next_id /\ listed /\ t = plugin.type
      BY <1>2, <2>2
    <3> QED
      BY <1>1, <3>1
  <2> QED
    BY <2>1, <2>2
<1>7. ListedIsOld'
  <2> SUFFICES ASSUME NEW t \in PluginTypes, NEW i \in registry'[t]
               PROVE  i < next_id'
    BY DEF ListedIsOld
  <2>1. i \in registry[t] \/ i = next_id
    BY <1>2
  <2>2. i \in Int
    BY <1>3 DEF Ids
  <2> QED
    BY <1>1, <2>1, <2>2 DEF HostInv, ListedIsOld
<1> QED
  BY <1>1, <1>4, <1>5, <1>6, <1>7 DEF HostInv

\* A plugin of either host unloaded, or an id that none of them knows.
LEMMA UnloadKeepsHost ==
    ASSUME HostInv, NEW i \in Int, Unload(i)
    PROVE  HostInv' /\ Listed' = Listed \ {i}
<1>1. /\ DOMAIN plugins' = DOMAIN plugins \ {i}
      /\ \A j \in DOMAIN plugins' : plugins'[j] = plugins[j]
      /\ plugins' = [j \in DOMAIN plugins' |-> plugins'[j]]
      /\ registry' = [t \in PluginTypes |-> registry[t] \ {i}]
      /\ stale' = stale \ {i}
      /\ UNCHANGED <<file, next_id, next_wasm_id>>
  BY DEF Unload, RemovePlugin, Remove, unregister
<1>2. wasm' = wasm \ {i}
  BY DEF Unload, HostInv, TypeOK, Ids
<1>3. TypeOK'
  <2>1. stale' \subseteq Registered'
    BY <1>1 DEF HostInv, TypeOK, Registered
  <2> QED
    BY <1>1, <1>2, <2>1 DEF HostInv, TypeOK
<1>4. LoadedOnce' /\ ListedIsOld'
  BY <1>1 DEF HostInv, LoadedOnce, ListedIsOld
<1>5. RegistryIsTrue'
  BY <1>1 DEF HostInv, RegistryIsTrue
<1> QED
  BY <1>1, <1>2, <1>3, <1>4, <1>5 DEF HostInv, Listed

\* A reload that went well: the library stays under its id.
LEMMA ReloadsKeepsHost ==
    ASSUME HostInv, NEW i \in DOMAIN plugins, Reloads(i)
    PROVE  HostInv' /\ DOMAIN plugins' = DOMAIN plugins
<1> DEFINE f == plugins[i].path
<1>1. f \in Libraries /\ i \in Ids /\ Fresh(f, "reload") \in Plugin
  BY FreshIsPlugin DEF HostInv, TypeOK, Plugin, Reloads
<1>2. /\ DOMAIN plugins' = DOMAIN plugins
      /\ plugins'[i] = Fresh(f, "reload")
      /\ \A j \in DOMAIN plugins : j # i => plugins'[j] = plugins[j]
      /\ plugins' = [j \in DOMAIN plugins' |-> plugins'[j]]
      /\ next_id' = next_id + 1 /\ next_id <= MaxId
      /\ UNCHANGED <<registry, file, wasm, next_wasm_id>>
      /\ stale' = IF file[f] = plugins[i].type THEN stale
                  ELSE stale \cup ({i} \cap Registered)
  BY DEF Reloads, Reloaded, Insert, World
<1>3. TypeOK'
  <2>1. stale' \subseteq Registered'
    BY <1>2 DEF HostInv, TypeOK, Registered
  <2>2. \A j \in DOMAIN plugins' : plugins'[j] \in Plugin /\ j < next_id'
    BY <1>1, <1>2 DEF HostInv, TypeOK, Ids
  <2> QED
    BY <1>2, <2>1, <2>2 DEF HostInv, TypeOK
<1>4. LoadedOnce'
  BY <1>2 DEF HostInv, LoadedOnce, Fresh
<1>5. RegistryIsTrue'
  <2> SUFFICES ASSUME NEW t \in PluginTypes, NEW j \in registry[t] \ stale'
               PROVE  /\ j \in DOMAIN plugins' /\ plugins'[j].type = t
                      /\ plugins'[j].by = "entry" => plugins'[j].ready
    BY <1>2 DEF RegistryIsTrue
  <2>1. /\ j \in DOMAIN plugins /\ plugins[j].type = t
        /\ plugins[j].by = "entry" => plugins[j].ready
    BY <1>2 DEF HostInv, RegistryIsTrue
  <2>2. CASE j = i
    <3>1. file[f] = t
      BY <1>2, <2>1, <2>2 DEF Registered
    <3> QED
      BY <1>2, <2>2, <3>1 DEF Fresh
  <2>3. CASE j # i
    BY <1>2, <2>1, <2>3
  <2> QED
    BY <2>2, <2>3
<1>6. ListedIsOld'
  BY <1>2 DEF HostInv, ListedIsOld, TypeOK, Ids
<1> QED
  BY <1>2, <1>3, <1>4, <1>5, <1>6 DEF HostInv

\* A reload that lost the plugin.
LEMMA ReloadFailsKeepsHost ==
    ASSUME HostInv, NEW i, ReloadFails(i)
    PROVE  HostInv'
<1>1. /\ DOMAIN plugins' = DOMAIN plugins \ {i}
      /\ \A j \in DOMAIN plugins' : plugins'[j] = plugins[j]
      /\ plugins' = [j \in DOMAIN plugins' |-> plugins'[j]]
      /\ stale' = stale \cup ({i} \cap Registered)
      /\ UNCHANGED <<file, wasm, next_wasm_id, next_id, registry>>
  BY DEF ReloadFails, RemovePlugin, Remove, World
<1>2. TypeOK'
  BY <1>1 DEF HostInv, TypeOK, Registered
<1>3. LoadedOnce' /\ ListedIsOld'
  BY <1>1 DEF HostInv, LoadedOnce, ListedIsOld
<1>4. RegistryIsTrue'
  BY <1>1 DEF HostInv, RegistryIsTrue, Registered
<1> QED
  BY <1>1, <1>2, <1>3, <1>4 DEF HostInv

\* The library files are anybody's; what is loaded stays as it was.
LEMMA ReplaceKeepsHost ==
    ASSUME HostInv, NEW f \in Libraries, Replace(f)
    PROVE  HostInv'
<1>1. file' \in [Libraries -> PluginTypes \cup {"broken"}]
  BY DEF HostInv, TypeOK, Replace
<1> QED
  BY <1>1 DEF HostInv, TypeOK, LoadedOnce, RegistryIsTrue, ListedIsOld, Registered, Replace

\* A WASM plugin loaded, under an id above all native ones.
LEMMA LoadWasmKeepsHost ==
    ASSUME HostInv, LoadWasm
    PROVE  HostInv'
BY DEF HostInv, TypeOK, LoadedOnce, RegistryIsTrue, ListedIsOld, Registered, LoadWasm

\* Where a call only moves on, nothing is lost.
LEMMA OthersKeepHost ==
    ASSUME HostInv, UNCHANGED host
    PROVE  HostInv'
BY DEF HostInv, TypeOK, LoadedOnce, RegistryIsTrue, ListedIsOld, Registered, host

\* A library loaded and its init called, which may fail.
LEMMA LoadAndInitKeepsHost ==
    ASSUME HostInv, NEW p \in Paths, LoadAndInit(p)
    PROVE  HostInv'
<1>1. PICK done \in BOOLEAN :
        /\ load(p, [Fresh(Canonical[p], "entry") EXCEPT !.ready = done])
        /\ registry' = RegisterIf(done, NewId, file[Canonical[p]])
        /\ UNCHANGED stale /\ World
  BY DEF LoadAndInit
<1> DEFINE plugin == [Fresh(Canonical[p], "entry") EXCEPT !.ready = done]
<1>2. Fresh(Canonical[p], "entry") \in Plugin
  BY <1>1, FreshIsPlugin DEF HostInv, load, Loads, Libraries
<1>3. plugin \in Plugin /\ plugin.path = Canonical[p] /\ plugin.ready = done
      /\ plugin.type = file[Canonical[p]]
  BY <1>2 DEF Plugin, Fresh
<1> HIDE DEF plugin
<1>4. load(p, plugin) /\ registry' = RegisterIf(done, NewId, plugin.type)
      /\ (done /\ plugin.by = "entry" => plugin.ready)
  BY <1>1, <1>3 DEF plugin
<1> QED
  BY <1>1, <1>3, <1>4, LoadKeepsHost

\* A library found in a search directory, neither registered nor initialised.
LEMMA DiscoverKeepsHost ==
    ASSUME HostInv, NEW p \in Paths,
           load(p, Fresh(Canonical[p], "discover")),
           UNCHANGED <<registry, stale>>, World
    PROVE  HostInv'
<1> DEFINE plugin == Fresh(Canonical[p], "discover")
<1>1. plugin \in Plugin
  BY FreshIsPlugin DEF HostInv, load, Loads, Libraries
<1>2. plugin.path = Canonical[p] /\ plugin.by = "discover"
      /\ plugin.type = file[Canonical[p]]
  BY DEF Fresh
<1> HIDE DEF plugin
<1>3. load(p, plugin) /\ registry' = RegisterIf(FALSE, NewId, plugin.type)
  BY <1>2 DEF plugin, RegisterIf
<1> QED
  BY <1>1, <1>2, <1>3, LoadKeepsHost

\* What was discovered, registered when the init ends.
LEMMA InitDoneKeepsHost ==
    ASSUME HostInv, InitDone
    PROVE  HostInv'
<1>1. /\ UNCHANGED <<file, plugins, wasm, next_id, next_wasm_id, stale>>
      /\ registry' = [t \in PluginTypes |-> registry[t] \cup Discovered(t)]
  BY DEF InitDone, World
<1>2. \A t \in PluginTypes : \A i \in Discovered(t) :
        /\ i \in DOMAIN plugins /\ plugins[i].type = t /\ plugins[i].by = "discover"
        /\ i \in Ids /\ i < next_id
  BY DEF Discovered, HostInv, TypeOK
<1>3. TypeOK'
  <2>1. registry' \in [PluginTypes -> SUBSET Ids]
    BY <1>1, <1>2 DEF HostInv, TypeOK
  <2>2. Registered \subseteq Registered'
    BY <1>1 DEF Registered
  <2> QED
    BY <1>1, <2>1, <2>2 DEF HostInv, TypeOK
<1>4. RegistryIsTrue'
  <2> SUFFICES ASSUME NEW t \in PluginTypes, NEW i \in registry'[t] \ stale
               PROVE  /\ i \in DOMAIN plugins /\ plugins[i].type = t
                      /\ plugins[i].by = "entry" => plugins[i].ready
    BY <1>1 DEF RegistryIsTrue
  <2>1. CASE i \in registry[t]
    BY <2>1 DEF HostInv, RegistryIsTrue
  <2>2. CASE i \in Discovered(t)
    BY <1>2, <2>2
  <2> QED
    BY <1>1, <2>1, <2>2
<1>5. ListedIsOld'
  BY <1>1, <1>2 DEF HostInv, ListedIsOld
<1> QED
  BY <1>1, <1>3, <1>4, <1>5 DEF HostInv, LoadedOnce

----------------------------------------------------------------------------
(* The manager's calls.                                                    *)

\* What is listed for a shutdown are ids.
LEMMA ListedAreIds ==
    ASSUME TypeOK
    PROVE  Listed \subseteq Int
<1>1. DOMAIN plugins \subseteq Int
  BY DEF TypeOK, Ids
<1>2. wasm \subseteq Int
  <2>1. next_wasm_id \in Int /\ wasm \subseteq WasmBase..(next_wasm_id - 1)
    BY DEF TypeOK
  <2> QED
    BY <2>1
<1> QED
  BY <1>1, <1>2 DEF Listed

\* Every call keeps the invariant.
LEMMA PluginsStep ==
    ASSUME PluginsInv, [PluginsNext]_pluginVars
    PROVE  PluginsInv'
<1> USE DEF PluginsInv
<1>1. CASE InitEntry
  <2>1. PICK p \in call.left : /\ LoadAndInit(p) \/ Refused(p)
                              /\ call' = [call EXCEPT !.left = @ \ {p}]
    BY <1>1 DEF InitEntry
  <2>2. call \in [pc : {"entries", "discover"}, left : SUBSET Paths] /\ p \in Paths
    BY <1>1, <2>1 DEF InitEntry, CallOK, NoCall
  <2>3. HostInv'
    BY <2>1, <2>2, LoadAndInitKeepsHost, OthersKeepHost DEF Refused, World, host
  <2> QED
    BY <2>1, <2>2, <2>3 DEF CallOK
<1>2. CASE InitDiscovers
  BY <1>2, OthersKeepHost DEF InitDiscovers, World, host, CallOK
<1>3. CASE Discover
  <2>1. PICK p \in call.left :
          /\ \/ /\ load(p, Fresh(Canonical[p], "discover"))
                /\ UNCHANGED <<registry, stale>> /\ World
             \/ Refused(p)
          /\ call' = [call EXCEPT !.left = @ \ {p}]
    BY <1>3 DEF Discover
  <2>2. call \in [pc : {"entries", "discover"}, left : SUBSET Paths] /\ p \in Paths
    BY <1>3, <2>1 DEF Discover, CallOK, NoCall
  <2>3. HostInv'
    BY <2>1, <2>2, DiscoverKeepsHost, OthersKeepHost DEF Refused, World, host
  <2> QED
    BY <2>1, <2>2, <2>3 DEF CallOK
<1>4. CASE InitFails \/ Shutdown
  <2>1. HostInv' /\ Listed' = Listed
    BY <1>4, OthersKeepHost DEF InitFails, Shutdown, World, host, Listed
  <2>2. call' = [pc |-> "shutdown", left |-> Listed]
    BY <1>4 DEF InitFails, Shutdown
  <2> QED
    BY <2>1, <2>2, ListedAreIds DEF CallOK, HostInv
<1>5. ASSUME NEW p \in Paths, Load(p)
      PROVE  PluginsInv'
  BY <1>5, LoadAndInitKeepsHost, OthersKeepHost DEF Load, Refused, World, host, CallOK
<1>6. CASE LoadWasm
  BY <1>6, LoadWasmKeepsHost DEF LoadWasm, CallOK
<1>7. ASSUME NEW i \in Int, UnloadOne(i)
      PROVE  PluginsInv'
  BY <1>7, UnloadKeepsHost DEF UnloadOne, CallOK
<1>8. ASSUME NEW i \in Int, Reload(i)
      PROVE  PluginsInv'
  BY <1>8, ReloadsKeepsHost, ReloadFailsKeepsHost DEF Reload, CallOK
<1>9. CASE ReloadAll
  BY <1>9, OthersKeepHost DEF ReloadAll, World, host, CallOK
<1>10. CASE ReloadNext
  <2>1. call \in [pc : {"reload"}, left : SUBSET DOMAIN plugins]
    BY <1>10 DEF ReloadNext, CallOK, NoCall
  <2>2. CASE call.left = {} /\ call' = NoCall
             /\ UNCHANGED <<plugins, registry, next_id, stale>> /\ World
    BY <2>2, OthersKeepHost DEF World, host, CallOK
  <2>3. ASSUME NEW i \in call.left, Reloads(i), call' = [call EXCEPT !.left = @ \ {i}]
        PROVE  PluginsInv'
    <3>1. HostInv' /\ DOMAIN plugins' = DOMAIN plugins
      BY <2>1, <2>3, ReloadsKeepsHost
    <3> QED
      BY <2>1, <2>3, <3>1 DEF CallOK
  <2>4. ASSUME NEW i \in call.left, ReloadFails(i), call' = NoCall
        PROVE  PluginsInv'
    BY <2>4, ReloadFailsKeepsHost DEF CallOK
  <2> QED
    BY <1>10, <2>2, <2>3, <2>4 DEF ReloadNext
<1>11. CASE ShutdownNext
  <2>1. call \in [pc : {"shutdown"}, left : SUBSET Int] /\ Listed \subseteq call.left
    BY <1>11 DEF ShutdownNext, CallOK, NoCall
  <2>2. ASSUME NEW i \in call.left, Unload(i), call' = [call EXCEPT !.left = @ \ {i}]
        PROVE  PluginsInv'
    <3>1. i \in Int /\ HostInv' /\ Listed' = Listed \ {i}
      BY <2>1, <2>2, UnloadKeepsHost
    <3> QED
      BY <2>1, <2>2, <3>1 DEF CallOK
  <2>3. CASE call.left = {} /\ call' = [pc |-> "down"]
             /\ UNCHANGED <<plugins, registry, next_id, stale>> /\ World
    BY <2>1, <2>3, OthersKeepHost DEF World, host, CallOK, Listed
  <2> QED
    BY <1>11, <2>2, <2>3 DEF ShutdownNext
<1>12. ASSUME NEW f \in Libraries, Replace(f)
       PROVE  PluginsInv'
  BY <1>12, ReplaceKeepsHost DEF Replace, CallOK, Listed
<1>13. CASE InitDone
  BY <1>13, InitDoneKeepsHost DEF InitDone, CallOK
<1>14. CASE UNCHANGED pluginVars
  BY <1>14, OthersKeepHost DEF pluginVars, host, CallOK, Listed
<1> QED
  BY <1>1, <1>2, <1>3, <1>4, <1>5, <1>6, <1>7, <1>8, <1>9, <1>10, <1>11, <1>12, <1>13, <1>14
     DEF PluginsNext

\* The inductive invariant: what the host holds, what the registry lists and
\* what the call under way has left agree.
THEOREM PluginsInvariance == PluginsSpec => []PluginsInv
<1>1. PluginsInit => PluginsInv
  BY DEF PluginsInit, PluginsInv, HostInv, TypeOK, LoadedOnce, RegistryIsTrue, ListedIsOld,
         CallOK, EmptyMap, NothingRegistered, Registered, Ids
<1>2. PluginsInv /\ [PluginsNext]_pluginVars => PluginsInv'
  BY PluginsStep
<1> QED
  BY <1>1, <1>2, PTL DEF PluginsSpec

\* A library is never loaded twice (the comparison of canonical paths in
\* NativePluginHost::load), through every reload and whoever replaces files.
THEOREM LibrariesLoadOnce == PluginsSpec => []LoadedOnce
BY PluginsInvariance, PTL DEF PluginsInv, HostInv

\* PluginRegistry never leads to a plugin that is gone, of another type or
\* whose init failed, but for ids whose reload went wrong.
THEOREM RegistryStaysTrue == PluginsSpec => []RegistryIsTrue
BY PluginsInvariance, PTL DEF PluginsInv, HostInv

\* When shutdown (or drop) is through, nothing is loaded in either host.
THEOREM NothingIsLeft == PluginsSpec => []ShutdownLeavesNothing
<1>1. PluginsInv => ShutdownLeavesNothing
  <2> SUFFICES ASSUME PluginsInv, call.pc = "down"
               PROVE  plugins = EmptyMap /\ wasm = {} /\ Registered = stale
    BY DEF ShutdownLeavesNothing
  <2>1. Listed = {}
    BY DEF PluginsInv, CallOK, NoCall
  <2>2. Registered \subseteq stale
    BY <2>1 DEF PluginsInv, HostInv, RegistryIsTrue, Registered, Listed
  <2> QED
    BY <2>1, <2>2 DEF PluginsInv, HostInv, TypeOK, Listed, EmptyMap
<1> QED
  BY <1>1, PluginsInvariance, PTL

\* An id belongs to one library for good: it is neither moved to another by a
\* reload nor given out again (next_id of NativePluginHost).
THEOREM IdsKeepTheirLibrary == PluginsSpec => IdKeepsLibrary
<1> DEFINE Kept == \A i \in DOMAIN plugins' :
                     \/ i \in DOMAIN plugins /\ plugins'[i].path = plugins[i].path
                     \/ i >= next_id
<1>1. ASSUME NEW p, NEW plugin, load(p, plugin), PluginsInv
      PROVE  Kept
  BY <1>1 DEF load, Insert, NewId, PluginsInv, HostInv, TypeOK
<1>2. ASSUME NEW i \in DOMAIN plugins, Reloads(i)
      PROVE  Kept
  BY <1>2 DEF Reloads, Reloaded, Insert, Fresh
<1>3. ASSUME NEW i, RemovePlugin({i})
      PROVE  Kept
  BY <1>3 DEF RemovePlugin, Remove
<1>4. ASSUME UNCHANGED plugins
      PROVE  Kept
  BY <1>4
<1> HIDE DEF Kept
<1>5. PluginsInv /\ [PluginsNext]_pluginVars => Kept
  <2> SUFFICES ASSUME PluginsInv, [PluginsNext]_pluginVars
               PROVE  Kept
    OBVIOUS
  <2>1. CASE InitEntry \/ Discover \/ \E p \in Paths : Load(p)
    BY <2>1, <1>1, <1>4 DEF InitEntry, Discover, Load, LoadAndInit, Refused
  <2>2. CASE InitDiscovers \/ InitDone \/ InitFails \/ LoadWasm \/ ReloadAll \/ Shutdown
             \/ UNCHANGED pluginVars
    BY <2>2, <1>4 DEF InitDiscovers, InitDone, InitFails, LoadWasm, ReloadAll, Shutdown, pluginVars
  <2>3. ASSUME NEW i, UnloadOne(i) \/ Reload(i)
        PROVE  Kept
    BY <2>3, <1>2, <1>3 DEF UnloadOne, Unload, Reload, ReloadFails
  <2>4. CASE ReloadNext
    <3>1. call.pc = "reload" /\ call.left \subseteq DOMAIN plugins
      BY <2>4 DEF ReloadNext, PluginsInv, CallOK, NoCall
    <3> QED
      BY <2>4, <3>1, <1>2, <1>3, <1>4 DEF ReloadNext, ReloadFails
  <2>5. CASE ShutdownNext
    BY <2>5, <1>3, <1>4 DEF ShutdownNext, Unload
  <2>6. CASE \E f \in Libraries : Replace(f)
    BY <2>6, <1>4 DEF Replace
  <2> QED
    BY <2>1, <2>2, <2>3, <2>4, <2>5, <2>6 DEF PluginsNext
<1>6. PluginsSpec => [][Kept]_pluginVars
  BY <1>5, PluginsInvariance, PTL DEF PluginsSpec
<1> QED
  BY <1>6 DEF IdKeepsLibrary, Kept
=============================================================================
