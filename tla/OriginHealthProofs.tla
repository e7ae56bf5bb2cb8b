------------------------- MODULE OriginHealthProofs -------------------------
(***************************************************************************)
(* Theorems about OriginHealth, for any origins, of which any may come and *)
(* go, with any priorities and thresholds.                                 *)
(***************************************************************************)
EXTENDS OriginHealth, TLAPS

----------------------------------------------------------------------------
(* The maps have their keys.                                               *)

Shape ==
    /\ DOMAIN check = Tasks /\ \A t \in Tasks : DOMAIN check[t] = Origins
    /\ DOMAIN admin = Origins
    /\ published \in [Origins -> BOOLEAN]
    /\ registered \subseteq Origins /\ monitored \subseteq Origins

\* How far a register or unregister of o has come tells where o is entered.
AdminOK(o) ==
    /\ o \in registered => o \in monitored \cap prioritised \cap DOMAIN state
    /\ admin[o] \in {"prioritised", "monitored", "stated"} => o \in prioritised
    /\ admin[o] \in {"monitored", "stated"} => o \in monitored
    /\ admin[o] = "stated" => o \in DOMAIN state
    /\ admin[o] \in {"unlisted", "unrouted", "unmonitored"} => o \notin registered

TryingAt(o) == read.pc = "try" /\ read.origin = o

\* What is gone, or has gone so far, is neither checked nor read, unless it
\* was overtaken.
LeftOK(o) ==
    /\ admin[o] = "done" /\ o \notin registered =>
         /\ o \notin prioritised \cup timed \cup monitored \cup DOMAIN state
         /\ ~Checking(o) /\ ~TryingAt(o)
    /\ admin[o] \in {"unrouted", "unmonitored"} =>
         o \notin prioritised \cup timed /\ ~TryingAt(o)
    /\ admin[o] = "unmonitored" => o \notin monitored

HealthInv ==
    /\ Shape
    /\ \A o \in Origins : AdminOK(o) /\ (o \notin overtaken => LeftOK(o))

----------------------------------------------------------------------------
(* What a step does to an origin it is not about.                          *)

\* A step that is about q alone: every other origin stays where it is.
About(q) ==
    \A o \in Origins \ {q} :
      /\ admin'[o] = admin[o]
      /\ o \in registered' <=> o \in registered
      /\ o \in prioritised' <=> o \in prioritised
      /\ o \in timed' <=> o \in timed
      /\ o \in monitored' <=> o \in monitored
      /\ o \in DOMAIN state' <=> o \in DOMAIN state
      /\ o \in overtaken' <=> o \in overtaken
      /\ \A t \in Tasks : check'[t][o] = check[t][o]
      /\ TryingAt(o)' => TryingAt(o)

\* If that one stays right, all do.
LEMMA AboutOne ==
    ASSUME HealthInv, NEW q \in Origins, About(q), Shape',
           AdminOK(q)', q \notin overtaken' => LeftOK(q)'
    PROVE  HealthInv'
<1>1. ASSUME NEW o \in Origins \ {q}
      PROVE  AdminOK(o)' /\ (o \notin overtaken' => LeftOK(o)')
  <2>1. AdminOK(o)'
    BY <1>1 DEF HealthInv, About, AdminOK
  <2>2. Checking(o)' => Checking(o)
    BY <1>1 DEF About, Checking
  <2>3. o \notin overtaken' => LeftOK(o)'
    BY <1>1, <2>2 DEF HealthInv, About, LeftOK
  <2> QED
    BY <2>1, <2>3
<1> QED
  BY <1>1 DEF HealthInv

\* register, step by step.
LEMMA RegisterKeeps ==
    ASSUME HealthInv, NEW o \in Origins, Register(o)
    PROVE  HealthInv'
<1> USE DEF HealthInv
<1>1. CASE SetPriority(o)
  <2>1. /\ admin' = [admin EXCEPT ![o] = "prioritised"] /\ prioritised' = prioritised \cup {o}
        /\ UNCHANGED <<registered, timed, monitored, state, check, published, read, overtaken>>
    BY <1>1 DEF SetPriority, Step, monitor
  <2>2. About(o) /\ Shape' /\ AdminOK(o)' /\ LeftOK(o)'
    BY <2>1 DEF About, Shape, AdminOK, LeftOK, TryingAt
  <2> QED
    BY <2>2, AboutOne
<1>2. CASE AddOrigin(o)
  <2>1. /\ admin[o] = "prioritised" /\ admin' = [admin EXCEPT ![o] = "monitored"]
        /\ monitored' = monitored \cup {o}
        /\ UNCHANGED <<registered, timed, prioritised, state, check, published, read, overtaken>>
    BY <1>2 DEF AddOrigin, Step, monitor
  <2>2. About(o) /\ Shape' /\ AdminOK(o)' /\ LeftOK(o)'
    BY <2>1 DEF About, Shape, AdminOK, LeftOK, TryingAt
  <2> QED
    BY <2>2, AboutOne
<1>3. CASE AddState(o)
  <2>1. /\ admin[o] = "monitored" /\ admin' = [admin EXCEPT ![o] = "stated"]
        /\ DOMAIN state' = DOMAIN state \cup {o}
        /\ UNCHANGED <<registered, timed, prioritised, monitored, check, published, read, overtaken>>
    BY <1>3 DEF AddState, Step, Restate, Insert
  <2>2. About(o) /\ Shape' /\ AdminOK(o)' /\ LeftOK(o)'
    BY <2>1 DEF About, Shape, AdminOK, LeftOK, TryingAt
  <2> QED
    BY <2>2, AboutOne
<1>4. CASE EnterRegistry(o)
  <2>1. /\ admin[o] = "stated" /\ admin' = [admin EXCEPT ![o] = "done"]
        /\ registered' = registered \cup {o} /\ overtaken' = overtaken \ {o}
        /\ UNCHANGED <<timed, prioritised, monitored, state, check, published, read>>
    BY <1>4 DEF EnterRegistry, Step, monitor
  <2>2. About(o) /\ Shape' /\ AdminOK(o)' /\ LeftOK(o)'
    BY <2>1 DEF About, Shape, AdminOK, LeftOK, TryingAt
  <2> QED
    BY <2>2, AboutOne
<1> QED
  BY <1>1, <1>2, <1>3, <1>4 DEF Register

\* unregister, step by step.
LEMMA UnregisterKeeps ==
    ASSUME HealthInv, NEW o \in Origins, Unregister(o)
    PROVE  HealthInv'
<1> USE DEF HealthInv
<1>1. CASE LeaveRegistry(o)
  <2>1. /\ admin' = [admin EXCEPT ![o] = "unlisted"] /\ registered' = registered \ {o}
        /\ UNCHANGED <<timed, prioritised, monitored, state, check, published, overtaken>>
        /\ TryingAt(o)' = TryingAt(o)
    BY <1>1 DEF LeaveRegistry, Step, Unlist, monitor, TryingAt
  <2>2. \A p \in Origins : TryingAt(p)' => TryingAt(p)
    BY <1>1 DEF LeaveRegistry, TryingAt
  <2>3. About(o) /\ Shape' /\ AdminOK(o)' /\ LeftOK(o)'
    BY <2>1, <2>2 DEF About, Shape, AdminOK, LeftOK
  <2> QED
    BY <2>3, AboutOne
<1>2. CASE RemovePriority(o)
  <2>1. /\ admin[o] = "unlisted" /\ admin' = [admin EXCEPT ![o] = "unrouted"]
        /\ prioritised' = prioritised \ {o} /\ timed' = timed \ {o}
        /\ UNCHANGED <<registered, monitored, state, check, published, read>>
        /\ overtaken' = IF Checking(o) \/ TryingAt(o) THEN overtaken \cup {o} ELSE overtaken
    BY <1>2 DEF RemovePriority, Step, Overtake, monitor, TryingAt
  <2>2. About(o) /\ Shape' /\ AdminOK(o)'
    BY <2>1 DEF About, Shape, AdminOK, TryingAt
  <2>3. o \notin overtaken' => LeftOK(o)'
    BY <2>1 DEF LeftOK, TryingAt, Shape
  <2> QED
    BY <2>2, <2>3, AboutOne
<1>3. CASE RemoveOrigin(o)
  <2>1. /\ admin[o] = "unrouted" /\ admin' = [admin EXCEPT ![o] = "unmonitored"]
        /\ monitored' = monitored \ {o}
        /\ UNCHANGED <<registered, prioritised, timed, state, check, published, read, overtaken>>
    BY <1>3 DEF RemoveOrigin, Step, monitor
  <2>2. About(o) /\ Shape' /\ AdminOK(o)'
    BY <2>1 DEF About, Shape, AdminOK, TryingAt
  <2>3. o \notin overtaken' => LeftOK(o)'
    BY <2>1 DEF LeftOK, TryingAt, Shape
  <2> QED
    BY <2>2, <2>3, AboutOne
<1>4. CASE RemoveState(o)
  <2>1. /\ admin[o] = "unmonitored" /\ admin' = [admin EXCEPT ![o] = "done"]
        /\ DOMAIN state' = DOMAIN state \ {o}
        /\ UNCHANGED <<registered, prioritised, timed, monitored, check, published, read>>
        /\ overtaken' = IF Checking(o) \/ TryingAt(o) THEN overtaken \cup {o} ELSE overtaken
    BY <1>4 DEF RemoveState, Step, Restate, WithoutState, Remove, Overtake, TryingAt
  <2>2. About(o) /\ Shape' /\ AdminOK(o)'
    BY <2>1 DEF About, Shape, AdminOK, TryingAt
  <2>3. o \notin overtaken' => LeftOK(o)'
    BY <2>1 DEF LeftOK, TryingAt, Shape, Checking
  <2> QED
    BY <2>2, <2>3, AboutOne
<1> QED
  BY <1>1, <1>2, <1>3, <1>4 DEF Unregister

\* A round of checks begins: of what the monitor knows.
LEMMA AskKeeps ==
    ASSUME HealthInv, NEW t \in Tasks, NEW asked, asked \subseteq monitored, Ask(t, asked)
    PROVE  HealthInv'
<1> USE DEF HealthInv
<1>1. /\ \A o \in Origins : check[t][o] = Unchecked
      /\ check' = [check EXCEPT ![t] = [o \in Origins |->
                     IF o \in asked THEN [pc |-> "asked"] ELSE Unchecked]]
      /\ UNCHANGED <<registered, prioritised, timed, monitored, admin, state, published, read,
                     overtaken>>
  BY DEF Ask, Monitoring, registry
<1>2. Shape'
  BY <1>1 DEF Shape
<1>3. ASSUME NEW o \in Origins
      PROVE  AdminOK(o)' /\ (o \notin overtaken' => LeftOK(o)')
  <2>1. o \notin asked => (Checking(o)' => Checking(o))
    BY <1>1 DEF Checking, Shape, Unchecked
  <2>2. AdminOK(o)'
    BY <1>1 DEF AdminOK
  <2>3. TryingAt(o)' = TryingAt(o)
    BY <1>1 DEF TryingAt
  <2>4. ASSUME o \notin overtaken'
        PROVE  LeftOK(o)'
    BY <1>1, <2>1, <2>3, <2>4 DEF LeftOK
  <2> QED
    BY <2>2, <2>4
<1> QED
  BY <1>2, <1>3

\* A check goes on; only what is under way goes on, and only the end of it
\* puts a state.
LEMMA CheckKeeps ==
    ASSUME HealthInv, NEW t \in Tasks, NEW o \in Origins, Checks(t, o)
    PROVE  HealthInv'
<1> USE DEF HealthInv
<1>1. /\ \/ DOMAIN state' = DOMAIN state
         \/ DOMAIN state' = DOMAIN state \cup {o}
      /\ UNCHANGED <<registered, prioritised, timed, monitored, admin, read, overtaken>>
  BY DEF Checks, Hear, Peek, Record, Monitoring, registry, Insert
<1>2. PICK k : check' = [check EXCEPT ![t][o] = k]
  BY DEF Checks, Hear, Peek, Record
<1>3. Checking(o)
  BY DEF Checks, Hear, Peek, Record, Checking
<1>4. published' \in [Origins -> BOOLEAN]
  BY DEF Checks, Hear, Peek, Record, Tell, Shape, IsHealthy
<1>5. About(o) /\ Shape' /\ AdminOK(o)'
  BY <1>1, <1>2, <1>4 DEF About, Shape, AdminOK, TryingAt
<1>6. o \notin overtaken' => LeftOK(o)'
  BY <1>1, <1>3 DEF LeftOK, TryingAt
<1> QED
  BY <1>5, <1>6, AboutOne

\* Whom a read may turn to next: one that is registered, or the one it is at.
LEMMA ReadKeeps ==
    ASSUME HealthInv,
           UNCHANGED <<registered, prioritised, monitored, admin, monitor, overtaken>>,
           \A o \in Origins : TryingAt(o)' => TryingAt(o) \/ o \in registered,
           \A o \in timed' : o \in timed \/ TryingAt(o)
    PROVE  HealthInv'
<1> USE DEF HealthInv
<1>1. Shape'
  BY DEF Shape, monitor
<1>2. ASSUME NEW o \in Origins
      PROVE  AdminOK(o)' /\ (o \notin overtaken' => LeftOK(o)')
  <2>1. Checking(o)' = Checking(o)
    BY DEF Checking, monitor
  <2>2. AdminOK(o)'
    BY DEF AdminOK, monitor
  <2>3. ASSUME o \notin overtaken'
        PROVE  LeftOK(o)'
    BY <2>1, <2>3 DEF LeftOK, AdminOK, monitor
  <2> QED
    BY <2>2, <2>3
<1> QED
  BY <1>1, <1>2

\* The origins that the fallback chooses from are those that serve the path.
LEMMA SelectedAreCandidates ==
    ASSUME NEW S
    PROVE  SelectWithFallback(S) \subseteq S
BY DEF SelectWithFallback, Select, LeastBad, Best

\* The steps of a read.
LEMMA ReadsKeep ==
    ASSUME HealthInv, (\E o \in Origins : ReadFrom(o)) \/ ReadStep
    PROVE  HealthInv'
<1>1. ASSUME NEW path \in Origins, ReadFrom(path)
      PROVE  HealthInv'
  <2>1. ASSUME NEW o \in Origins, TryingAt(o)'
        PROVE  o \in registered
    <3>1. /\ \E q \in Candidates(path) : IsHealthy(q)
          /\ read' = Trying(path, path, FALSE, path \in registered)
      BY <1>1, <2>1 DEF ReadFrom, Reading, TryingAt
    <3> QED
      BY <2>1, <3>1 DEF Candidates, Trying, TryingAt
  <2> QED
    BY <1>1, <2>1, ReadKeeps DEF ReadFrom, Reading
<1>2. CASE Fallback
  <2>1. ASSUME NEW o \in Origins, TryingAt(o)'
        PROVE  o \in registered
    <3> DEFINE selected == SelectWithFallback(Candidates(read.path))
    <3>0. \/ \E q \in selected : read' = Trying(read.path, q, TRUE, read.there)
          \/ read' = Ended("no_origin")
      BY <1>2 DEF Fallback, Reading
    <3> HIDE DEF selected
    <3>3. read' # Ended("no_origin")
      BY <2>1 DEF TryingAt, Ended
    <3>1. PICK q \in selected : read' = Trying(read.path, q, TRUE, read.there)
      BY <3>0, <3>3
    <3>2. q \in registered
      BY SelectedAreCandidates DEF Candidates, selected
    <3> QED
      BY <2>1, <3>1, <3>2 DEF Trying, TryingAt
  <2> QED
    BY <1>2, <2>1, ReadKeeps DEF Fallback, Reading
<1>3. CASE ReadData
  <2>1. \A o \in Origins : ~TryingAt(o)'
    BY <1>3 DEF ReadData, Reading, Ended, TryingAt
  <2>2. \A o \in timed' : o \in timed \/ TryingAt(o)
    BY <1>3 DEF ReadData, TryingAt
  <2> QED
    BY <1>3, <2>1, <2>2, ReadKeeps DEF ReadData, Reading
<1>4. CASE ReadFails
  <2>1. read.pc = "try" /\ read' = NextTry
    BY <1>4 DEF ReadFails, Reading
  <2>2. \A o \in Origins : TryingAt(o)' => TryingAt(o)
    BY <2>1 DEF NextTry, Ended, TryingAt
  <2> QED
    BY <1>4, <2>2, ReadKeeps DEF ReadFails, Reading
<1> QED
  BY <1>1, <1>2, <1>3, <1>4 DEF ReadStep

\* Every step keeps the invariant.
LEMMA HealthStep ==
    ASSUME HealthInv, [Next]_vars
    PROVE  HealthInv'
<1>1. ASSUME NEW o \in Movable, Register(o) \/ Unregister(o)
      PROVE  HealthInv'
  BY <1>1, RegisterKeeps, UnregisterKeeps, OriginHealthAssumption
<1>2. CASE CheckAll
  BY <1>2, AskKeeps DEF CheckAll, Tasks
<1>3. ASSUME NEW o \in Origins, CheckNow(o)
      PROVE  HealthInv'
  BY <1>3, AskKeeps DEF CheckNow, Tasks
<1>4. ASSUME NEW o \in Origins, NEW t \in Tasks, Checks(t, o)
      PROVE  HealthInv'
  BY <1>4, CheckKeeps
<1>5. CASE (\E o \in Origins : ReadFrom(o)) \/ ReadStep
  BY <1>5, ReadsKeep
<1>6. CASE \/ Stop
           \/ \E o \in Watched : \E to \in Conditions(o) : Turn(o, to)
           \/ UNCHANGED vars
  <2>1. UNCHANGED <<registry, state, check, published, read, overtaken>>
    BY <1>6 DEF Stop, Turn, Monitoring, monitor, vars
  <2> QED
    BY <2>1 DEF HealthInv, Shape, AdminOK, LeftOK, Checking, TryingAt, registry
<1> QED
  BY <1>1, <1>2, <1>3, <1>4, <1>5, <1>6 DEF Next

\* The inductive invariant: how far a register or unregister has come tells
\* in which of the maps the origin is.
THEOREM HealthInvariance == Spec => []HealthInv
<1>1. Init => HealthInv
  BY DEF Init, HealthInv, Shape, AdminOK, LeftOK, Checking, TryingAt, Unchecked
<1>2. HealthInv /\ [Next]_vars => HealthInv'
  BY HealthStep
<1> QED
  BY <1>1, <1>2, PTL DEF Spec

\* A read never finds an origin in the registry that the monitor does not
\* know: register enters it there last, unregister takes it out first.
THEOREM RegisteredStaysMonitored == Spec => []RegisteredIsMonitored
<1>1. HealthInv => RegisteredIsMonitored
  BY DEF HealthInv, AdminOK, Shape, RegisteredIsMonitored
<1> QED
  BY <1>1, HealthInvariance, PTL

\* unregister leaves no entry behind in any map, however checks, reads and
\* the unregistering of others interleave, unless one was under way.
THEOREM NothingStaysBehind == Spec => []NothingLeftBehind
<1>1. HealthInv => NothingLeftBehind
  BY DEF HealthInv, LeftOK, NothingLeftBehind
<1> QED
  BY <1>1, HealthInvariance, PTL

----------------------------------------------------------------------------
(* What the events said.                                                   *)

\* An origin that is not muddled: what was published of it is what its state
\* says, at most one task is at it, and what that task saw before it locks the
\* entry is still so.
Telling(o) ==
    /\ published[o] = IsHealthy(o)
    /\ \A t, u \in Tasks : check[t][o].pc # "idle" /\ check[u][o].pc # "idle" => t = u
    /\ \A t \in Tasks : check[t][o].pc = "peeked" =>
         check[t][o].was \in BOOLEAN /\ check[t][o].was = IsHealthy(o)

TellInv == \A o \in Origins \ muddled : Telling(o)

\* What it takes of a step for an origin to stay so: nothing of it changes.
SameTelling(o) ==
    /\ o \in muddled' <=> o \in muddled
    /\ published'[o] = published[o] /\ IsHealthy(o)' = IsHealthy(o)
    /\ \A t \in Tasks : check'[t][o] = check[t][o]

LEMMA SameTells ==
    ASSUME TellInv, NEW o \in Origins \ muddled', SameTelling(o)
    PROVE  Telling(o)'
<1>1. Telling(o)
  BY DEF TellInv, SameTelling
<1> HIDE DEF IsHealthy
<1> QED
  BY <1>1 DEF SameTelling, Telling

\* register and unregister set a state that is not healthy, or take it away.
LEMMA RestateTells ==
    ASSUME Shape, TellInv, NEW o \in Origins, NEW new, Restate(o, new),
           \A p \in Origins \ {o} : p \in DOMAIN new <=> p \in DOMAIN state,
           \A p \in DOMAIN state \ {o} : new[p] = state[p],
           ~(o \in DOMAIN new /\ new[o].status = "Healthy")
    PROVE  TellInv'
<1> SUFFICES ASSUME NEW p \in Origins \ muddled'
             PROVE  Telling(p)'
  BY DEF TellInv
<1>1. state' = new /\ UNCHANGED <<check, published>>
  BY DEF Restate
<1>2. muddled \subseteq muddled'
  BY DEF Restate
<1>3. CASE p = o
  <2>1. ~Checking(o) /\ ~published[o]
    BY <1>3 DEF Restate
  <2>2. published[o] = FALSE
    BY <2>1 DEF Shape
  <2>3. IsHealthy(o)' = FALSE
    BY <1>1 DEF IsHealthy
  <2> QED
    BY <1>1, <1>3, <2>1, <2>2, <2>3 DEF Telling, Checking
<1>4. CASE p # o
  <2>1. IsHealthy(p)' = IsHealthy(p)
    BY <1>1, <1>4 DEF IsHealthy
  <2>2. p \in muddled' <=> p \in muddled
    BY <1>4 DEF Restate
  <2> QED
    BY <1>1, <2>1, <2>2, SameTells DEF SameTelling
<1> QED
  BY <1>3, <1>4

\* A round of checks: what is checked already is muddled from then on.
LEMMA AskTells ==
    ASSUME Shape, TellInv, NEW t \in Tasks, NEW asked, Ask(t, asked)
    PROVE  TellInv'
<1> SUFFICES ASSUME NEW o \in Origins \ muddled'
             PROVE  Telling(o)'
  BY DEF TellInv
<1>1. /\ \A p \in Origins : check[t][p] = Unchecked
      /\ check' = [check EXCEPT ![t] = [p \in Origins |->
                     IF p \in asked THEN [pc |-> "asked"] ELSE Unchecked]]
      /\ muddled' = muddled \cup {p \in asked : Checking(p)}
      /\ UNCHANGED <<state, published>>
  BY DEF Ask
<1>2. IsHealthy(o)' = IsHealthy(o)
  BY <1>1 DEF IsHealthy
<1>3. o \notin muddled /\ Telling(o)
  BY <1>1 DEF TellInv
<1>4. \A u \in Tasks \ {t} : check'[u][o] = check[u][o]
  BY <1>1 DEF Shape
<1>5. CASE o \in asked
  <2>1. check'[t][o] = [pc |-> "asked"]
    BY <1>1, <1>5 DEF Shape
  <2>2. \A u \in Tasks : check[u][o].pc = "idle"
    BY <1>1, <1>5 DEF Checking
  <2>3. \A u \in Tasks \ {t} : check'[u][o].pc = "idle"
    BY <1>4, <2>2
  <2> HIDE DEF IsHealthy
  <2> QED
    BY <1>1, <1>2, <1>3, <2>1, <2>3 DEF Telling
<1>6. CASE o \notin asked
  <2>1. check'[t][o] = check[t][o]
    BY <1>1, <1>6 DEF Shape
  <2>2. o \in muddled' <=> o \in muddled
    BY <1>3
  <2> QED
    BY <1>1, <1>2, <1>4, <2>1, <2>2, SameTells DEF SameTelling
<1> QED
  BY <1>5, <1>6

\* The end of a check: the event it sends, or does not send, leaves what was
\* published true, if no other check of the origin is under way.
LEMMA RecordTells ==
    ASSUME Shape, TellInv, NEW t \in Tasks, NEW o \in Origins, Record(t, o),
           o \notin muddled'
    PROVE  Telling(o)'
<1> DEFINE now == state'[o].status = "Healthy"
           told == Tell(o, check[t][o].was, now)
           alone == \A u \in Tasks \ {t} : check[u][o].pc = "idle"
<1>1. /\ check[t][o].pc = "peeked"
      /\ state' = Insert(state, o, Judged(o, check[t][o].status))
      /\ published' = [published EXCEPT ![o] = told]
      /\ muddled' = IF told = now /\ alone THEN muddled \ {o} ELSE muddled
      /\ check' = [check EXCEPT ![t][o] = Unchecked]
  BY DEF Record
<1>2. IsHealthy(o)' = now
  BY <1>1 DEF IsHealthy, Insert
<1>3. now \in BOOLEAN
  OBVIOUS
<1> HIDE DEF now
<1>4. told = now /\ alone
  <2>1. CASE o \in muddled
    <3> HIDE DEF told, alone
    <3> QED
      BY <1>1, <2>1
  <2>2. CASE o \notin muddled
    <3>1. Telling(o)
      BY <2>2 DEF TellInv
    <3>2. alone
      BY <1>1, <3>1 DEF Telling
    <3>3. check[t][o].was = published[o]
      BY <1>1, <3>1 DEF Telling
    <3>4. told = now
      BY <3>3 DEF Tell
    <3> QED
      BY <3>2, <3>4
  <2> QED
    BY <2>1, <2>2
<1>5. published'[o] = told
  BY <1>1 DEF Shape
<1>6. published'[o] = IsHealthy(o)'
  BY <1>2, <1>4, <1>5
<1>7. \A u \in Tasks : check'[u][o].pc = "idle"
  BY <1>1, <1>4 DEF Shape, Unchecked
<1> QED
  BY <1>6, <1>7 DEF Telling

\* The steps of a check.
LEMMA CheckTells ==
    ASSUME Shape, TellInv, NEW t \in Tasks, NEW o \in Origins, Checks(t, o)
    PROVE  TellInv'
<1> SUFFICES ASSUME NEW p \in Origins \ muddled'
             PROVE  Telling(p)'
  BY DEF TellInv
<1>1. CASE p # o
  <2>1. /\ \E k : check' = [check EXCEPT ![t][o] = k]
        /\ p \in muddled' <=> p \in muddled
        /\ published'[p] = published[p]
    BY <1>1 DEF Checks, Hear, Peek, Record, Shape
  <2>2. \A u \in Tasks : check'[u][p] = check[u][p]
    BY <1>1, <2>1 DEF Shape
  <2>3. \/ state' = state
        \/ \E x : state' = Insert(state, o, x)
    BY DEF Checks, Hear, Peek, Record
  <2>4. IsHealthy(p)' = IsHealthy(p)
    BY <1>1, <2>3 DEF IsHealthy, Insert
  <2> QED
    BY <2>1, <2>2, <2>4, SameTells DEF SameTelling
<1>2. CASE p = o /\ Record(t, o)
  BY <1>2, RecordTells
<1>3. CASE p = o /\ (Hear(t, o) \/ Peek(t, o))
  <2>1. /\ muddled' = muddled /\ published' = published /\ state' = state
        /\ check[t][o].pc # "idle"
    BY <1>3 DEF Hear, Peek
  <2>2. Telling(o) /\ IsHealthy(o)' = IsHealthy(o)
    BY <1>3, <2>1 DEF TellInv, IsHealthy
  <2>3. \A u \in Tasks \ {t} : check'[u][o] = check[u][o] /\ check[u][o].pc = "idle"
    BY <1>3, <2>1, <2>2 DEF Hear, Peek, Shape, Telling
  <2>4. IsHealthy(o) \in BOOLEAN
    BY DEF IsHealthy
  <2>5. \/ check'[t][o].pc = "heard"
        \/ check'[t][o].pc = "peeked" /\ check'[t][o].was = IsHealthy(o)
    BY <1>3 DEF Hear, Peek, Shape
  <2> HIDE DEF IsHealthy
  <2> QED
    BY <1>3, <2>1, <2>2, <2>3, <2>4, <2>5 DEF Telling
<1> QED
  BY <1>1, <1>2, <1>3 DEF Checks

\* Every step keeps what the events told true.
LEMMA TellStep ==
    ASSUME Shape, TellInv, [Next]_vars
    PROVE  TellInv'
<1>1. ASSUME NEW o \in Movable, AddState(o) \/ RemoveState(o)
      PROVE  TellInv'
  <2>1. o \in Origins
    BY OriginHealthAssumption
  <2>2. CASE AddState(o)
    <3> DEFINE new == Insert(state, o, Fresh)
    <3>1. Restate(o, new)
      BY <2>2 DEF AddState
    <3>2. DOMAIN new = DOMAIN state \cup {o} /\ new[o] = Fresh
      BY DEF Insert
    <3>3. \A p \in DOMAIN state \ {o} : new[p] = state[p]
      BY DEF Insert
    <3> HIDE DEF new
    <3> QED
      BY <2>1, <3>1, <3>2, <3>3, RestateTells DEF Fresh
  <2>3. CASE RemoveState(o)
    <3> DEFINE new == WithoutState(o)
    <3>1. Restate(o, new)
      BY <2>3 DEF RemoveState
    <3>2. DOMAIN new = DOMAIN state \ {o} /\ \A p \in DOMAIN state \ {o} : new[p] = state[p]
      BY DEF WithoutState, Remove
    <3> HIDE DEF new
    <3> QED
      BY <2>1, <3>1, <3>2, RestateTells
  <2> QED
    BY <1>1, <2>2, <2>3
<1>2. CASE CheckAll
  BY <1>2, AskTells DEF CheckAll, Tasks
<1>3. ASSUME NEW o \in Origins, CheckNow(o)
      PROVE  TellInv'
  BY <1>3, AskTells DEF CheckNow, Tasks
<1>4. ASSUME NEW o \in Origins, NEW t \in Tasks, Checks(t, o)
      PROVE  TellInv'
  BY <1>4, CheckTells
<1>5. CASE UNCHANGED <<state, check, published, muddled>>
  BY <1>5 DEF TellInv, Telling, IsHealthy
<1>6. ASSUME \/ \E o \in Movable : \/ SetPriority(o) \/ AddOrigin(o) \/ EnterRegistry(o)
                                   \/ LeaveRegistry(o) \/ RemovePriority(o) \/ RemoveOrigin(o)
             \/ Stop \/ UNCHANGED vars
             \/ \E o \in Origins : ReadFrom(o)
             \/ ReadStep
             \/ \E o \in Watched : \E to \in Conditions(o) : Turn(o, to)
      PROVE  UNCHANGED <<state, check, published, muddled>>
  BY <1>6 DEF SetPriority, AddOrigin, EnterRegistry, LeaveRegistry, RemovePriority,
              RemoveOrigin, Stop, ReadFrom, ReadStep, Fallback, ReadData, ReadFails, Reading,
              Turn, monitor, vars
<1> QED
  BY <1>1, <1>2, <1>3, <1>4, <1>5, <1>6 DEF Next, Register, Unregister

\* A subscriber that heard every OriginHealthChanged knows which origins are
\* healthy, however the monitor's loop, check_now and the registering of
\* others interleave, but for those whose checks overlapped or whose state was
\* reset without an event.
THEOREM EventsTold == Spec => []EventsTellTheStatus
<1>1. Init => TellInv
  <2> SUFFICES ASSUME Init, NEW o \in Origins
               PROVE  Telling(o)
    BY DEF TellInv
  <2>1. ~IsHealthy(o)
    BY DEF Init, IsHealthy, Fresh
  <2>2. published[o] = FALSE /\ \A t \in Tasks : check[t][o].pc = "idle"
    BY DEF Init, Unchecked
  <2> QED
    BY <2>1, <2>2 DEF Telling, IsHealthy
<1>2. Shape /\ TellInv /\ [Next]_vars => TellInv'
  BY TellStep
<1>3. HealthInv => Shape
  BY DEF HealthInv
<1>4. TellInv => EventsTellTheStatus
  BY DEF TellInv, Telling, EventsTellTheStatus
<1> QED
  BY <1>1, <1>2, <1>3, <1>4, HealthInvariance, PTL DEF Spec

----------------------------------------------------------------------------
(* Whom a read finds.                                                      *)

Judgement == [status : {"Unknown", "Healthy", "Degraded", "Unhealthy"}, failures : Nat]

\* While the origin of a read has stayed registered (read.there), the
\* fallback will find it.
FindInv ==
    /\ \A o \in DOMAIN state : state[o] \in Judgement
    /\ {"pc", "there"} \subseteq DOMAIN read
    /\ read.pc = "fallback" =>
         /\ "path" \in DOMAIN read /\ read.path \in Origins
         /\ read.there => read.path \in registered
    /\ read.pc = "idle" => "answer" \in DOMAIN read
    /\ ReadsFindTheirOrigin

\* An origin that is alone to serve a path is chosen, however bad it is.
LEMMA AloneIsSelected ==
    ASSUME NEW o \in Origins, \A p \in DOMAIN state : state[p] \in Judgement
    PROVE  SelectWithFallback({o}) # {}
<1>1. PriorityOf(o) \in Int
  BY OriginHealthAssumption DEF PriorityOf
<1> HIDE DEF PriorityOf
<1>2. \A S \in {{o}} : Best(S) = {o}
  BY <1>1 DEF Best
<1>3. CASE IsHealthy(o)
  <2>1. {p \in {o} : IsHealthy(p)} = {o}
    BY <1>3
  <2> QED
    BY <1>2, <2>1 DEF SelectWithFallback, Select
<1>4. CASE ~IsHealthy(o) /\ IsDegraded(o)
  <2>1. {p \in {o} : IsDegraded(p)} = {o}
    BY <1>4
  <2> QED
    BY <1>2, <2>1 DEF SelectWithFallback, Select
<1>5. CASE ~IsHealthy(o) /\ ~IsDegraded(o)
  <2>1. {p \in {o} : IsHealthy(p)} = {} /\ {p \in {o} : IsDegraded(p)} = {}
    BY <1>5
  <2>2. LeastBad({o}) = {o}
    <3>1. CASE o \in DOMAIN state
      <4>1. state[o].failures <= state[o].failures
        BY <3>1 DEF Judgement
      <4>2. {o} \cap DOMAIN state = {o}
        BY <3>1
      <4>3. {p \in {o} : \A q \in {o} : state[p].failures <= state[q].failures} = {o}
        BY <4>1
      <4> QED
        BY <1>2, <4>2, <4>3 DEF LeastBad
    <3>2. CASE o \notin DOMAIN state
      BY <1>2, <3>2 DEF LeastBad
    <3> QED
      BY <3>1, <3>2
  <2>3. Select({o}) = {}
    BY <2>1 DEF Select, Best
  <2> QED
    BY <2>1, <2>2, <2>3 DEF SelectWithFallback
<1> QED
  BY <1>3, <1>4, <1>5

\* What a check concludes is a status and a number of failures.
LEMMA JudgedIsJudgement ==
    ASSUME NEW o \in Origins, NEW status,
           \A p \in DOMAIN state : state[p] \in Judgement
    PROVE  Judged(o, status) \in Judgement
<1> DEFINE old == IF o \in DOMAIN state THEN state[o] ELSE Fresh
           failures == IF old.failures < Threshold[o] THEN old.failures + 1 ELSE old.failures
<1>1. old \in Judgement
  BY DEF Fresh, Judgement
<1>2. failures \in Nat
  BY <1>1 DEF Judgement
<1>3. [old EXCEPT !.status = "Degraded"] \in Judgement
  BY <1>1 DEF Judgement
<1>4. Judged(o, status) =
        CASE status = "Healthy"  -> [status |-> "Healthy", failures |-> 0]
          [] status = "Degraded" -> [old EXCEPT !.status = "Degraded"]
          [] OTHER -> [status |-> IF failures >= Threshold[o] THEN "Unhealthy" ELSE "Degraded",
                       failures |-> failures]
  BY DEF Judged
<1> HIDE DEF old, failures
<1> QED
  BY <1>2, <1>3, <1>4 DEF Judgement

\* The states of the origins stay judgements.
LEMMA StateStep ==
    ASSUME \A o \in DOMAIN state : state[o] \in Judgement, [Next]_vars
    PROVE  \A o \in DOMAIN state' : state'[o] \in Judgement
<1>1. ASSUME NEW o \in Movable, AddState(o) \/ RemoveState(o)
      PROVE  \A p \in DOMAIN state' : state'[p] \in Judgement
  BY <1>1 DEF AddState, RemoveState, Restate, Insert, WithoutState, Remove, Fresh, Judgement
<1>2. ASSUME NEW o \in Origins, NEW t \in Tasks, Record(t, o)
      PROVE  \A p \in DOMAIN state' : state'[p] \in Judgement
  <2>1. state' = Insert(state, o, Judged(o, check[t][o].status))
    BY <1>2 DEF Record
  <2>2. Judged(o, check[t][o].status) \in Judgement
    BY JudgedIsJudgement
  <2> HIDE DEF Judgement
  <2> QED
    BY <2>1, <2>2 DEF Insert
<1>3. \/ state' = state
      \/ \E o \in Movable : AddState(o) \/ RemoveState(o)
      \/ \E o \in Origins, t \in Tasks : Record(t, o)
  BY DEF Next, Register, Unregister, SetPriority, AddOrigin, EnterRegistry, LeaveRegistry,
         RemovePriority, RemoveOrigin, CheckAll, CheckNow, Ask, Checks, Hear, Peek, Stop,
         ReadFrom, ReadStep, Fallback, ReadData, ReadFails, Reading, Turn, monitor, vars
<1> QED
  BY <1>1, <1>2, <1>3

\* The steps that leave the registry and the read alone, or enter an origin.
LEMMA FindKept ==
    ASSUME FindInv, \A o \in DOMAIN state' : state'[o] \in Judgement,
           read' = read, registered \subseteq registered'
    PROVE  FindInv'
BY DEF FindInv, ReadsFindTheirOrigin

\* The steps of a read: NoOriginAvailable only when no origin serves the path.
LEMMA ReadFinds ==
    ASSUME FindInv, \A o \in DOMAIN state' : state'[o] \in Judgement,
           (\E o \in Origins : ReadFrom(o)) \/ ReadStep
    PROVE  FindInv'
<1>1. registered' = registered
  BY DEF ReadFrom, ReadStep, Fallback, ReadData, ReadFails, Reading
<1>2. CASE \E o \in Origins : ReadFrom(o)
  <2>1. PICK o \in Origins :
          \/ read' = Trying(o, o, FALSE, o \in registered)
          \/ read' = [pc |-> "fallback", path |-> o, there |-> o \in registered]
    BY <1>2 DEF ReadFrom, Reading
  <2> DEFINE there == o \in registered
  <2>2. /\ {"pc", "there"} \subseteq DOMAIN read' /\ read'.pc \in {"try", "fallback"}
        /\ read'.pc = "fallback" =>
             "path" \in DOMAIN read' /\ read'.path = o /\ read'.there = there
    BY <2>1 DEF Trying
  <2> QED
    BY <1>1, <2>2 DEF FindInv, ReadsFindTheirOrigin
<1>3. CASE Fallback
  <2> DEFINE selected == SelectWithFallback(Candidates(read.path))
  <2>1. /\ read.pc = "fallback"
        /\ \/ \E o \in selected : read' = Trying(read.path, o, TRUE, read.there)
           \/ selected = {} /\ read' = Ended("no_origin")
    BY <1>3 DEF Fallback, Reading
  <2>2. read.there => selected # {}
    <3>1. ASSUME read.there
          PROVE  Candidates(read.path) = {read.path} /\ read.path \in Origins
      BY <2>1, <3>1 DEF Candidates, FindInv
    <3> QED
      BY <3>1, AloneIsSelected DEF FindInv
  <2> HIDE DEF selected
  <2> QED
    BY <1>1, <2>1, <2>2 DEF FindInv, ReadsFindTheirOrigin, Trying, Ended
<1>4. CASE ReadData
  BY <1>1, <1>4 DEF ReadData, Reading, Ended, FindInv, ReadsFindTheirOrigin
<1>5. CASE ReadFails
  <2>1. read.pc = "try" /\ read' = NextTry
    BY <1>5 DEF ReadFails, Reading
  <2>2. CASE read' = Ended("error")
    BY <2>2 DEF Ended, FindInv, ReadsFindTheirOrigin
  <2>3. CASE read' # Ended("error")
    <3>1. DOMAIN read' = DOMAIN read /\ read'.pc = "try"
      BY <2>1, <2>3 DEF NextTry, FindInv
    <3> QED
      BY <3>1 DEF FindInv, ReadsFindTheirOrigin
  <2> QED
    BY <2>2, <2>3
<1> QED
  BY <1>2, <1>3, <1>4, <1>5 DEF ReadStep

\* Every step lets a read find what stays registered.
LEMMA FindStep ==
    ASSUME FindInv, [Next]_vars
    PROVE  FindInv'
<1>1. \A o \in DOMAIN state' : state'[o] \in Judgement
  BY StateStep DEF FindInv
<1>2. CASE (\E o \in Origins : ReadFrom(o)) \/ ReadStep
  BY <1>1, <1>2, ReadFinds DEF FindInv
<1>3. ASSUME NEW o \in Movable, LeaveRegistry(o)
      PROVE  FindInv'
  <2>1. /\ registered' = registered \ {o}
        /\ read' = [read EXCEPT !.there = @ /\ (read.pc = "idle" \/ read.path # o)]
    BY <1>3 DEF LeaveRegistry, Unlist
  <2> DEFINE k == read.there /\ (read.pc = "idle" \/ read.path # o)
  <2>2. read' = [read EXCEPT !.there = k]
    BY <2>1
  <2>3. k => read.there /\ (read.pc = "idle" \/ read.path # o)
    OBVIOUS
  <2> HIDE DEF k
  <2>4. /\ DOMAIN read' = DOMAIN read /\ read'.there = k /\ read'.pc = read.pc
        /\ "path" \in DOMAIN read => read'.path = read.path
        /\ "answer" \in DOMAIN read => read'.answer = read.answer
    BY <2>2 DEF FindInv
  <2> QED
    BY <1>1, <2>1, <2>3, <2>4 DEF FindInv, ReadsFindTheirOrigin
<1>4. CASE UNCHANGED <<registered, read>>
  BY <1>1, <1>4, FindKept
<1>5. ASSUME NEW o \in Movable, EnterRegistry(o)
      PROVE  FindInv'
  BY <1>1, <1>5, FindKept DEF EnterRegistry
<1>6. \/ (\E o \in Origins : ReadFrom(o)) \/ ReadStep
      \/ \E o \in Movable : LeaveRegistry(o) \/ EnterRegistry(o)
      \/ UNCHANGED <<registered, read>>
  BY DEF Next, Register, Unregister, SetPriority, AddOrigin, AddState, RemovePriority,
         RemoveOrigin, RemoveState, CheckAll, CheckNow, Ask, Checks, Hear, Peek, Record, Stop,
         Monitoring, Turn, registry, vars
<1> QED
  BY <1>2, <1>3, <1>4, <1>5, <1>6

\* A read is only told that there is no origin when its origin was
\* unregistered: one that is unhealthy, or was never checked, is tried.
THEOREM RegisteredOriginIsTried == Spec => []ReadsFindTheirOrigin
<1>1. Init => FindInv
  <2>1. Fresh \in Judgement
    BY DEF Fresh, Judgement
  <2> QED
    BY <2>1 DEF Init, FindInv, ReadsFindTheirOrigin
<1>2. FindInv /\ [Next]_vars => FindInv'
  BY FindStep
<1>3. FindInv => ReadsFindTheirOrigin
  BY DEF FindInv
<1> QED
  BY <1>1, <1>2, <1>3, PTL DEF Spec

=============================================================================
