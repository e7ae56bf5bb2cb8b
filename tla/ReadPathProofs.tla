--------------------------- MODULE ReadPathProofs ---------------------------
(***************************************************************************)
(* Theorems about ReadPath: what a read answers with is right, for any     *)
(* number of prefetchers, files, chunks and versions, whatever the store   *)
(* is put through, as long as chunks are verified; and in calm reads go on *)
(* failing no longer than they must.  Theorems about CasStore: the counter *)
(* covers what is on the disk, and the limit is exceeded by no more than   *)
(* the tasks have in hand.                                                 *)
(***************************************************************************)
EXTENDS ReadPath, FiniteSetTheorems, TLAPS

----------------------------------------------------------------------------
(* The store.                                                              *)

\* Every worker has a call and a reply, and a call a place.
StoreShape ==
    /\ DOMAIN call = Workers /\ DOMAIN reply = Workers
    /\ \A w \in Workers : "pc" \in DOMAIN call[w]

\* A step of the store begins no get, and ends one, if at all, with a chunk
\* that was verified.
GetsGoOn(w) ==
    /\ call'[w].pc = "read" => call'[w] = call[w]
    /\ reply'[w].is = "data" =>
         \/ reply'[w] = reply[w]
         \/ /\ call[w].pc = "read" /\ reply'[w].chunk = call[w].chunk
            /\ reply'[w].units = Units

StoreGoesOn == StoreShape' /\ \A w \in Workers : GetsGoOn(w)

\* A call that returns, with anything but data.
LEMMA ReturnGoesOn ==
    ASSUME StoreShape, NEW w \in Workers, NEW r, Return(w, r), r.is # "data"
    PROVE  StoreGoesOn
BY DEF StoreShape, Return, NoCall, StoreGoesOn, GetsGoOn

\* A call that moves on.
LEMMA GotoGoesOn ==
    ASSUME StoreShape, NEW w \in Workers, NEW pc, pc # "read", Goto(w, pc)
    PROVE  StoreGoesOn
BY DEF StoreShape, Goto, StoreGoesOn, GetsGoOn

\* A call that becomes another, with no reply yet.
LEMMA MoveGoesOn ==
    ASSUME StoreShape, NEW w \in Workers, NEW k, "pc" \in DOMAIN k, k.pc # "read",
           call' = [call EXCEPT ![w] = k], UNCHANGED reply
    PROVE  StoreGoesOn
BY DEF StoreShape, StoreGoesOn, GetsGoOn

\* A file unlinked under those who write to it.
LEMMA UnlinkGoesOn ==
    ASSUME StoreShape, NEW c, NEW calls, DOMAIN calls = Workers,
           \A w \in Workers : /\ "pc" \in DOMAIN calls[w]
                              /\ calls[w].pc = "read" => calls[w] = call[w],
           call' = [w \in Workers |-> Unlinked(calls[w], c)], UNCHANGED reply
    PROVE  StoreGoesOn
<1>1. ASSUME NEW w \in Workers
      PROVE  /\ "pc" \in DOMAIN Unlinked(calls[w], c)
             /\ Unlinked(calls[w], c).pc = calls[w].pc
             /\ calls[w].pc = "read" => Unlinked(calls[w], c) = calls[w]
  BY DEF Unlinked, Writing
<1> QED
  BY <1>1 DEF StoreShape, StoreGoesOn, GetsGoOn

\* Every step of a call.
LEMMA StepGoesOn ==
    ASSUME StoreShape, MaxSize # 0, NEW w \in Workers, Step(w)
    PROVE  StoreGoesOn
<1>1. CASE PutLimit(w)
  BY <1>1, GotoGoesOn, ReturnGoesOn DEF PutLimit
<1>2. CASE PutOpen(w)
  <2> DEFINE k == Writer(call[w].chunk)
  <2>1. call' = [call EXCEPT ![w] = k] /\ UNCHANGED reply
    BY <1>2 DEF PutOpen
  <2>2. "pc" \in DOMAIN k /\ k.pc # "read"
    BY DEF Writer
  <2> HIDE DEF k
  <2> QED
    BY <2>1, <2>2, MoveGoesOn
<1>3. CASE PutWrite(w)
  <2>1. CASE Goto(w, "index")
    BY <2>1, GotoGoesOn
  <2>2. ASSUME NEW units, call' = [call EXCEPT ![w].left = @ \ units], UNCHANGED reply,
               call[w].pc = "write"
        PROVE  StoreGoesOn
    <3> DEFINE k == [call[w] EXCEPT !.left = @ \ units]
    <3>1. call' = [call EXCEPT ![w] = k] /\ "pc" \in DOMAIN k /\ k.pc = "write"
      BY <2>2 DEF StoreShape
    <3> QED
      BY <2>2, <3>1, MoveGoesOn
  <2> QED
    BY <1>3, <2>1, <2>2 DEF PutWrite
<1>4. CASE PutIndex(w) \/ DeleteUnindex(w)
  BY <1>4, GotoGoesOn DEF PutIndex, DeleteUnindex
<1>5. CASE PutCount(w) \/ DeleteCount(w)
  BY <1>5, ReturnGoesOn DEF PutCount, DeleteCount, Ok
<1>6. CASE GetRead(w)
  <2> DEFINE c == call[w].chunk
             r == IF ~Exists(c) THEN IoError
                  ELSE IF Verified(disk[c])
                  THEN [is |-> "data", chunk |-> c, units |-> disk[c]]
                  ELSE [is |-> "corrupt"]
  <2>1. call[w].pc = "read" /\ Return(w, r)
    BY <1>6 DEF GetRead
  <2>2. r.is = "data" => r.chunk = c /\ r.units = Units
    BY DEF IoError, Verified
  <2> HIDE DEF r
  <2> QED
    BY <2>1, <2>2 DEF Return, StoreShape, NoCall, StoreGoesOn, GetsGoOn
<1>7. CASE DeleteMetadata(w)
  <2> DEFINE k == [pc |-> "remove", chunk |-> call[w].chunk,
                   length |-> Length(disk[call[w].chunk])]
  <2>1. CASE call' = [call EXCEPT ![w] = k] /\ UNCHANGED reply
    <3>1. "pc" \in DOMAIN k /\ k.pc # "read"
      OBVIOUS
    <3> HIDE DEF k
    <3> QED
      BY <2>1, <3>1, MoveGoesOn
  <2>2. CASE Return(w, IoError)
    BY <2>2, ReturnGoesOn DEF IoError
  <2> QED
    BY <1>7, <2>1, <2>2 DEF DeleteMetadata
<1>8. CASE DeleteRemove(w)
  <2> DEFINE calls == [call EXCEPT ![w].pc = "unindex"]
  <2>1. CASE Unlink(call[w].chunk, calls) /\ UNCHANGED reply
    <3>1. /\ DOMAIN calls = Workers
          /\ \A v \in Workers : /\ "pc" \in DOMAIN calls[v]
                                /\ calls[v].pc = "read" => calls[v] = call[v]
      BY DEF StoreShape
    <3> HIDE DEF calls
    <3> QED
      BY <2>1, <3>1, UnlinkGoesOn DEF Unlink
  <2>2. CASE Return(w, IoError)
    BY <2>2, ReturnGoesOn DEF IoError
  <2> QED
    BY <1>8, <2>1, <2>2 DEF DeleteRemove
<1>9. CASE CallFails(w)
  BY <1>9, ReturnGoesOn DEF CallFails, IoError
<1>10. CASE Timeout(w)
  BY <1>10, ReturnGoesOn DEF Timeout, TimedOut
<1> QED
  BY <1>1, <1>2, <1>3, <1>4, <1>5, <1>6, <1>7, <1>8, <1>9, <1>10 DEF Step

\* What dropped calls had asked for.
LEMMA AdriftGoesOn ==
    ASSUME StoreShape, AdriftOpen \/ AdriftWrite \/ AdriftRemove
    PROVE  StoreGoesOn
<1>1. CASE AdriftOpen \/ AdriftWrite
  BY <1>1 DEF AdriftOpen, AdriftWrite, StoreShape, StoreGoesOn, GetsGoOn
<1>2. CASE AdriftRemove
  BY <1>2, UnlinkGoesOn DEF AdriftRemove, StoreShape
<1> QED
  BY <1>1, <1>2

\* A put or delete begun, or done at once.
LEMMA BeginGoesOn ==
    ASSUME StoreShape, NEW w \in Workers, NEW c, Put(w, c) \/ Delete(w, c)
    PROVE  /\ StoreGoesOn
           /\ reply'[w].is # "data" /\ call'[w].pc # "read"
           /\ \A v \in Workers \ {w} : call'[v] = call[v] /\ reply'[v] = reply[v]
BY DEF Put, Delete, Return, Begin, NoCall, NoReply, Ok, StoreShape, StoreGoesOn, GetsGoOn

----------------------------------------------------------------------------
(* The reads.                                                              *)

\* The chunk of a version the file has or had since the mount scanned it.
IsPast(f, c) == \E v \in scanned[f]..version[f] : c = ChunkOf[f][v]

VersionsOK ==
    /\ version \in [Files -> Nat] /\ scanned \in [Files -> Nat]
    /\ \A f \in Files : /\ version[f] \in 1..Len(ChunkOf[f])
                        /\ scanned[f] \in 1..version[f]

ManifestsOK == \A f \in DOMAIN manifests : f \in Files /\ IsPast(f, manifests[f])

\* A task by its place, and whatever chunk it holds is one of its file's.
Getting == [pc : {"get", "got"}, file : Files, chunk : Chunks, again : BOOLEAN]
Fetching == [pc : {"fetch"}, file : Files, known : {FALSE}]
Refetching == [pc : {"fetch", "delete"}, file : Files, known : {TRUE}, want : Chunks]
Storing == [pc : {"store", "stored"}, file : Files, known : BOOLEAN,
            fetched : Chunks, want : Chunks \cup {0}]

TaskOK(k) ==
    \/ k = NoTask
    \/ k \in Getting /\ IsPast(k.file, k.chunk)
    \/ k \in Fetching
    \/ k \in Refetching /\ IsPast(k.file, k.want)
    \/ /\ k \in Storing /\ IsPast(k.file, k.fetched)
       /\ k.known => k.want \in Chunks /\ IsPast(k.file, k.want)

\* Only the reader gets chunks, and a get under way, or data not yet looked
\* at, is of the chunk it asked for.
GetOK(w) ==
    /\ call[w].pc = "read" =>
         w = Reader /\ task[w].pc = "got" /\ call[w].chunk = task[w].chunk
    /\ reply[w].is = "data" =>
         /\ w = Reader /\ task[w].pc = "got"
         /\ reply[w].chunk = task[w].chunk /\ reply[w].units = Units

TasksOK ==
    /\ DOMAIN task = Workers
    /\ \A w \in Workers : TaskOK(task[w]) /\ GetOK(w)

AnswerOK == answer.is = "data" => answer.file \in Files

ReadInv ==
    /\ StoreShape /\ VersionsOK /\ ManifestsOK /\ TasksOK
    /\ AnswerOK /\ ReadsAreRight

\* What the origin answers with is a chunk of the file.
LEMMA VersionIsPast ==
    ASSUME VersionsOK, NEW f \in Files
    PROVE  /\ ChunkOf[f][version[f]] \in Chunks
           /\ IsPast(f, ChunkOf[f][version[f]])
<1>1. ChunkOf[f] \in Seq(Chunks) /\ version[f] \in 1..Len(ChunkOf[f])
  BY ReadPathAssumption DEF VersionsOK
<1>2. version[f] \in scanned[f]..version[f]
  BY <1>1 DEF VersionsOK
<1> QED
  BY <1>1, <1>2 DEF IsPast

\* A chunk of a file is one of the store's.
LEMMA PastIsChunk ==
    ASSUME VersionsOK, NEW f \in Files, NEW c, IsPast(f, c)
    PROVE  c \in Chunks
<1>1. ChunkOf[f] \in Seq(Chunks) /\ version[f] \in 1..Len(ChunkOf[f])
  BY ReadPathAssumption DEF VersionsOK
<1>2. PICK v \in scanned[f]..version[f] : c = ChunkOf[f][v]
  BY DEF IsPast
<1>3. v \in 1..Len(ChunkOf[f])
  BY <1>1, <1>2 DEF VersionsOK
<1> QED
  BY <1>1, <1>2, <1>3

\* Where the store goes on and nobody looks, all stays right.
LEMMA StoreKeepsReads ==
    ASSUME ReadInv, StoreGoesOn, UNCHANGED reading
    PROVE  ReadInv'
<1>1. ASSUME NEW w \in Workers
      PROVE  GetOK(w)'
  BY <1>1 DEF ReadInv, TasksOK, GetOK, StoreGoesOn, GetsGoOn, reading
<1>2. ASSUME NEW w \in Workers
      PROVE  TaskOK(task[w])'
  BY <1>2 DEF ReadInv, TasksOK, TaskOK, IsPast, reading
<1>3. StoreShape' /\ VersionsOK' /\ ManifestsOK' /\ AnswerOK' /\ ReadsAreRight'
  BY DEF ReadInv, StoreGoesOn, VersionsOK, ManifestsOK, AnswerOK, ReadsAreRight, IsPast, reading
<1> QED
  BY <1>1, <1>2, <1>3 DEF ReadInv, TasksOK, reading

\* A worker's task moves on.  Its call is done, and what it says is gone, or
\* else is of the chunk it asked for.
LEMMA TaskMoves ==
    ASSUME ReadInv, NEW w \in Workers, NEW k, task' = [task EXCEPT ![w] = k], TaskOK(k),
           StoreShape', ManifestsOK', GetOK(w)',
           \A v \in Workers \ {w} : call'[v] = call[v] /\ reply'[v] = reply[v],
           UNCHANGED <<version, scanned, answer>>
    PROVE  ReadInv'
<1>1. ASSUME NEW v \in Workers
      PROVE  TaskOK(task[v])' /\ (v # w => GetOK(v)')
  BY <1>1 DEF ReadInv, TasksOK, TaskOK, GetOK, IsPast
<1>2. VersionsOK' /\ AnswerOK' /\ ReadsAreRight'
  BY DEF ReadInv, VersionsOK, AnswerOK, ReadsAreRight
<1> QED
  BY <1>1, <1>2 DEF ReadInv, TasksOK

\* A task that is at no get has none under way.
LEMMA NoGet ==
    ASSUME ReadInv, NEW w \in Workers, task[w].pc # "got"
    PROVE  call[w].pc # "read" /\ reply[w].is # "data"
BY DEF ReadInv, TasksOK, GetOK

\* A task that ends, with data of its file or without.
LEMMA FinishKeepsReads ==
    ASSUME ReadInv, NEW w \in Workers, NEW result, Finish(w, result),
           result.is = "data" =>
             /\ task[w].file \in Files
             /\ result.units = Units /\ IsPast(task[w].file, result.chunk),
           StoreShape', call'[w].pc # "read", reply'[w].is # "data",
           \A v \in Workers \ {w} : call'[v] = call[v] /\ reply'[v] = reply[v],
           UNCHANGED <<version, scanned, manifests>>
    PROVE  ReadInv'
<1>1. task' = [task EXCEPT ![w] = NoTask]
  BY DEF Finish
<1>2. \/ answer' = answer
      \/ answer' = [is |-> "failed", file |-> task[w].file, of |-> result.is]
      \/ result.is = "data" /\ answer' = [is |-> "data", file |-> task[w].file, got |-> result,
                                             upto |-> Upto(task[w].file, result.chunk)]
  <2>1. w = Reader /\ result.is = "data" =>
          answer' = [is |-> "data", file |-> task[w].file, got |-> result,
                                             upto |-> Upto(task[w].file, result.chunk)]
    BY DEF Finish
  <2>2. w = Reader /\ result.is # "data" =>
          answer' = [is |-> "failed", file |-> task[w].file, of |-> result.is]
    BY DEF Finish
  <2>3. w # Reader => answer' = answer
    BY DEF Finish
  <2> QED
    BY <2>1, <2>2, <2>3
<1>3. ASSUME NEW v \in Workers
      PROVE  TaskOK(task[v])' /\ GetOK(v)'
  BY <1>1, <1>3 DEF ReadInv, TasksOK, TaskOK, GetOK, IsPast, NoTask
<1>4. VersionsOK' /\ ManifestsOK'
  BY DEF ReadInv, VersionsOK, ManifestsOK, IsPast
<1>5. AnswerOK' /\ ReadsAreRight'
  <2>1. CASE answer' = answer
    BY <2>1 DEF ReadInv, AnswerOK, ReadsAreRight
  <2>2. CASE answer' = [is |-> "failed", file |-> task[w].file, of |-> result.is]
    BY <2>2 DEF AnswerOK, ReadsAreRight
  <2>3. CASE /\ result.is = "data"
             /\ answer' = [is |-> "data", file |-> task[w].file, got |-> result,
                           upto |-> Upto(task[w].file, result.chunk)]
    <3> DEFINE f == task[w].file
    <3>1. PICK v \in scanned[f]..version[f] : result.chunk = ChunkOf[f][v]
      BY <2>3 DEF IsPast
    <3>2. Upto(f, result.chunk) = Min({Bytes[ChunkOf[f][scanned[f]]], Bytes[ChunkOf[f][v]]})
      BY <3>1 DEF Upto, total_size
    <3>3. /\ answer'.is = "data" /\ answer'.file = f /\ answer'.got = result
          /\ answer'.upto = Upto(f, result.chunk) /\ f \in Files /\ result.units = Units
      BY <2>3
    <3> HIDE DEF f
    <3>4. UNCHANGED <<version, scanned>>
      OBVIOUS
    <3> QED
      BY <3>1, <3>2, <3>3, <3>4 DEF AnswerOK, ReadsAreRight
  <2> QED
    BY <1>2, <2>1, <2>2, <2>3
<1> QED
  BY <1>1, <1>3, <1>4, <1>5 DEF ReadInv, TasksOK

\* A reply that is looked at is gone.
LEMMA HeardIsGone ==
    ASSUME StoreShape, NEW w \in Workers, Heard(w)
    PROVE  /\ StoreShape' /\ call' = call /\ reply'[w].is # "data"
           /\ \A v \in Workers \ {w} : reply'[v] = reply[v]
BY DEF Heard, StoreShape, NoReply

\* A read or a prefetch begins.
LEMMA StartKeepsReads ==
    ASSUME ReadInv, NEW f \in Files, Read(f) \/ \E w \in Prefetchers : Prefetch(w, f)
    PROVE  ReadInv'
<1>1. ManifestsOK' /\ StoreShape'
  BY DEF ReadInv, ManifestsOK, StoreShape, IsPast, Read, Prefetch, store
<1>2. ASSUME NEW w \in Workers, NEW k, TaskOK(k), task[w] = NoTask,
             task' = [task EXCEPT ![w] = k], UNCHANGED <<store, version, scanned, answer>>
      PROVE  ReadInv'
  <2>1. GetOK(w)'
    BY <1>2, NoGet DEF GetOK, store, NoTask
  <2> QED
    BY <1>1, <1>2, <2>1, TaskMoves DEF store
<1>3. CASE Read(f)
  <2> DEFINE k == IF f \in DOMAIN manifests
                  THEN [pc |-> "get", file |-> f, chunk |-> manifests[f], again |-> FALSE]
                  ELSE [pc |-> "fetch", file |-> f, known |-> FALSE]
  <2>1. TaskOK(k)
    BY PastIsChunk DEF TaskOK, Getting, Fetching, ReadInv, ManifestsOK
  <2> HIDE DEF k
  <2>2. /\ task[Reader] = NoTask /\ task' = [task EXCEPT ![Reader] = k]
        /\ UNCHANGED <<store, version, scanned, answer>>
    BY <1>3 DEF Read, k
  <2> QED
    BY <1>2, <2>1, <2>2, ReadPathAssumption
<1>4. ASSUME NEW w \in Prefetchers, Prefetch(w, f)
      PROVE  ReadInv'
  <2> DEFINE k == [pc |-> "fetch", file |-> f, known |-> FALSE]
  <2>1. TaskOK(k)
    BY DEF TaskOK, Fetching
  <2>2. /\ task[w] = NoTask /\ task' = [task EXCEPT ![w] = k]
        /\ UNCHANGED <<store, version, scanned, answer>>
    BY <1>4 DEF Prefetch
  <2> HIDE DEF k
  <2> QED
    BY <1>2, <2>1, <2>2 DEF Prefetchers
<1> QED
  BY <1>3, <1>4

\* The place of a task tells what it holds.
LEMMA TaskByPlace ==
    ASSUME NEW k, TaskOK(k)
    PROVE  /\ k.pc \in {"get", "got"} => k \in Getting /\ IsPast(k.file, k.chunk)
           /\ k.pc = "delete" => k \in Refetching /\ IsPast(k.file, k.want)
           /\ k.pc = "fetch" =>
                k \in Fetching \/ (k \in Refetching /\ IsPast(k.file, k.want))
           /\ k.pc \in {"store", "stored"} =>
                /\ k \in Storing /\ IsPast(k.file, k.fetched)
                /\ k.known => k.want \in Chunks /\ IsPast(k.file, k.want)
<1>1. k = NoTask => k.pc = "idle"
  BY DEF NoTask
<1>2. k \in Getting => k.pc \in {"get", "got"}
  BY DEF Getting
<1>3. k \in Fetching => k.pc = "fetch"
  BY DEF Fetching
<1>4. k \in Refetching => k.pc \in {"fetch", "delete"}
  BY DEF Refetching
<1>5. k \in Storing => k.pc \in {"store", "stored"}
  BY DEF Storing
<1>6. CASE k.pc \in {"get", "got"}
  BY <1>1, <1>3, <1>4, <1>5, <1>6 DEF TaskOK
<1>7. CASE k.pc = "delete"
  BY <1>1, <1>2, <1>3, <1>5, <1>7 DEF TaskOK
<1>8. CASE k.pc = "fetch"
  <2>1. k # NoTask /\ k \notin Getting /\ k \notin Storing
    BY <1>1, <1>2, <1>5, <1>8
  <2>2. k \in Fetching \/ (k \in Refetching /\ IsPast(k.file, k.want))
    BY <2>1 DEF TaskOK
  <2>3. k.pc \notin {"get", "got", "delete", "store", "stored"}
    BY <1>8
  <2> QED
    BY <2>2, <2>3
<1>9. CASE k.pc \in {"store", "stored"}
  BY <1>1, <1>2, <1>3, <1>4, <1>9 DEF TaskOK
<1> QED
  BY <1>6, <1>7, <1>8, <1>9

\* What a task that fetches holds.
LEMMA FetchingTask ==
    ASSUME NEW k, TaskOK(k), k.pc = "fetch"
    PROVE  /\ k.file \in Files /\ k.known \in BOOLEAN
           /\ k.known => k.want \in Chunks /\ IsPast(k.file, k.want)
<1>1. CASE k \in Fetching
  BY <1>1 DEF Fetching
<1>2. CASE k \in Refetching /\ IsPast(k.file, k.want)
  BY <1>2 DEF Refetching
<1> QED
  BY <1>1, <1>2, TaskByPlace

\* The put of what was fetched, and what is done with it then.
LEMMA StoringTask ==
    ASSUME NEW k, TaskOK(k), k.pc \in {"store", "stored"}
    PROVE  /\ k.file \in Files /\ k.known \in BOOLEAN
           /\ k.fetched \in Chunks /\ IsPast(k.file, k.fetched)
           /\ k.known => k.want \in Chunks /\ IsPast(k.file, k.want)
           /\ TaskOK([k EXCEPT !.pc = "stored"])
<1>1. /\ k \in Storing /\ IsPast(k.file, k.fetched)
      /\ k.known => k.want \in Chunks /\ IsPast(k.file, k.want)
  BY TaskByPlace
<1>2. k.file \in Files /\ k.known \in BOOLEAN /\ k.fetched \in Chunks
  BY <1>1 DEF Storing
<1> DEFINE l == [k EXCEPT !.pc = "stored"]
<1>3. l \in Storing /\ l.file = k.file /\ l.known = k.known /\ l.fetched = k.fetched
      /\ l.want = k.want
  BY <1>1 DEF Storing
<1> HIDE DEF l
<1>4. TaskOK(l)
  BY <1>1, <1>3 DEF TaskOK
<1> QED
  BY <1>1, <1>2, <1>4 DEF l

\* The fetch of a chunk, to its manifest.
LEMMA FetchKeepsReads ==
    ASSUME ReadInv, NEW w \in Workers, FetchRead(w) \/ FetchPut(w) \/ FetchDone(w)
    PROVE  ReadInv'
<1> USE DEF ReadInv
<1>1. CASE FetchRead(w)
  <2> DEFINE f == task[w].file
             k == [pc |-> "store", file |-> f, known |-> task[w].known,
                   fetched |-> ChunkOf[f][version[f]],
                   want |-> IF task[w].known THEN task[w].want ELSE 0]
  <2>1. task[w].pc = "fetch" /\ UNCHANGED <<store, version, scanned, manifests>>
    BY <1>1 DEF FetchRead
  <2>2. /\ f \in Files /\ task[w].known \in BOOLEAN
        /\ task[w].known => task[w].want \in Chunks /\ IsPast(f, task[w].want)
    BY <2>1, FetchingTask DEF TasksOK
  <2>3. StoreShape' /\ call'[w].pc # "read" /\ reply'[w].is # "data"
    BY <2>1, NoGet DEF StoreShape, store
  <2>4. TaskOK(k)
    BY <2>2, VersionIsPast DEF TaskOK, Storing
  <2>5. CASE Continue(w, k)
    BY <2>1, <2>3, <2>4, <2>5, TaskMoves DEF Continue, GetOK, ManifestsOK, IsPast, store
  <2>6. CASE Finish(w, [is |-> "origin"])
    BY <2>1, <2>2, <2>3, <2>6, FinishKeepsReads DEF store
  <2> QED
    BY <1>1, <2>5, <2>6 DEF FetchRead
<1>2. CASE FetchPut(w)
  <2> DEFINE k == [task[w] EXCEPT !.pc = "stored"]
  <2>1. /\ task[w].pc = "store" /\ Put(w, task[w].fetched)
        /\ task' = [task EXCEPT ![w] = k] /\ UNCHANGED <<version, scanned, manifests, answer>>
    BY <1>2 DEF FetchPut, Continue
  <2>2. TaskOK(k)
    BY <2>1, StoringTask DEF TasksOK
  <2>3. /\ StoreShape' /\ call'[w].pc # "read" /\ reply'[w].is # "data"
        /\ \A v \in Workers \ {w} : call'[v] = call[v] /\ reply'[v] = reply[v]
    BY <2>1, BeginGoesOn DEF StoreGoesOn
  <2> HIDE DEF k
  <2> QED
    BY <2>1, <2>2, <2>3, TaskMoves DEF GetOK, ManifestsOK, IsPast
<1>3. CASE FetchDone(w)
  <2> DEFINE f == task[w].file
             k == IF w = Reader
                  THEN [pc |-> "get", file |-> f,
                        chunk |-> IF task[w].known THEN task[w].want ELSE task[w].fetched,
                        again |-> task[w].known]
                  ELSE NoTask
  <2>1. /\ task[w].pc = "stored" /\ Heard(w) /\ UNCHANGED <<version, scanned, answer>>
        /\ task' = [task EXCEPT ![w] = k]
        /\ manifests' = Insert(manifests, f, task[w].fetched) \/ UNCHANGED manifests
    BY <1>3 DEF FetchDone, Continue
  <2>2. /\ f \in Files /\ task[w].known \in BOOLEAN
        /\ task[w].fetched \in Chunks /\ IsPast(f, task[w].fetched)
        /\ task[w].known => task[w].want \in Chunks /\ IsPast(f, task[w].want)
    BY <2>1, StoringTask DEF TasksOK
  <2>3. TaskOK(k)
    BY <2>2 DEF TaskOK, Getting
  <2>4. ManifestsOK'
    BY <2>1, <2>2 DEF ManifestsOK, Insert, IsPast
  <2>5. /\ StoreShape' /\ call' = call /\ reply'[w].is # "data" /\ call[w].pc # "read"
        /\ \A v \in Workers \ {w} : reply'[v] = reply[v]
    BY <2>1, HeardIsGone, NoGet
  <2> HIDE DEF k
  <2> QED
    BY <2>1, <2>3, <2>4, <2>5, TaskMoves DEF GetOK
<1> QED
  BY <1>1, <1>2, <1>3

\* The get of a chunk, what it says, and the deletion of a corrupt one.
LEMMA GetKeepsReads ==
    ASSUME ReadInv, GetChunk \/ GotChunk \/ Deleted
    PROVE  ReadInv'
<1> USE DEF ReadInv
<1> DEFINE k == task[Reader]
<1>1. Reader \in Workers /\ TaskOK(k)
  BY ReadPathAssumption DEF TasksOK
<1>2. UNCHANGED <<version, scanned, manifests>> => ManifestsOK'
  BY DEF ManifestsOK, IsPast
<1>3. CASE GetChunk
  <2> DEFINE l == [k EXCEPT !.pc = "got"]
  <2>1. /\ k.pc = "get" /\ call[Reader] = NoCall /\ Get(Reader, k.chunk)
        /\ task' = [task EXCEPT ![Reader] = l] /\ UNCHANGED <<version, scanned, manifests, answer>>
    BY <1>3 DEF GetChunk, Continue, Returned
  <2>2. k \in Getting /\ IsPast(k.file, k.chunk)
    BY <1>1, <2>1, TaskByPlace
  <2>3. l \in Getting /\ l.file = k.file /\ l.chunk = k.chunk /\ l.pc = "got"
    BY <2>2 DEF Getting
  <2>4. /\ call' = [call EXCEPT ![Reader] = [pc |-> "read", chunk |-> k.chunk]]
           \/ call' = [call EXCEPT ![Reader] = NoCall]
        /\ reply' = [reply EXCEPT ![Reader] = NoReply]
           \/ reply' = [reply EXCEPT ![Reader] = [is |-> "not_found"]]
    BY <2>1 DEF Get, Begin, Return
  <2>5. /\ StoreShape' /\ reply'[Reader].is # "data"
        /\ call'[Reader].pc = "read" => call'[Reader].chunk = k.chunk
        /\ \A v \in Workers \ {Reader} : call'[v] = call[v] /\ reply'[v] = reply[v]
    BY <1>1, <2>4 DEF StoreShape, NoCall, NoReply
  <2>6. TaskOK(l)
    BY <2>2, <2>3 DEF TaskOK
  <2> HIDE DEF l
  <2>7. task'[Reader] = l
    BY <1>1, <2>1 DEF TasksOK
  <2>8. GetOK(Reader)'
    BY <2>3, <2>5, <2>7 DEF GetOK
  <2> QED
    BY <1>1, <1>2, <2>1, <2>5, <2>6, <2>8, TaskMoves
<1>4. CASE GotChunk
  <2>1. k.pc = "got" /\ call[Reader] = NoCall /\ UNCHANGED <<version, scanned, manifests>>
    BY <1>4 DEF GotChunk, Returned
  <2>2. k \in Getting /\ IsPast(k.file, k.chunk)
    BY <1>1, <2>1, TaskByPlace
  <2>3. TaskOK(Refetch) /\ TaskOK([Refetch EXCEPT !.pc = "delete"])
    BY <2>2 DEF Refetch, TaskOK, Refetching, Getting
  <2>4. ASSUME NEW l, TaskOK(l), Continue(Reader, l), Heard(Reader)
        PROVE  ReadInv'
    <3>1. /\ StoreShape' /\ call' = call /\ reply'[Reader].is # "data"
          /\ \A v \in Workers \ {Reader} : reply'[v] = reply[v]
      BY <1>1, <2>4, HeardIsGone
    <3>2. GetOK(Reader)'
      BY <2>1, <3>1 DEF GetOK, NoCall
    <3> QED
      BY <1>1, <1>2, <2>1, <2>4, <3>1, <3>2, TaskMoves DEF Continue
  <2>5. CASE /\ Delete(Reader, k.chunk)
             /\ Continue(Reader, [Refetch EXCEPT !.pc = "delete"])
    <3> DEFINE l == [Refetch EXCEPT !.pc = "delete"]
    <3>1. TaskOK(l) /\ Continue(Reader, l)
      BY <2>3, <2>5
    <3> HIDE DEF l
    <3>2. /\ StoreShape' /\ call'[Reader].pc # "read" /\ reply'[Reader].is # "data"
          /\ \A v \in Workers \ {Reader} : call'[v] = call[v] /\ reply'[v] = reply[v]
      BY <1>1, <2>5, BeginGoesOn DEF StoreGoesOn
    <3> QED
      BY <1>1, <1>2, <2>1, <3>1, <3>2, TaskMoves DEF GetOK, Continue
  <2>6. CASE Continue(Reader, Refetch) /\ Heard(Reader)
    BY <2>3, <2>4, <2>6
  <2>7. CASE Finish(Reader, reply[Reader]) /\ Heard(Reader)
    <3>1. /\ StoreShape' /\ call' = call /\ reply'[Reader].is # "data"
          /\ \A v \in Workers \ {Reader} : reply'[v] = reply[v]
      BY <1>1, <2>7, HeardIsGone
    <3>2. reply[Reader].is = "data" =>
            reply[Reader].units = Units /\ IsPast(k.file, reply[Reader].chunk)
      BY <1>1, <2>2 DEF TasksOK, GetOK
    <3>3. k.file \in Files /\ call'[Reader].pc # "read"
      BY <2>1, <2>2, <3>1 DEF Getting, NoCall
    <3> QED
      BY <1>1, <2>1, <2>7, <3>1, <3>2, <3>3, FinishKeepsReads
  <2> QED
    BY <1>4, <2>5, <2>6, <2>7 DEF GotChunk
<1>5. CASE Deleted
  <2> DEFINE l == [k EXCEPT !.pc = "fetch"]
  <2>1. /\ k.pc = "delete" /\ Heard(Reader) /\ task' = [task EXCEPT ![Reader] = l]
        /\ UNCHANGED <<version, scanned, manifests, answer>>
    BY <1>5 DEF Deleted, Continue
  <2>2. k \in Refetching /\ IsPast(k.file, k.want)
    BY <1>1, <2>1, TaskByPlace
  <2>3. l \in Refetching /\ l.file = k.file /\ l.want = k.want
    BY <2>2 DEF Refetching
  <2>4. TaskOK(l)
    BY <2>2, <2>3 DEF TaskOK
  <2> HIDE DEF l
  <2>5. /\ StoreShape' /\ call' = call /\ reply'[Reader].is # "data" /\ call[Reader].pc # "read"
        /\ \A v \in Workers \ {Reader} : reply'[v] = reply[v]
    BY <1>1, <2>1, HeardIsGone, NoGet
  <2> QED
    BY <1>1, <1>2, <2>1, <2>4, <2>5, TaskMoves DEF GetOK
<1> QED
  BY <1>3, <1>4, <1>5

\* A read dropped by the timeout, in the store or in the fetch.
LEMMA TimeoutKeepsReads ==
    ASSUME ReadInv, MaxSize # 0, ReadTimeout
    PROVE  ReadInv'
<1>1. Reader \in Workers /\ Finish(Reader, TimedOut) /\ UNCHANGED <<version, scanned, manifests>>
  BY ReadPathAssumption DEF ReadTimeout
<1>2. CASE Timeout(Reader)
  <2>1. Return(Reader, TimedOut)
    BY <1>2 DEF Timeout
  <2>2. StoreGoesOn
    BY <1>1, <2>1, ReturnGoesOn DEF TimedOut, ReadInv
  <2>3. call'[Reader].pc # "read" /\ reply'[Reader].is # "data"
    BY <1>1, <2>1 DEF Return, TimedOut, NoCall, ReadInv, StoreShape
  <2>4. \A v \in Workers \ {Reader} : call'[v] = call[v] /\ reply'[v] = reply[v]
    BY <2>1 DEF Return, ReadInv, StoreShape
  <2> QED
    BY <1>1, <2>2, <2>3, <2>4, FinishKeepsReads DEF TimedOut, StoreGoesOn
<1>3. CASE task[Reader].pc = "fetch" /\ UNCHANGED store
  <2>1. /\ StoreShape' /\ call'[Reader].pc # "read" /\ reply'[Reader].is # "data"
        /\ UNCHANGED <<call, reply>>
    BY <1>1, <1>3, NoGet DEF ReadInv, StoreShape, store
  <2> QED
    BY <1>1, <2>1, FinishKeepsReads DEF TimedOut
<1> QED
  BY <1>2, <1>3 DEF ReadTimeout

\* The file changes at the origin: what was a chunk of it was one.
LEMMA ChangeKeepsReads ==
    ASSUME ReadInv, NEW f \in Files, OriginChange(f)
    PROVE  ReadInv'
<1>1. /\ version' = [version EXCEPT ![f] = @ + 1]
      /\ version[f] < Len(ChunkOf[f]) /\ UNCHANGED <<store, scanned, manifests, task, answer>>
  BY DEF OriginChange
<1>2. /\ version \in [Files -> Nat] /\ scanned \in [Files -> Nat]
      /\ \A g \in Files : version[g] \in 1..Len(ChunkOf[g]) /\ scanned[g] \in 1..version[g]
  BY DEF ReadInv, VersionsOK
<1>3. Len(ChunkOf[f]) \in Nat
  BY ReadPathAssumption
<1>4. VersionsOK'
  BY <1>1, <1>2, <1>3 DEF VersionsOK
<1>10. ASSUME NEW g \in Files
       PROVE  scanned[g]..version[g] \subseteq scanned[g]..version'[g]
  <2>1. /\ version[g] \in Nat /\ version'[g] \in Nat /\ scanned[g] \in Nat
        /\ version[g] <= version'[g]
    BY <1>1, <1>2
  <2> QED
    BY <2>1
<1>5. ASSUME NEW g \in Files, NEW c, IsPast(g, c)
      PROVE  IsPast(g, c)'
  BY <1>1, <1>5, <1>10 DEF IsPast
<1>6. ManifestsOK'
  BY <1>1, <1>5 DEF ReadInv, ManifestsOK
<1>7. ASSUME NEW w \in Workers
      PROVE  TaskOK(task[w])' /\ GetOK(w)'
  <2>1. GetOK(w)'
    BY <1>1 DEF ReadInv, TasksOK, GetOK, store
  <2>2. TaskOK(task[w])
    BY DEF ReadInv, TasksOK
  <2>3. TaskOK(task[w])'
    BY <1>1, <1>5, <2>2 DEF TaskOK, Getting, Refetching, Storing
  <2> QED
    BY <2>1, <2>3
<1>8. AnswerOK' /\ ReadsAreRight'
  BY <1>1, <1>10 DEF ReadInv, AnswerOK, ReadsAreRight
<1>9. StoreShape' /\ DOMAIN task' = Workers
  BY <1>1 DEF ReadInv, TasksOK, StoreShape, store
<1> QED
  BY <1>4, <1>6, <1>7, <1>8, <1>9 DEF ReadInv, TasksOK

\* The process is killed, and starts with empty hands.
LEMMA RestartKeepsReads ==
    ASSUME ReadInv, Restart
    PROVE  ReadInv'
<1>1. /\ call' = [w \in Workers |-> NoCall] /\ reply' = [w \in Workers |-> NoReply]
      /\ manifests' = EmptyMap /\ task' = [w \in Workers |-> NoTask] /\ answer' = NoAnswer
      /\ UNCHANGED version /\ scanned' = version
  BY DEF Restart, Crash, PowerLoss, Reopen
<1>2. StoreShape'
  BY <1>1 DEF StoreShape, NoCall
<1>3. VersionsOK'
  <2>1. /\ version \in [Files -> Nat]
        /\ \A f \in Files : version[f] \in 1..Len(ChunkOf[f]) /\ version[f] \in 1..version[f]
    BY DEF ReadInv, VersionsOK
  <2> QED
    BY <1>1, <2>1 DEF VersionsOK
<1>5. ManifestsOK' /\ AnswerOK' /\ ReadsAreRight'
  BY <1>1 DEF ManifestsOK, AnswerOK, ReadsAreRight, EmptyMap, NoAnswer
<1>4. TasksOK'
  BY <1>1 DEF TasksOK, TaskOK, GetOK, NoCall, NoReply
<1> QED
  BY <1>2, <1>3, <1>4, <1>5 DEF ReadInv

\* Every step keeps the invariant.
LEMMA ReadStep ==
    ASSUME ReadInv, MaxSize # 0, [ReadPathNext]_vars
    PROVE  ReadInv'
<1>1. ASSUME NEW f \in Files, Read(f) \/ \E w \in Prefetchers : Prefetch(w, f)
      PROVE  ReadInv'
  BY <1>1, StartKeepsReads
<1>2. ASSUME NEW f \in Files, OriginChange(f)
      PROVE  ReadInv'
  BY <1>2, ChangeKeepsReads
<1>3. ASSUME NEW w \in Workers, FetchRead(w) \/ FetchPut(w) \/ FetchDone(w)
      PROVE  ReadInv'
  BY <1>3, FetchKeepsReads
<1>4. CASE GetChunk \/ GotChunk \/ Deleted
  BY <1>4, GetKeepsReads
<1>5. CASE StoreStep
  <2>1. StoreGoesOn
    BY <1>5, StepGoesOn, AdriftGoesOn DEF StoreStep, ReadInv
  <2>2. UNCHANGED reading
    BY <1>5 DEF StoreStep, reading
  <2> QED
    BY <2>1, <2>2, StoreKeepsReads
<1>6. CASE ReadTimeout
  BY <1>6, TimeoutKeepsReads
<1>7. CASE Restart
  BY <1>7, RestartKeepsReads
<1>8. CASE UNCHANGED vars
  <2>1. StoreGoesOn /\ UNCHANGED reading
    BY <1>8 DEF vars, store, ReadInv, StoreShape, StoreGoesOn, GetsGoOn
  <2> QED
    BY <2>1, StoreKeepsReads
<1> QED
  BY <1>1, <1>2, <1>3, <1>4, <1>5, <1>6, <1>7, <1>8 DEF ReadPathNext, ReadPathStep

\* The inductive invariant: tasks, manifests and answers hold chunks of their
\* files, and what a get returns is what was asked for and verified.
THEOREM ReadInvariance == ASSUME MaxSize # 0 PROVE ReadPathSpec => []ReadInv
<1>1. ReadPathInit => ReadInv
  <2> SUFFICES ASSUME ReadPathInit
               PROVE  ReadInv
    OBVIOUS
  <2>1. StoreShape
    BY DEF ReadPathInit, Init, StoreShape, NoCall
  <2>2. VersionsOK
    BY ReadPathAssumption DEF ReadPathInit, VersionsOK
  <2>3. ManifestsOK /\ AnswerOK /\ ReadsAreRight
    BY DEF ReadPathInit, ManifestsOK, EmptyMap, AnswerOK, ReadsAreRight, NoAnswer
  <2>4. TasksOK
    BY DEF ReadPathInit, Init, TasksOK, TaskOK, GetOK, NoCall, NoReply
  <2> QED
    BY <2>1, <2>2, <2>3, <2>4 DEF ReadInv
<1>2. ReadInv /\ [ReadPathNext]_vars => ReadInv'
  BY ReadStep
<1> QED
  BY <1>1, <1>2, PTL DEF ReadPathSpec

\* Where chunks are verified, what a read returns is one version of the file, of
\* those since the mount's scan, up to where the scanned one ended, whatever tore,
\* emptied or deleted the chunk's file (store.get in FileReader::read, read_end).
THEOREM ReadsStayRight == ASSUME MaxSize # 0 PROVE ReadPathSpec => []ReadsAreRight
BY ReadInvariance, PTL DEF ReadInv

----------------------------------------------------------------------------
(* In calm.                                                                *)

Good(c) == c \in DOMAIN disk /\ disk[c] = Units
Current(f) == ChunkOf[f][version[f]]

\* A file that has not changed since the scan, or has failed as often as it may:
\* the next read of it is to succeed.
Steady(f) == version[f] = scanned[f] \/ failures[f] = 2

\* What the reader goes for is whole, or is the file as it is now and may still
\* be fetched anew; and a fetch with no change since mends the manifest.
Sought(k) ==
    /\ Steady(k.file) => Good(k.chunk) \/ (~k.again /\ k.chunk = Current(k.file))
    /\ k.again /\ failures[k.file] > 0 =>
         k.file \in DOMAIN manifests /\ manifests[k.file] = Current(k.file)

\* The calls of the reader: a get, and what it has said; a put into a file of
\* its own; the deletion of a file that is not whole.
GetGoesOn(k, c, r) ==
    \/ c = [pc |-> "read", chunk |-> k.chunk] /\ Exists(k.chunk)
    \/ /\ c = NoCall /\ r.is \in {"data", "corrupt", "not_found"}
       /\ r.is # "data" => ~Good(k.chunk)
       /\ r.is = "not_found" => ~Exists(k.chunk)

At(c, pc, chunk) == {"pc", "chunk"} \subseteq DOMAIN c /\ c.pc = pc /\ c.chunk = chunk

Writes(c, chunk, left) ==
    /\ At(c, "write", chunk)
    /\ {"linked", "left"} \subseteq DOMAIN c /\ c.linked = TRUE /\ c.left = left

PutGoesOn(chunk, c) ==
    \/ \E pc \in {"limit", "open"} : At(c, pc, chunk) /\ ~Exists(chunk)
    \/ \E left \in (SUBSET Units) \ {{}} :
         Writes(c, chunk, left) /\ Exists(chunk) /\ disk[chunk] = Units \ left
    \/ \E pc \in {"index", "count"} : At(c, pc, chunk) /\ Good(chunk)

DeleteGoesOn(chunk, c) ==
    \/ \E pc \in {"metadata", "remove"} : At(c, pc, chunk) /\ Exists(chunk) /\ ~Good(chunk)
    \/ \E pc \in {"unindex", "uncount"} : At(c, pc, chunk) /\ ~Exists(chunk)

\* Where the reader is, what it holds is worth, and what its call has come to.
ReaderOK(k, c, r) ==
    /\ k.pc \in {"idle", "get", "fetch", "store"} => c = NoCall
    /\ k.pc \in {"get", "got"} => Sought(k)
    /\ k.pc = "got" => GetGoesOn(k, c, r)
    /\ k.pc \in {"fetch", "store", "stored", "delete"} /\ k.known /\ Steady(k.file) =>
         k.want = Current(k.file)
    /\ k.pc \in {"fetch", "store"} /\ k.known => ~Exists(k.want)
    /\ k.pc \in {"store", "stored"} /\ failures[k.file] > 0 => k.fetched = Current(k.file)
    /\ k.pc = "stored" =>
         \/ PutGoesOn(k.fetched, c)
         \/ c = NoCall /\ (k.known /\ k.fetched = k.want => Good(k.want))
    /\ k.pc = "delete" => DeleteGoesOn(k.want, c) \/ (c = NoCall /\ ~Exists(k.want))

\* What a file that has failed twice is known by is whole, or can be fetched.
Mended ==
    \A f \in Files :
      /\ failures[f] < 3
      /\ failures[f] = 2 /\ f \in DOMAIN manifests =>
           Good(manifests[f]) \/ manifests[f] = Current(f)

AnswersOK ==
    /\ answer.is \in {"none", "data", "failed"}
    /\ answer.is = "failed" => answer.file \in Files /\ version[answer.file] > scanned[answer.file]

OnlyReader ==
    adrift = {} /\ \A w \in Prefetchers : task[w] = NoTask /\ call[w] = NoCall

CalmInv ==
    /\ OnlyReader /\ Mended /\ AnswersOK
    /\ ReaderOK(task[Reader], call[Reader], reply[Reader])

SteadyInv == ReadInv /\ failures \in [Files -> 0..3] /\ (calm => CalmInv)

\* No whole chunk is harmed.
GoodStays == \A c : Good(c) => Good(c)'

\* Neither the disk nor the timeout nor the limit ends a call.
Unharmed(w) == reply'[w].is \notin {"io", "full", "timeout"}

\* Where no whole chunk is harmed, all but the reader's own place is as it was.
LEMMA StoreStaysCalm ==
    ASSUME CalmInv, GoodStays, UNCHANGED reading, OnlyReader',
           ReaderOK(task[Reader], call[Reader], reply[Reader])'
    PROVE  CalmInv'
BY DEF CalmInv, GoodStays, reading, Mended, AnswersOK, Current

\* The steps of a call that nothing ends early.
LEMMA UnharmedStep ==
    ASSUME StoreShape, NEW w \in Workers, Step(w), Unharmed(w)
    PROVE  /\ call[w] # NoCall
           /\ call[w].pc = "limit" => PutLimit(w)
           /\ call[w].pc = "open" => PutOpen(w)
           /\ call[w].pc = "write" => PutWrite(w)
           /\ call[w].pc = "index" => PutIndex(w)
           /\ call[w].pc = "count" => PutCount(w)
           /\ call[w].pc = "read" => GetRead(w)
           /\ call[w].pc = "metadata" => DeleteMetadata(w)
           /\ call[w].pc = "remove" => DeleteRemove(w)
           /\ call[w].pc = "unindex" => DeleteUnindex(w)
           /\ call[w].pc = "uncount" => DeleteCount(w)
<1>1. ~CallFails(w)
  BY DEF CallFails, Return, IoError, StoreShape, Unharmed
<1>2. ~Timeout(w)
  BY DEF Timeout, Return, TimedOut, StoreShape, Unharmed
<1>3. \/ PutLimit(w) \/ PutOpen(w) \/ PutWrite(w) \/ PutIndex(w) \/ PutCount(w)
      \/ GetRead(w)
      \/ DeleteMetadata(w) \/ DeleteRemove(w) \/ DeleteUnindex(w) \/ DeleteCount(w)
  BY <1>1, <1>2 DEF Step
<1>4. /\ PutLimit(w) => call[w].pc = "limit"
      /\ PutOpen(w) => call[w].pc = "open"
      /\ PutWrite(w) => call[w].pc = "write"
      /\ PutIndex(w) => call[w].pc = "index"
      /\ PutCount(w) => call[w].pc = "count"
      /\ GetRead(w) => call[w].pc = "read"
      /\ DeleteMetadata(w) => call[w].pc = "metadata"
      /\ DeleteRemove(w) => call[w].pc = "remove"
      /\ DeleteUnindex(w) => call[w].pc = "unindex"
      /\ DeleteCount(w) => call[w].pc = "uncount"
  BY DEF PutLimit, PutOpen, PutWrite, PutIndex, PutCount, GetRead, DeleteMetadata,
         DeleteRemove, DeleteUnindex, DeleteCount
<1> QED
  BY <1>3, <1>4 DEF NoCall

\* What a write call does to what is left to write.
LEMMA LeftToWrite ==
    ASSUME NEW left \in SUBSET Units, left # {}, NEW c, c.left = left, NEW units \in NextWrites(c)
    PROVE  /\ units \subseteq left
           /\ units # left => left \ units # {}
           /\ (Units \ left) \cup units = Units \ (left \ units)
<1>1. left \in {{1}, {2}, {1, 2}}
  BY DEF Units
<1>2. Min(left) \in left
  BY <1>1 DEF Min
<1>3. units = left \/ units = {Min(left)}
  BY DEF NextWrites
<1>4. left \subseteq Units
  OBVIOUS
<1> QED
  BY <1>2, <1>3, <1>4

\* A put goes on, into a file that was not there before.
LEMMA PutStaysCalm ==
    ASSUME ReadInv, CalmInv, task[Reader].pc = "stored", Step(Reader), Unharmed(Reader),
           UNCHANGED reading
    PROVE  CalmInv'
<1> DEFINE k == task[Reader]
<1> SUFFICES ASSUME NEW x, x = k.fetched
             PROVE  CalmInv'
  OBVIOUS
<1>1. Reader \in Workers /\ DOMAIN call = Workers /\ DOMAIN reply = Workers /\ StoreShape
  BY ReadPathAssumption DEF ReadInv, StoreShape
<1>2. ReaderOK(k, call[Reader], reply[Reader]) /\ OnlyReader
  BY DEF CalmInv
<1>3. PutGoesOn(x, call[Reader])
  BY <1>1, <1>2, UnharmedStep DEF ReaderOK
<1>4. ASSUME GoodStays, adrift' = adrift, \A w \in Prefetchers : call'[w] = call[w],
             PutGoesOn(x, call[Reader])' \/ (call'[Reader] = NoCall /\ Good(x)')
      PROVE  CalmInv'
  <2>1. OnlyReader'
    BY <1>2, <1>4 DEF OnlyReader, reading
  <2>2. ReaderOK(task[Reader], call[Reader], reply[Reader])'
    BY <1>2, <1>4 DEF ReaderOK, reading, Steady, Current
  <2> QED
    BY <1>4, <2>1, <2>2, StoreStaysCalm
<1>5. UNCHANGED disk => GoodStays
  BY DEF GoodStays, Good
<1>6. ASSUME At(call[Reader], "limit", x), ~Exists(x)
      PROVE  CalmInv'
  <2>1. PutLimit(Reader)
    BY <1>1, <1>6, UnharmedStep DEF At
  <2>2. ~Return(Reader, [is |-> "full"])
    BY <1>1 DEF Return, Unharmed
  <2>3. call' = [call EXCEPT ![Reader].pc = "open"] /\ UNCHANGED <<disk, adrift>>
    BY <2>1, <2>2 DEF PutLimit, Goto
  <2>4. At(call'[Reader], "open", x)
    BY <1>1, <1>6, <2>3 DEF At
  <2>5. PutGoesOn(x, call[Reader])'
    BY <1>6, <2>3, <2>4 DEF PutGoesOn, Exists
  <2> QED
    BY <1>1, <1>4, <1>5, <2>3, <2>5 DEF Prefetchers
<1>7. ASSUME At(call[Reader], "open", x), ~Exists(x)
      PROVE  CalmInv'
  <2>1. PutOpen(Reader)
    BY <1>1, <1>7, UnharmedStep DEF At
  <2>2. /\ disk' = Insert(disk, x, {}) /\ UNCHANGED adrift
        /\ call' = [call EXCEPT ![Reader] = Writer(x)]
    BY <1>1, <1>7, <2>1 DEF PutOpen, At
  <2>3. GoodStays
    BY <1>7, <2>2 DEF GoodStays, Good, Exists, Insert
  <2>4. PutGoesOn(x, call[Reader])'
    <3>1. Exists(x)' /\ disk'[x] = Units \ Units
      BY <2>2 DEF Insert, Exists
    <3>2. call'[Reader] = Writer(x)
      BY <1>1, <2>2
    <3>3. Writes(call'[Reader], x, Units)
      BY <3>2 DEF Writer, Writes, At
    <3>4. Units \in (SUBSET Units) \ {{}}
      BY 1 \in {1, 2} DEF Units
    <3> QED
      BY <3>1, <3>3, <3>4 DEF PutGoesOn
  <2> QED
    BY <1>1, <1>4, <2>2, <2>3, <2>4 DEF Prefetchers
<1>8. ASSUME NEW left \in (SUBSET Units) \ {{}}, Writes(call[Reader], x, left),
             Exists(x), disk[x] = Units \ left
      PROVE  CalmInv'
  <2>1. PutWrite(Reader)
    BY <1>1, <1>8, UnharmedStep DEF Writes, At
  <2>2. PICK units \in NextWrites(call[Reader]) :
          /\ disk' = [disk EXCEPT ![x] = @ \cup units]
          /\ IF units = left THEN Goto(Reader, "index")
             ELSE /\ call' = [call EXCEPT ![Reader].left = @ \ units]
                  /\ UNCHANGED reply
    BY <1>8, <2>1 DEF PutWrite, Written, Writes, At
  <2>3. UNCHANGED adrift
    BY <2>1 DEF PutWrite
  <2>4. /\ units # left => left \ units # {}
        /\ (Units \ left) \cup units = Units \ (left \ units)
    <3>1. left \in SUBSET Units /\ left # {} /\ call[Reader].left = left
      BY <1>8 DEF Writes
    <3> QED
      BY <2>2, <3>1, LeftToWrite
  <2>5. disk' = [disk EXCEPT ![x] = Units \ (left \ units)]
    BY <1>8, <2>2, <2>4
  <2>6. GoodStays
    BY <1>8, <2>5 DEF GoodStays, Good
  <2>7. PutGoesOn(x, call[Reader])'
    <3>1. CASE units = left
      <4>1. At(call'[Reader], "index", x)
        BY <1>1, <1>8, <2>2, <3>1 DEF Goto, Writes, At
      <4>2. Good(x)'
        BY <1>8, <2>5, <3>1 DEF Good, Exists
      <4> QED
        BY <4>1, <4>2 DEF PutGoesOn
    <3>2. CASE units # left
      <4>1. Writes(call'[Reader], x, left \ units)
        BY <1>1, <1>8, <2>2, <3>2 DEF Writes, At
      <4>2. left \ units \in (SUBSET Units) \ {{}}
        BY <3>2, <2>4
      <4>3. Exists(x)' /\ disk'[x] = Units \ (left \ units)
        BY <1>8, <2>5 DEF Exists
      <4> QED
        BY <4>1, <4>2, <4>3 DEF PutGoesOn
    <3> QED
      BY <3>1, <3>2
  <2>8. \A w \in Prefetchers : call'[w] = call[w]
    BY <1>1, <2>2 DEF Goto, Prefetchers
  <2> QED
    BY <1>4, <2>3, <2>6, <2>7, <2>8
<1>9. ASSUME At(call[Reader], "index", x), Good(x)
      PROVE  CalmInv'
  <2>1. PutIndex(Reader)
    BY <1>1, <1>9, UnharmedStep DEF At
  <2>2. call' = [call EXCEPT ![Reader].pc = "count"] /\ UNCHANGED <<disk, adrift>>
    BY <2>1 DEF PutIndex, Goto
  <2>3. At(call'[Reader], "count", x)
    BY <1>1, <1>9, <2>2 DEF At
  <2>4. PutGoesOn(x, call[Reader])'
    BY <1>9, <2>2, <2>3 DEF PutGoesOn, Good
  <2> QED
    BY <1>1, <1>4, <1>5, <2>2, <2>4 DEF Prefetchers
<1>10. ASSUME At(call[Reader], "count", x), Good(x)
       PROVE  CalmInv'
  <2>1. PutCount(Reader)
    BY <1>1, <1>10, UnharmedStep DEF At
  <2>2. call' = [call EXCEPT ![Reader] = NoCall] /\ UNCHANGED <<disk, adrift>>
    BY <2>1 DEF PutCount, Return
  <2>3. call'[Reader] = NoCall /\ Good(x)'
    BY <1>1, <1>10, <2>2 DEF Good
  <2> QED
    BY <1>1, <1>4, <1>5, <2>2, <2>3 DEF Prefetchers
<1> QED
  BY <1>3, <1>6, <1>7, <1>8, <1>9, <1>10 DEF PutGoesOn

\* The deletion of a torn file goes on, and nobody else has it open.
LEMMA DeleteStaysCalm ==
    ASSUME ReadInv, CalmInv, task[Reader].pc = "delete", Step(Reader), Unharmed(Reader),
           UNCHANGED reading
    PROVE  CalmInv'
<1> DEFINE k == task[Reader]
<1> SUFFICES ASSUME NEW x, x = k.want
             PROVE  CalmInv'
  OBVIOUS
<1>1. Reader \in Workers /\ DOMAIN call = Workers /\ DOMAIN reply = Workers /\ StoreShape
  BY ReadPathAssumption DEF ReadInv, StoreShape
<1>2. ReaderOK(k, call[Reader], reply[Reader]) /\ OnlyReader
  BY DEF CalmInv
<1>3. DeleteGoesOn(x, call[Reader])
  BY <1>1, <1>2, UnharmedStep DEF ReaderOK
<1>4. ASSUME GoodStays, adrift' = {}, \A w \in Prefetchers : call'[w] = call[w],
             DeleteGoesOn(x, call[Reader])' \/ (call'[Reader] = NoCall /\ ~Exists(x)')
      PROVE  CalmInv'
  <2>1. OnlyReader'
    BY <1>2, <1>4 DEF OnlyReader, reading
  <2>2. ReaderOK(task[Reader], call[Reader], reply[Reader])'
    BY <1>2, <1>4 DEF ReaderOK, reading, Steady, Current
  <2> QED
    BY <1>4, <2>1, <2>2, StoreStaysCalm
<1>5. UNCHANGED disk => GoodStays
  BY DEF GoodStays, Good
<1>6. adrift = {}
  BY <1>2 DEF OnlyReader
<1>7. ASSUME At(call[Reader], "metadata", x), Exists(x), ~Good(x)
      PROVE  CalmInv'
  <2>1. DeleteMetadata(Reader)
    BY <1>1, <1>7, UnharmedStep DEF At
  <2>2. /\ call' = [call EXCEPT ![Reader] = [pc |-> "remove", chunk |-> x,
                                             length |-> Length(disk[x])]]
        /\ UNCHANGED <<disk, adrift>>
    BY <1>7, <2>1 DEF DeleteMetadata, At
  <2>3. At(call'[Reader], "remove", x)
    BY <1>1, <2>2 DEF At
  <2>4. DeleteGoesOn(x, call[Reader])'
    BY <1>7, <2>2, <2>3 DEF DeleteGoesOn, Exists, Good
  <2> QED
    BY <1>1, <1>4, <1>5, <1>6, <2>2, <2>4 DEF Prefetchers
<1>8. ASSUME At(call[Reader], "remove", x), Exists(x), ~Good(x)
      PROVE  CalmInv'
  <2>1. DeleteRemove(Reader)
    BY <1>1, <1>8, UnharmedStep DEF At
  <2> DEFINE calls == [call EXCEPT ![Reader].pc = "unindex"]
  <2>2. Unlink(x, calls)
    BY <1>8, <2>1 DEF DeleteRemove, At
  <2>3. At(calls[Reader], "unindex", x) /\ \A w \in Prefetchers : calls[w] = call[w]
    BY <1>1, <1>8 DEF At, Prefetchers
  <2> HIDE DEF calls
  <2>4. /\ disk' = Remove(disk, {x}) /\ adrift' = {Unlinked(a, x) : a \in adrift}
        /\ call' = [w \in Workers |-> Unlinked(calls[w], x)]
    BY <2>2 DEF Unlink
  <2>5. At(call'[Reader], "unindex", x)
    BY <1>1, <2>3, <2>4 DEF Unlinked, Writing, At
  <2>6. \A w \in Prefetchers : call'[w] = call[w]
    BY <1>2, <2>3, <2>4 DEF OnlyReader, Prefetchers, Unlinked, Writing, NoCall
  <2>7. GoodStays /\ ~Exists(x)'
    BY <1>8, <2>4 DEF GoodStays, Good, Exists, Remove
  <2>8. DeleteGoesOn(x, call[Reader])'
    BY <2>5, <2>7 DEF DeleteGoesOn
  <2> QED
    BY <1>4, <1>6, <2>4, <2>6, <2>7, <2>8
<1>9. ASSUME At(call[Reader], "unindex", x), ~Exists(x)
      PROVE  CalmInv'
  <2>1. DeleteUnindex(Reader)
    BY <1>1, <1>9, UnharmedStep DEF At
  <2>2. call' = [call EXCEPT ![Reader].pc = "uncount"] /\ UNCHANGED <<disk, adrift>>
    BY <2>1 DEF DeleteUnindex, Goto
  <2>3. At(call'[Reader], "uncount", x)
    BY <1>1, <1>9, <2>2 DEF At
  <2>4. DeleteGoesOn(x, call[Reader])'
    BY <1>9, <2>2, <2>3 DEF DeleteGoesOn, Exists
  <2> QED
    BY <1>1, <1>4, <1>5, <1>6, <2>2, <2>4 DEF Prefetchers
<1>10. ASSUME At(call[Reader], "uncount", x), ~Exists(x)
       PROVE  CalmInv'
  <2>1. DeleteCount(Reader)
    BY <1>1, <1>10, UnharmedStep DEF At
  <2>2. call' = [call EXCEPT ![Reader] = NoCall] /\ UNCHANGED <<disk, adrift>>
    BY <2>1 DEF DeleteCount, Return
  <2>3. call'[Reader] = NoCall /\ ~Exists(x)'
    BY <1>1, <1>10, <2>2 DEF Exists
  <2> QED
    BY <1>1, <1>4, <1>5, <1>6, <2>2, <2>3 DEF Prefetchers
<1> QED
  BY <1>3, <1>7, <1>8, <1>9, <1>10 DEF DeleteGoesOn

\* A get goes on, of a file that stays where it is.
LEMMA GetStaysCalm ==
    ASSUME ReadInv, CalmInv, MaxSize # 0, task[Reader].pc = "got", Step(Reader),
           Unharmed(Reader), UNCHANGED reading
    PROVE  CalmInv'
<1> DEFINE k == task[Reader]
<1> SUFFICES ASSUME NEW x, x = k.chunk
             PROVE  CalmInv'
  OBVIOUS
<1>1. Reader \in Workers /\ DOMAIN call = Workers /\ DOMAIN reply = Workers /\ StoreShape
  BY ReadPathAssumption DEF ReadInv, StoreShape
<1>2. ReaderOK(k, call[Reader], reply[Reader]) /\ OnlyReader
  BY DEF CalmInv
<1>3. call[Reader] = [pc |-> "read", chunk |-> x] /\ Exists(x)
  BY <1>1, <1>2, UnharmedStep DEF ReaderOK, GetGoesOn
<1>4. GetRead(Reader)
  BY <1>1, <1>3, UnharmedStep
<1> DEFINE r == IF Verified(disk[x]) THEN [is |-> "data", chunk |-> x, units |-> disk[x]]
                ELSE [is |-> "corrupt"]
<1>5. Return(Reader, r) /\ UNCHANGED <<disk, adrift>>
  BY <1>3, <1>4 DEF GetRead
<1>6. r.is \in {"data", "corrupt"} /\ (r.is # "data" => ~Good(x))
  BY DEF Verified, Good
<1> HIDE DEF r
<1>7. call'[Reader] = NoCall /\ reply'[Reader] = r /\ \A w \in Prefetchers : call'[w] = call[w]
  BY <1>1, <1>5 DEF Return, Prefetchers
<1>8. GoodStays
  BY <1>5 DEF GoodStays, Good
<1>9. OnlyReader'
  BY <1>2, <1>5, <1>7 DEF OnlyReader, reading
<1>10. Sought(task[Reader])'
  <2>1. Sought(k)
    BY <1>2 DEF ReaderOK
  <2> QED
    BY <1>5, <2>1 DEF Sought, Good, Steady, Current, reading
<1>11. GetGoesOn(task[Reader], call[Reader], reply[Reader])'
  BY <1>5, <1>6, <1>7 DEF GetGoesOn, Good, reading
<1>12. ReaderOK(task[Reader], call[Reader], reply[Reader])'
  BY <1>10, <1>11 DEF ReaderOK, reading
<1> QED
  BY <1>8, <1>9, <1>12, StoreStaysCalm

\* The places of a task.
LEMMA TaskPlaces ==
    ASSUME NEW k, TaskOK(k)
    PROVE  k.pc \in {"idle", "get", "got", "fetch", "delete", "store", "stored"}
<1>1. k = NoTask => k.pc = "idle"
  BY DEF NoTask
<1>2. k \in Getting => k.pc \in {"get", "got"}
  BY DEF Getting
<1>3. k \in Fetching => k.pc = "fetch"
  BY DEF Fetching
<1>4. k \in Refetching => k.pc \in {"fetch", "delete"}
  BY DEF Refetching
<1>5. k \in Storing => k.pc \in {"store", "stored"}
  BY DEF Storing
<1> QED
  BY <1>1, <1>2, <1>3, <1>4, <1>5 DEF TaskOK

\* In calm only the reader's own calls take steps.
LEMMA StoreStepStaysCalm ==
    ASSUME ReadInv, CalmInv, MaxSize # 0, StoreStep, \A w \in Workers : Unharmed(w)
    PROVE  CalmInv'
<1> DEFINE k == task[Reader]
<1>1. UNCHANGED reading /\ Reader \in Workers /\ StoreShape
  BY ReadPathAssumption DEF StoreStep, reading, ReadInv
<1>2. OnlyReader /\ ReaderOK(k, call[Reader], reply[Reader])
  BY DEF CalmInv
<1>3. PICK w \in Workers : Step(w)
  BY <1>2 DEF StoreStep, OnlyReader, AdriftOpen, AdriftWrite, AdriftRemove
<1>4. w = Reader /\ call[Reader] # NoCall
  BY <1>1, <1>2, <1>3, UnharmedStep DEF OnlyReader, Prefetchers
<1>5. TaskOK(k)
  BY <1>1 DEF ReadInv, TasksOK
<1>6. k.pc \in {"got", "stored", "delete"}
  <2>1. k.pc \notin {"idle", "get", "fetch", "store"}
    BY <1>2, <1>4 DEF ReaderOK
  <2>2. k.pc \in {"idle", "get", "got", "fetch", "delete", "store", "stored"}
    BY <1>5, TaskPlaces
  <2> QED
    BY <2>1, <2>2
<1> QED
  BY <1>1, <1>3, <1>4, <1>6, GetStaysCalm, PutStaysCalm, DeleteStaysCalm

\* The chunk of a file that has not changed since the scan is its only one.
LEMMA OneVersion ==
    ASSUME VersionsOK, NEW f \in Files, NEW c, version[f] = scanned[f], IsPast(f, c)
    PROVE  c = Current(f)
<1>1. version[f] \in Nat
  BY DEF VersionsOK
<1> QED
  BY <1>1 DEF IsPast, Current

\* The reader's task moves on over a disk that is as it was.
LEMMA ReaderMovesCalm ==
    ASSUME ReadInv, CalmInv, NEW k, task' = [task EXCEPT ![Reader] = k],
           UNCHANGED <<disk, version, scanned, answer, failures, adrift>>, Mended',
           \A w \in Prefetchers : call'[w] = call[w],
           ReaderOK(k, call[Reader], reply[Reader])'
    PROVE  CalmInv'
<1>1. DOMAIN task = Workers /\ Reader \in Workers
  BY ReadPathAssumption DEF ReadInv, TasksOK
<1>2. OnlyReader'
  BY <1>1 DEF CalmInv, OnlyReader, Prefetchers
<1>3. AnswersOK'
  BY DEF CalmInv, AnswersOK
<1>4. task'[Reader] = k
  BY <1>1
<1> QED
  BY <1>2, <1>3, <1>4 DEF CalmInv

\* What a file is known by stays good for as much.
LEMMA MendedStays ==
    ASSUME CalmInv, UNCHANGED <<disk, version, scanned, failures, manifests>>
    PROVE  Mended'
BY DEF CalmInv, Mended, Good, Current

\* A read begins.
LEMMA ReadStaysCalm ==
    ASSUME ReadInv, CalmInv, NEW f \in Files, Read(f)
    PROVE  CalmInv'
<1> DEFINE k == IF f \in DOMAIN manifests
                THEN [pc |-> "get", file |-> f, chunk |-> manifests[f], again |-> FALSE]
                ELSE [pc |-> "fetch", file |-> f, known |-> FALSE]
<1>1. /\ task[Reader] = NoTask /\ task' = [task EXCEPT ![Reader] = k]
      /\ UNCHANGED <<store, version, scanned, manifests, answer, failures>>
  BY DEF Read
<1>2. call[Reader] = NoCall
  BY <1>1 DEF CalmInv, ReaderOK, NoTask
<1>3. CASE f \in DOMAIN manifests
  <2>1. /\ k.pc = "get" /\ k.file = f /\ k.chunk = manifests[f] /\ k.again = FALSE
    BY <1>3
  <2>2. Steady(f) => Good(manifests[f]) \/ manifests[f] = Current(f)
    BY <1>3, OneVersion DEF CalmInv, Mended, Steady, ReadInv, ManifestsOK
  <2> SUFFICES ASSUME NEW l, l = k
               PROVE  CalmInv'
    OBVIOUS
  <2> HIDE DEF k
  <2>3. Sought(l)'
    BY <1>1, <2>1, <2>2 DEF Sought, Steady, Good, Current, store
  <2>4. ReaderOK(l, call[Reader], reply[Reader])'
    BY <1>1, <1>2, <2>1, <2>3 DEF ReaderOK, store
  <2> QED
    BY <1>1, <2>4, ReaderMovesCalm, MendedStays DEF store
<1>4. CASE f \notin DOMAIN manifests
  <2>1. k.pc = "fetch" /\ k.known = FALSE
    BY <1>4
  <2> SUFFICES ASSUME NEW l, l = k
               PROVE  CalmInv'
    OBVIOUS
  <2> HIDE DEF k
  <2>2. ReaderOK(l, call[Reader], reply[Reader])'
    BY <1>1, <1>2, <2>1 DEF ReaderOK, store
  <2> QED
    BY <1>1, <2>2, ReaderMovesCalm, MendedStays DEF store
<1> QED
  BY <1>3, <1>4

\* The origin's answer is the file as it is.
LEMMA FetchReadStaysCalm ==
    ASSUME ReadInv, CalmInv, FetchRead(Reader), ~Disturbed'
    PROVE  CalmInv'
<1> DEFINE k == task[Reader]
           l == [pc |-> "store", file |-> k.file, known |-> k.known,
                 fetched |-> Current(k.file), want |-> IF k.known THEN k.want ELSE 0]
<1>1. k.pc = "fetch" /\ UNCHANGED <<store, version, scanned, manifests>>
  BY DEF FetchRead
<1>2. ~Finish(Reader, [is |-> "origin"])
  BY DEF Finish, Disturbed
<1>3. task' = [task EXCEPT ![Reader] = l] /\ UNCHANGED <<answer, failures>>
  BY <1>2 DEF FetchRead, Continue, Current
<1>4. ReaderOK(k, call[Reader], reply[Reader])
  BY DEF CalmInv
<1>5. /\ l.pc = "store" /\ l.file = k.file /\ l.known = k.known
      /\ l.fetched = Current(k.file) /\ (k.known => l.want = k.want)
  OBVIOUS
<1> SUFFICES ASSUME NEW m, m = l
             PROVE  CalmInv'
  OBVIOUS
<1> HIDE DEF l
<1>6. ReaderOK(m, call[Reader], reply[Reader])'
  BY <1>1, <1>3, <1>4, <1>5 DEF ReaderOK, Steady, Current, Exists, store
<1> QED
  BY <1>1, <1>3, <1>6, ReaderMovesCalm, MendedStays DEF store

\* The put begins, or finds a file of that name.
LEMMA FetchPutStaysCalm ==
    ASSUME ReadInv, CalmInv, FetchPut(Reader)
    PROVE  CalmInv'
<1> DEFINE k == task[Reader]
           l == [k EXCEPT !.pc = "stored"]
<1>1. /\ k.pc = "store" /\ Put(Reader, k.fetched) /\ task' = [task EXCEPT ![Reader] = l]
      /\ UNCHANGED <<version, scanned, manifests, answer, failures>>
  BY DEF FetchPut, Continue
<1>2. ReaderOK(k, call[Reader], reply[Reader])
  BY DEF CalmInv
<1>3. Reader \in Workers /\ TaskOK(k) /\ DOMAIN call = Workers
  BY ReadPathAssumption DEF ReadInv, TasksOK, StoreShape
<1>4. /\ l.pc = "stored" /\ l.file = k.file /\ l.known = k.known
      /\ l.fetched = k.fetched /\ l.want = k.want
  BY <1>1, <1>3, TaskByPlace DEF Storing
<1>5. UNCHANGED <<disk, adrift>> /\ \A w \in Prefetchers : call'[w] = call[w]
  BY <1>1, <1>3 DEF Put, Return, Begin, Prefetchers
<1> SUFFICES ASSUME NEW m, m = l
             PROVE  CalmInv'
  OBVIOUS
<1> HIDE DEF l
<1>6. \/ PutGoesOn(m.fetched, call[Reader])'
      \/ call'[Reader] = NoCall /\ (m.known /\ m.fetched = m.want => Good(m.want)')
  <2>1. CASE Exists(k.fetched)
    <3>1. call'[Reader] = NoCall
      BY <1>1, <1>3, <2>1 DEF Put, Return
    <3>2. k.known => ~Exists(k.want)
      BY <1>1, <1>2 DEF ReaderOK
    <3> QED
      BY <1>4, <2>1, <3>1, <3>2
  <2>2. CASE ~Exists(k.fetched)
    <3>1. At(call'[Reader], "limit", k.fetched)
      BY <1>1, <1>3, <2>2 DEF Put, Begin, At
    <3> QED
      BY <1>4, <1>5, <2>2, <3>1 DEF PutGoesOn, Exists
  <2> QED
    BY <2>1, <2>2
<1>7. ReaderOK(m, call[Reader], reply[Reader])'
  BY <1>1, <1>2, <1>4, <1>6 DEF ReaderOK, Steady, Current
<1> QED
  BY <1>1, <1>5, <1>7, ReaderMovesCalm, MendedStays

\* The put has ended, and the manifest is the file's as it was fetched.
LEMMA FetchDoneStaysCalm ==
    ASSUME ReadInv, CalmInv, FetchDone(Reader)
    PROVE  CalmInv'
<1> DEFINE k == task[Reader]
           f == k.file
           l == [pc |-> "get", file |-> f,
                 chunk |-> IF k.known THEN k.want ELSE k.fetched, again |-> k.known]
<1>1. /\ k.pc = "stored" /\ call[Reader] = NoCall /\ Heard(Reader)
      /\ task' = [task EXCEPT ![Reader] = l]
      /\ manifests' = Insert(manifests, f, k.fetched)
      /\ UNCHANGED <<version, scanned, answer, failures>>
  BY DEF FetchDone, Continue, Returned
<1>2. ReaderOK(k, call[Reader], reply[Reader]) /\ Mended
  BY DEF CalmInv
<1>3. Reader \in Workers /\ TaskOK(k) /\ VersionsOK
  BY ReadPathAssumption DEF ReadInv, TasksOK
<1>4. /\ f \in Files /\ k.known \in BOOLEAN /\ IsPast(f, k.fetched)
      /\ failures[f] > 0 => k.fetched = Current(f)
      /\ k.known /\ Steady(f) => k.want = Current(f)
      /\ k.known /\ k.fetched = k.want => Good(k.want)
  BY <1>1, <1>2, <1>3, StoringTask DEF ReaderOK, PutGoesOn, At, Writes, NoCall
<1>5. UNCHANGED <<disk, adrift, call>>
  BY <1>1 DEF Heard
<1>6. Steady(f) => k.fetched = Current(f)
  BY <1>3, <1>4, OneVersion DEF Steady
<1>7. f \in DOMAIN manifests' /\ manifests'[f] = k.fetched
  BY <1>1 DEF Insert
<1>8. Mended'
  <2>1. ASSUME NEW g \in Files
        PROVE  /\ failures'[g] < 3
               /\ failures'[g] = 2 /\ g \in DOMAIN manifests' =>
                    Good(manifests[g])' \/ manifests'[g] = Current(g)'
    <3>1. CASE g = f
      BY <1>1, <1>2, <1>6, <1>7, <3>1 DEF Mended, Steady, Current
    <3>2. CASE g # f
      <4>1. g \in DOMAIN manifests' => g \in DOMAIN manifests /\ manifests'[g] = manifests[g]
        BY <1>1, <3>2 DEF Insert
      <4> QED
        BY <1>1, <1>2, <1>5, <4>1 DEF Mended, Current, Good
    <3> QED
      BY <3>1, <3>2
  <2> QED
    BY <2>1 DEF Mended
<1>9. /\ l.pc = "get" /\ l.file = f /\ l.again = k.known
      /\ l.chunk = IF k.known THEN k.want ELSE k.fetched
  OBVIOUS
<1> SUFFICES ASSUME NEW m, m = l
             PROVE  CalmInv'
  OBVIOUS
<1> HIDE DEF l
<1>10. Sought(m)'
  <2>1. Steady(f) => Good(m.chunk) \/ (~m.again /\ m.chunk = Current(f))
    BY <1>4, <1>6, <1>9
  <2>2. failures[f] > 0 => manifests'[f] = Current(f)
    BY <1>4, <1>7
  <2> QED
    BY <1>1, <1>5, <1>7, <1>9, <2>1, <2>2 DEF Sought, Steady, Good, Current
<1>11. ReaderOK(m, call[Reader], reply[Reader])'
  BY <1>1, <1>5, <1>9, <1>10 DEF ReaderOK
<1> QED
  BY <1>1, <1>5, <1>8, <1>11, ReaderMovesCalm

\* The get begins, or there is no such file.
LEMMA GetChunkStaysCalm ==
    ASSUME ReadInv, CalmInv, GetChunk
    PROVE  CalmInv'
<1> DEFINE k == task[Reader]
           l == [k EXCEPT !.pc = "got"]
<1>1. /\ k.pc = "get" /\ call[Reader] = NoCall /\ Get(Reader, k.chunk)
      /\ task' = [task EXCEPT ![Reader] = l]
      /\ UNCHANGED <<version, scanned, manifests, answer, failures>>
  BY DEF GetChunk, Continue, Returned
<1>2. Sought(k)
  BY <1>1 DEF CalmInv, ReaderOK
<1>3. Reader \in Workers /\ TaskOK(k) /\ DOMAIN call = Workers /\ DOMAIN reply = Workers
  BY ReadPathAssumption DEF ReadInv, TasksOK, StoreShape
<1>4. /\ l.pc = "got" /\ l.file = k.file /\ l.chunk = k.chunk /\ l.again = k.again
  BY <1>1, <1>3, TaskByPlace DEF Getting
<1>5. UNCHANGED <<disk, adrift>> /\ \A w \in Prefetchers : call'[w] = call[w]
  BY <1>1, <1>3 DEF Get, Return, Begin, Prefetchers
<1> SUFFICES ASSUME NEW m, m = l
             PROVE  CalmInv'
  OBVIOUS
<1> HIDE DEF l
<1>6. GetGoesOn(m, call[Reader], reply[Reader])'
  <2>1. CASE Exists(k.chunk)
    <3>1. call'[Reader] = [pc |-> "read", chunk |-> k.chunk]
      BY <1>1, <1>3, <2>1 DEF Get, Begin
    <3> QED
      BY <1>4, <1>5, <2>1, <3>1 DEF GetGoesOn, Exists
  <2>2. CASE ~Exists(k.chunk)
    <3>1. call'[Reader] = NoCall /\ reply'[Reader] = [is |-> "not_found"]
      BY <1>1, <1>3, <2>2 DEF Get, Return
    <3> QED
      BY <1>4, <1>5, <2>2, <3>1 DEF GetGoesOn, Exists, Good
  <2> QED
    BY <2>1, <2>2
<1>7. Sought(m)'
  BY <1>1, <1>2, <1>4, <1>5 DEF Sought, Steady, Good, Current
<1>8. ReaderOK(m, call[Reader], reply[Reader])'
  BY <1>4, <1>6, <1>7 DEF ReaderOK
<1> QED
  BY <1>1, <1>5, <1>8, ReaderMovesCalm, MendedStays

\* The torn file is gone.
LEMMA DeletedStaysCalm ==
    ASSUME ReadInv, CalmInv, Deleted
    PROVE  CalmInv'
<1> DEFINE k == task[Reader]
           l == [k EXCEPT !.pc = "fetch"]
<1>1. /\ k.pc = "delete" /\ call[Reader] = NoCall /\ Heard(Reader)
      /\ task' = [task EXCEPT ![Reader] = l]
      /\ UNCHANGED <<version, scanned, manifests, answer, failures>>
  BY DEF Deleted, Continue, Returned
<1>2. ReaderOK(k, call[Reader], reply[Reader])
  BY DEF CalmInv
<1>3. Reader \in Workers /\ TaskOK(k)
  BY ReadPathAssumption DEF ReadInv, TasksOK
<1>4. l.pc = "fetch" /\ l.file = k.file /\ l.known = k.known /\ l.want = k.want
  BY <1>1, <1>3, TaskByPlace DEF Refetching
<1>5. UNCHANGED <<disk, adrift, call>>
  BY <1>1 DEF Heard
<1>6. ~Exists(k.want)
  BY <1>1, <1>2 DEF ReaderOK, DeleteGoesOn, At, NoCall
<1> SUFFICES ASSUME NEW m, m = l
             PROVE  CalmInv'
  OBVIOUS
<1> HIDE DEF l
<1>7. ReaderOK(m, call[Reader], reply[Reader])'
  BY <1>1, <1>2, <1>4, <1>5, <1>6 DEF ReaderOK, Steady, Current, Exists
<1> QED
  BY <1>1, <1>5, <1>7, ReaderMovesCalm, MendedStays

\* A count of failures goes up by one, to three.
LEMMA OneMore ==
    ASSUME NEW n \in 0..3
    PROVE  /\ Min({3, n + 1}) \in 0..3
           /\ n < 3 => Min({3, n + 1}) = n + 1
<1>1. n \in {0, 1, 2, 3}
  OBVIOUS
<1>2. CASE n < 3
  <2> DEFINE m == n + 1
  <2>1. m \in Int /\ m <= 3 /\ {3, m} = {m, 3}
    BY <1>1, <1>2
  <2> HIDE DEF m
  <2>2. Min({3, m}) = m
    BY <2>1 DEF Min
  <2> QED
    BY <1>1, <1>2, <2>2 DEF m
<1>3. CASE n = 3
  <2>1. Min({3, 4}) = 3
    BY DEF Min
  <2> QED
    BY <1>3, <2>1
<1> QED
  BY <1>1, <1>2, <1>3

\* What the get said: the read ends, or starts anew from the origin.
LEMMA GotChunkStaysCalm ==
    ASSUME ReadInv, CalmInv, failures \in [Files -> 0..3], calm, GotChunk
    PROVE  CalmInv'
<1> DEFINE k == task[Reader]
           got == reply[Reader]
<1> SUFFICES ASSUME NEW f, f = k.file
             PROVE  CalmInv'
  OBVIOUS
<1>1. /\ k.pc = "got" /\ call[Reader] = NoCall /\ UNCHANGED <<version, scanned, manifests>>
  BY DEF GotChunk, Returned
<1>2. /\ ReaderOK(k, call[Reader], got) /\ Mended /\ AnswersOK /\ OnlyReader
  BY DEF CalmInv
<1>3. /\ Reader \in Workers /\ TaskOK(k) /\ VersionsOK
      /\ DOMAIN call = Workers /\ DOMAIN reply = Workers /\ DOMAIN task = Workers
  BY ReadPathAssumption DEF ReadInv, TasksOK, StoreShape
<1>4. k \in Getting /\ IsPast(f, k.chunk)
  BY <1>1, <1>3, TaskByPlace
<1>5. f \in Files /\ k.again \in BOOLEAN
  BY <1>4 DEF Getting
<1>6. Sought(k) /\ GetGoesOn(k, call[Reader], got)
  BY <1>1, <1>2 DEF ReaderOK
<1>7. /\ got.is \in {"data", "corrupt", "not_found"}
      /\ got.is # "data" => ~Good(k.chunk)
      /\ got.is = "not_found" => ~Exists(k.chunk)
  BY <1>1, <1>6 DEF GetGoesOn, NoCall
<1>8. /\ Refetch.pc = "fetch" /\ Refetch.known = TRUE /\ Refetch.file = f
      /\ Refetch.want = k.chunk
  BY DEF Refetch
<1>9. ASSUME got.is # "data", ~k.again, Steady(f)
      PROVE  k.chunk = Current(f)
  BY <1>6, <1>7, <1>9 DEF Sought
<1>10. CASE /\ ~k.again /\ got.is = "corrupt"
            /\ Delete(Reader, k.chunk)
            /\ Continue(Reader, [Refetch EXCEPT !.pc = "delete"])
  <2> DEFINE l == [Refetch EXCEPT !.pc = "delete"]
  <2>1. /\ l.pc = "delete" /\ l.known = TRUE /\ l.file = f /\ l.want = k.chunk
    BY DEF Refetch
  <2>2. /\ task' = [task EXCEPT ![Reader] = l] /\ UNCHANGED <<answer, failures>>
    BY <1>10 DEF Continue
  <2>3. UNCHANGED <<disk, adrift>> /\ \A w \in Prefetchers : call'[w] = call[w]
    BY <1>3, <1>10 DEF Delete, Return, Begin, Prefetchers
  <2> SUFFICES ASSUME NEW m, m = l
               PROVE  CalmInv'
    OBVIOUS
  <2> HIDE DEF l
  <2>4. DeleteGoesOn(m.want, call[Reader])' \/ (call'[Reader] = NoCall /\ ~Exists(m.want)')
    <3>1. CASE Exists(k.chunk)
      <4>1. At(call'[Reader], "metadata", k.chunk)
        BY <1>3, <1>10, <3>1 DEF Delete, Begin, At
      <4> QED
        BY <1>7, <1>10, <2>1, <2>3, <3>1, <4>1 DEF DeleteGoesOn, Exists, Good
    <3>2. CASE ~Exists(k.chunk)
      BY <1>3, <1>10, <2>1, <2>3, <3>2 DEF Delete, Return, Exists
    <3> QED
      BY <3>1, <3>2
  <2>5. Steady(f)' => m.want = Current(f)'
    BY <1>1, <1>9, <1>10, <2>1, <2>2 DEF Steady, Current
  <2>6. ReaderOK(m, call[Reader], reply[Reader])'
    BY <1>1, <2>1, <2>2, <2>4, <2>5 DEF ReaderOK
  <2> QED
    BY <1>1, <2>2, <2>3, <2>6, ReaderMovesCalm, MendedStays
<1>11. CASE /\ ~k.again /\ got.is = "not_found"
            /\ Continue(Reader, Refetch) /\ Heard(Reader)
  <2>1. /\ task' = [task EXCEPT ![Reader] = Refetch]
        /\ UNCHANGED <<answer, failures, disk, adrift, call>>
    BY <1>11 DEF Continue, Heard
  <2> SUFFICES ASSUME NEW m, m = Refetch
               PROVE  CalmInv'
    OBVIOUS
  <2>2. Steady(f)' => m.want = Current(f)'
    BY <1>1, <1>8, <1>9, <1>11, <2>1 DEF Steady, Current
  <2>3. ~Exists(m.want)'
    BY <1>7, <1>8, <1>11, <2>1 DEF Exists
  <2>4. ReaderOK(m, call[Reader], reply[Reader])'
    BY <1>1, <1>8, <2>1, <2>2, <2>3 DEF ReaderOK
  <2> QED
    BY <1>1, <2>1, <2>4, ReaderMovesCalm, MendedStays
<1>12. CASE /\ ~(~k.again /\ got.is \in {"corrupt", "not_found"})
            /\ Finish(Reader, got) /\ Heard(Reader)
  <2>1. /\ task' = [task EXCEPT ![Reader] = NoTask] /\ UNCHANGED <<disk, adrift, call>>
        /\ answer' = IF got.is = "data"
                     THEN [is |-> "data", file |-> f, got |-> got, upto |-> Upto(f, got.chunk)]
                     ELSE [is |-> "failed", file |-> f, of |-> got.is]
        /\ failures' = [failures EXCEPT ![f] = IF got.is = "data" \/ ~calm THEN 0
                                               ELSE Min({3, @ + 1})]
    BY <1>12 DEF Finish, Heard
  <2>2. OnlyReader'
    BY <1>2, <1>3, <2>1 DEF OnlyReader, Prefetchers
  <2>3. ReaderOK(task[Reader], call[Reader], reply[Reader])'
    BY <1>1, <1>3, <2>1 DEF ReaderOK, NoTask
  <2>4. CASE got.is = "data"
    <3>1. AnswersOK'
      BY <2>1, <2>4 DEF AnswersOK
    <3>2. failures' = [failures EXCEPT ![f] = 0]
      BY <2>1, <2>4
    <3>3. Mended'
      BY <1>1, <1>2, <1>5, <2>1, <3>2 DEF Mended, Good, Current
    <3> QED
      BY <2>2, <2>3, <3>1, <3>3 DEF CalmInv
  <2>5. CASE got.is # "data"
    <3>1. k.again /\ ~Good(k.chunk)
      BY <1>5, <1>7, <1>12, <2>5
    <3>2. version[f] # scanned[f] /\ failures[f] # 2
      BY <1>6, <3>1 DEF Sought, Steady
    <3>3. failures[f] \in 0..3 /\ failures[f] < 3
      BY <1>2, <1>5 DEF Mended
    <3>4. version[f] > scanned[f]
      <4>1. version[f] \in Nat /\ scanned[f] \in 1..version[f]
        BY <1>3, <1>5 DEF VersionsOK
      <4> QED
        BY <3>2, <4>1
    <3>5. failures' = [failures EXCEPT ![f] = @ + 1]
      BY <2>1, <2>5, <3>3, OneMore
    <3>6. failures'[f] = failures[f] + 1 /\ \A g \in Files \ {f} : failures'[g] = failures[g]
      BY <1>5, <3>5
    <3>7. failures'[f] < 3 /\ (failures'[f] = 2 => failures[f] > 0)
      BY <3>2, <3>3, <3>6
    <3>8. failures'[f] = 2 => manifests'[f] = Current(f)'
      BY <1>1, <1>6, <3>1, <3>7 DEF Sought, Current
    <3>9. Mended'
      BY <1>1, <1>2, <2>1, <3>6, <3>7, <3>8 DEF Mended, Good, Current
    <3>10. answer' = [is |-> "failed", file |-> f, of |-> got.is]
      BY <2>1, <2>5
    <3>11. AnswersOK'
      BY <1>1, <1>5, <3>4, <3>10 DEF AnswersOK
    <3> QED
      BY <2>2, <2>3, <3>9, <3>11 DEF CalmInv
  <2> QED
    BY <2>4, <2>5
<1> QED
  BY <1>10, <1>11, <1>12 DEF GotChunk

\* A change at the origin: the next read of that file may fail, and its
\* failures are counted from there.
LEMMA ChangeStaysCalm ==
    ASSUME ReadInv, CalmInv, failures \in [Files -> 0..3], NEW f \in Files, OriginChange(f)
    PROVE  CalmInv'
<1> DEFINE k == task[Reader]
<1>1. /\ version' = [version EXCEPT ![f] = @ + 1] /\ failures' = [failures EXCEPT ![f] = 0]
      /\ UNCHANGED <<store, scanned, manifests, task, answer>>
  BY DEF OriginChange
<1>2. /\ OnlyReader /\ Mended /\ AnswersOK /\ ReaderOK(k, call[Reader], reply[Reader])
  BY DEF CalmInv
<1>3. /\ version \in [Files -> Nat] /\ scanned \in [Files -> Nat]
      /\ \A g \in Files : scanned[g] <= version[g]
  BY DEF ReadInv, VersionsOK
<1>4. version'[f] = version[f] + 1 /\ version'[f] > scanned[f] /\ failures'[f] = 0
  BY <1>1, <1>3
<1>5. \A g : g # f => version'[g] = version[g] /\ failures'[g] = failures[g]
  BY <1>1
<1>6. ~Steady(f)' /\ \A g : g # f => (Steady(g)' <=> Steady(g)) /\ Current(g)' = Current(g)
  BY <1>1, <1>3, <1>4, <1>5 DEF Steady, Current
<1>7. OnlyReader'
  BY <1>1, <1>2 DEF OnlyReader, store
<1>8. Mended'
  BY <1>1, <1>2, <1>4, <1>5, <1>6 DEF Mended, Good, store
<1>9. AnswersOK'
  BY <1>1, <1>2, <1>4, <1>5 DEF AnswersOK
<1> SUFFICES ASSUME NEW m, m = k
             PROVE  CalmInv'
  OBVIOUS
<1> HIDE DEF k
<1>10. UNCHANGED <<disk, call, reply>> /\ task'[Reader] = m
  BY <1>1 DEF store, k
<1>11. ASSUME Sought(m)
       PROVE  Sought(m)'
  <2>1. CASE m.file = f
    BY <1>4, <1>6, <2>1 DEF Sought
  <2>2. CASE m.file # f
    BY <1>1, <1>5, <1>6, <1>10, <1>11, <2>2 DEF Sought, Good
  <2> QED
    BY <2>1, <2>2
<1>12. ReaderOK(m, call[Reader], reply[Reader])'
  <2>1. ReaderOK(m, call[Reader], reply[Reader])
    BY <1>2
  <2>2. /\ GetGoesOn(m, call[Reader], reply[Reader])' = GetGoesOn(m, call[Reader], reply[Reader])
        /\ DeleteGoesOn(m.want, call[Reader])' = DeleteGoesOn(m.want, call[Reader])
        /\ PutGoesOn(m.fetched, call[Reader])' = PutGoesOn(m.fetched, call[Reader])
        /\ Good(m.want)' = Good(m.want) /\ Exists(m.want)' = Exists(m.want)
    BY <1>10 DEF GetGoesOn, DeleteGoesOn, PutGoesOn, Good, Exists
  <2>3. CASE m.file = f
    BY <1>4, <1>6, <1>10, <1>11, <2>1, <2>2, <2>3 DEF ReaderOK
  <2>4. CASE m.file # f
    BY <1>5, <1>6, <1>10, <1>11, <2>1, <2>2, <2>4 DEF ReaderOK
  <2> QED
    BY <2>3, <2>4
<1> QED
  BY <1>7, <1>8, <1>9, <1>10, <1>12 DEF CalmInv

\* A restart calms: nobody is in a call, and no manifest is known.
LEMMA RestartCalms ==
    ASSUME failures \in [Files -> 0..3], calm => CalmInv, Restart
    PROVE  CalmInv' /\ failures' \in [Files -> 0..3]
<1>1. /\ call' = [w \in Workers |-> NoCall] /\ adrift' = {}
      /\ manifests' = EmptyMap /\ task' = [w \in Workers |-> NoTask] /\ answer' = NoAnswer
  BY DEF Restart, Crash, PowerLoss, Reopen
<1>2. failures' = IF calm THEN failures ELSE [f \in Files |-> 0]
  BY DEF Restart
<1>3. failures' \in [Files -> 0..3] /\ \A f \in Files : failures'[f] < 3
  <2>1. CASE calm
    BY <1>2, <2>1 DEF CalmInv, Mended
  <2>2. CASE ~calm
    BY <1>2, <2>2
  <2> QED
    BY <2>1, <2>2
<1>4. OnlyReader'
  BY <1>1 DEF OnlyReader, Prefetchers
<1>5. Mended'
  BY <1>1, <1>3 DEF Mended, EmptyMap
<1>6. AnswersOK'
  BY <1>1 DEF AnswersOK, NoAnswer
<1>7. ReaderOK(task[Reader], call[Reader], reply[Reader])'
  BY <1>1, ReadPathAssumption DEF ReaderOK, NoTask
<1> QED
  BY <1>3, <1>4, <1>5, <1>6, <1>7 DEF CalmInv

\* The failures of a file stay a count, up to three.
LEMMA FailuresCount ==
    ASSUME failures \in [Files -> 0..3], ReadPathStep
    PROVE  failures' \in [Files -> 0..3]
<1>1. ASSUME NEW w, NEW result, Finish(w, result)
      PROVE  failures' \in [Files -> 0..3]
  <2>1. CASE w # Reader
    BY <1>1, <2>1 DEF Finish
  <2>2. CASE w = Reader
    <3> DEFINE f == task[w].file
               n == IF result.is = "data" \/ ~calm THEN 0 ELSE Min({3, failures[f] + 1})
    <3>1. failures' = [failures EXCEPT ![f] = n]
      BY <1>1, <2>2 DEF Finish
    <3>2. f \in Files => n \in 0..3
      BY OneMore
    <3> HIDE DEF f, n
    <3> QED
      BY <3>1, <3>2
  <2> QED
    BY <2>1, <2>2
<1>2. ASSUME NEW w, NEW k, Continue(w, k)
      PROVE  failures' \in [Files -> 0..3]
  BY <1>2 DEF Continue
<1>3. ASSUME NEW f \in Files, Read(f) \/ OriginChange(f) \/ \E w \in Prefetchers : Prefetch(w, f)
      PROVE  failures' \in [Files -> 0..3]
  BY <1>3 DEF Read, OriginChange, Prefetch
<1>4. ASSUME NEW w \in Workers, FetchRead(w) \/ FetchPut(w) \/ FetchDone(w)
      PROVE  failures' \in [Files -> 0..3]
  BY <1>1, <1>2, <1>4 DEF FetchRead, FetchPut, FetchDone
<1>5. CASE GetChunk \/ GotChunk \/ Deleted
  BY <1>1, <1>2, <1>5 DEF GetChunk, GotChunk, Deleted
<1>6. CASE StoreStep \/ ReadTimeout
  BY <1>1, <1>6 DEF StoreStep, ReadTimeout
<1> QED
  BY <1>3, <1>4, <1>5, <1>6 DEF ReadPathStep

\* Every step that leaves the calm undisturbed keeps it as it is.
LEMMA CalmStep ==
    ASSUME ReadInv, CalmInv, failures \in [Files -> 0..3], calm, MaxSize # 0,
           ReadPathStep, ~Disturbed'
    PROVE  CalmInv'
<1>1. OnlyReader
  BY DEF CalmInv
<1>2. Reader \in Workers /\ DOMAIN task = Workers /\ StoreShape
  BY ReadPathAssumption DEF ReadInv, TasksOK
<1>3. ASSUME NEW f \in Files, Read(f) \/ OriginChange(f)
      PROVE  CalmInv'
  BY <1>3, ReadStaysCalm, ChangeStaysCalm
<1>4. ASSUME NEW f \in Files, NEW w \in Prefetchers, Prefetch(w, f)
      PROVE  FALSE
  <2>1. task'[w] # NoTask
    BY <1>2, <1>4 DEF Prefetch, Prefetchers, NoTask
  <2> QED
    BY <2>1 DEF Disturbed
<1>5. ASSUME NEW w \in Workers, FetchRead(w) \/ FetchPut(w) \/ FetchDone(w)
      PROVE  CalmInv'
  <2>1. w = Reader
    BY <1>1, <1>5 DEF OnlyReader, Prefetchers, FetchRead, FetchPut, FetchDone, NoTask
  <2> QED
    BY <1>5, <2>1, FetchReadStaysCalm, FetchPutStaysCalm, FetchDoneStaysCalm
<1>6. CASE GetChunk \/ GotChunk \/ Deleted
  BY <1>6, GetChunkStaysCalm, GotChunkStaysCalm, DeletedStaysCalm
<1>7. CASE StoreStep
  BY <1>7, StoreStepStaysCalm DEF Unharmed, Disturbed
<1>8. CASE ReadTimeout
  BY <1>8 DEF ReadTimeout, Finish, TimedOut, Disturbed
<1> QED
  BY <1>3, <1>4, <1>5, <1>6, <1>7, <1>8 DEF ReadPathStep

\* The inductive invariant of the calm: a reader that has the store for itself
\* finds the chunk it goes for whole, or has a fetch of the file left that
\* mends both the chunk and the manifest.
THEOREM SteadyInvariance == ASSUME MaxSize # 0 PROVE ReadPathSpec => []SteadyInv
<1>1. ReadPathInit => SteadyInv
  <2> SUFFICES ASSUME ReadPathInit
               PROVE  SteadyInv
    OBVIOUS
  <2>1. StoreShape /\ VersionsOK
    BY ReadPathAssumption DEF ReadPathInit, Init, StoreShape, NoCall, VersionsOK
  <2>2. ManifestsOK /\ AnswerOK /\ ReadsAreRight
    BY DEF ReadPathInit, ManifestsOK, EmptyMap, AnswerOK, ReadsAreRight, NoAnswer
  <2>3. TasksOK
    BY DEF ReadPathInit, Init, TasksOK, TaskOK, GetOK, NoCall, NoReply
  <2>4. failures \in [Files -> 0..3] /\ \A f \in Files : failures[f] = 0
    BY DEF ReadPathInit
  <2>5. OnlyReader
    BY DEF ReadPathInit, Init, OnlyReader, Prefetchers
  <2>6. Mended /\ AnswersOK
    BY <2>4 DEF ReadPathInit, Mended, EmptyMap, AnswersOK, NoAnswer
  <2>7. ReaderOK(task[Reader], call[Reader], reply[Reader])
    BY ReadPathAssumption DEF ReadPathInit, Init, ReaderOK, NoTask
  <2> QED
    BY <2>1, <2>2, <2>3, <2>4, <2>5, <2>6, <2>7 DEF SteadyInv, ReadInv, CalmInv
<1>2. SteadyInv /\ [ReadPathNext]_vars => SteadyInv'
  <2> SUFFICES ASSUME SteadyInv, [ReadPathNext]_vars
               PROVE  SteadyInv'
    OBVIOUS
  <2>1. ReadInv /\ ReadInv' /\ failures \in [Files -> 0..3] /\ (calm => CalmInv)
    BY ReadStep DEF SteadyInv
  <2>2. CASE ReadPathStep /\ calm' = (calm /\ ~Disturbed')
    BY <2>1, <2>2, CalmStep, FailuresCount DEF SteadyInv
  <2>3. CASE Restart
    BY <2>1, <2>3, RestartCalms DEF SteadyInv
  <2>4. CASE UNCHANGED vars
    <3>1. CalmInv => CalmInv'
      BY <2>4 DEF vars, store, reading, CalmInv, OnlyReader, Mended, AnswersOK, Good,
                  Current, ReaderOK, Sought, Steady, GetGoesOn, PutGoesOn, DeleteGoesOn, Exists
    <3> QED
      BY <2>1, <2>4, <3>1 DEF SteadyInv, vars, reading
  <2> QED
    BY <2>2, <2>3, <2>4 DEF ReadPathNext
<1> QED
  BY <1>1, <1>2, PTL DEF ReadPathSpec

\* In calm no read of a file fails that has not changed at the origin since the
\* mount, whatever an earlier run left in the store (FileReader::read, with its
\* one refetch).
THEOREM UnchangedReadsGoOn ==
    ASSUME MaxSize # 0 PROVE ReadPathSpec => []UnchangedReadsSucceed
<1>1. SteadyInv => UnchangedReadsSucceed
  BY DEF SteadyInv, CalmInv, AnswersOK, UnchangedReadsSucceed, ReadsSucceed
<1> QED
  BY <1>1, SteadyInvariance, PTL

\* In calm no third read of a file in a row fails that has not changed since,
\* for any number of versions (the manifest FileReader keeps after a refetch).
THEOREM FailuresEnd == ASSUME MaxSize # 0 PROVE ReadPathSpec => []FailsAtMostTwice
<1>1. SteadyInv => FailsAtMostTwice
  BY DEF SteadyInv, CalmInv, Mended, FailsAtMostTwice
<1> QED
  BY <1>1, SteadyInvariance, PTL

----------------------------------------------------------------------------
(* The size of the store.                                                  *)

\* A call, under way or adrift, has what its place needs.
CallOK(k) ==
    /\ "pc" \in DOMAIN k
    /\ k.pc \in {"limit", "open", "read", "metadata", "remove", "unindex", "uncount"} \cup Writing =>
         "chunk" \in DOMAIN k /\ k.chunk \in Chunks
    /\ k.pc \in Writing => {"linked", "left"} \subseteq DOMAIN k /\ k.left \subseteq Units
    /\ k.pc = "write" => k.left # {}
    /\ k.pc \in {"remove", "unindex", "uncount"} =>
         "length" \in DOMAIN k /\ k.length \in 0..Size

StoreTyped ==
    /\ DOMAIN disk \subseteq Chunks /\ \A c \in DOMAIN disk : disk[c] \subseteq Units
    /\ current_size \in 0..(Width - 1) /\ missed \in 0..MaxMissed
    /\ DOMAIN call = Workers /\ \A w \in Workers : CallOK(call[w])
    /\ \A a \in adrift : CallOK(a)

\* Of a chunk's file a unit counts against the counter that is there, that a
\* writer is at, or that somebody deletes who saw it there.
WritesTo(k, c) == k.pc \in Writing /\ k.linked /\ k.chunk = c
Backs(k, c, i) == WritesTo(k, c) \/ (k.pc = "remove" /\ k.chunk = c /\ i <= k.length)

Backed(c, i) ==
    \/ i <= Length(disk[c])
    \/ \E w \in Workers : Backs(call[w], c, i)
    \/ \E a \in adrift : WritesTo(a, c)

OnFiles == {s \in (DOMAIN disk) \X Units : Backed(s[1], s[2])}

\* What an open of a dropped call may still bring, and what was removed and is
\* still counted.
ToOpen == {a \in adrift : a.pc = "open"}
Frees(k, i) == k.pc \in {"unindex", "uncount"} /\ i <= k.length
Freed == {s \in Workers \X Units : Frees(call[s[1]], s[2])}

\* Who wrote or writes and will count, and who passed the limit.
InWriting == {w \in Workers : call[w].pc \in Writing}
Going == {w \in Workers : call[w].pc \in {"open"} \cup Writing}
Underway == Going # {} \/ \E a \in adrift : a.pc \in {"open", "write"}

Balanced ==
    Cardinality(OnFiles) + Size * Cardinality(ToOpen) + Cardinality(Freed)
      <= Counted + Size * missed + Size * Cardinality(InWriting)

Limited ==
    /\ Counted + Size * Cardinality(Going)
         <= MaxSize + Size * Cardinality(Chunks) + Size * Cardinality(Workers)
    /\ Underway =>
         Counted + Size * Cardinality(Going) <= MaxSize - Size + Size * Cardinality(Workers)

SizeInv == StoreTyped /\ IsFiniteSet(ToOpen) /\ Balanced /\ Limited

\* The counter has room for all there may be to count, and there is a limit:
\* without one puts and deletions that race can move it without bound.
Roomy ==
    /\ IsFiniteSet(Workers) /\ IsFiniteSet(Chunks) /\ MaxSize > 0
    /\ MaxSize + Size * Cardinality(Chunks) + Size * Cardinality(Workers) <= Width \div 2
    /\ Size * (MaxMissed + Cardinality(Workers)) < Width \div 2

\* The first n numbers.
LEMMA FirstNumbers ==
    ASSUME NEW n \in Nat
    PROVE  IsFiniteSet(1..n) /\ Cardinality(1..n) = n
BY FS_Interval

\* A chunk is two units long.
LEMMA TwoUnits == Units = 1..2 /\ IsFiniteSet(Units) /\ Size = 2
<1>1. Units = 1..2
  BY DEF Units
<1>2. IsFiniteSet(1..2) /\ Cardinality(1..2) = 2
  BY FirstNumbers
<1> QED
  BY <1>1, <1>2 DEF Size

\* The length of a file, which more units do not make less.
LEMMA LengthOf ==
    ASSUME NEW u \in SUBSET Units, NEW v \in SUBSET u
    PROVE  /\ Length(u) \in 0..2 /\ Length(v) \in 0..2 /\ Length(v) <= Length(u)
           /\ Length({}) = 0
<1>1. Length({}) = 0
  BY DEF Length
<1>2. Max({1}) = 1 /\ Max({2}) = 2 /\ Max({1, 2}) = 2
  BY DEF Max
<1>3. Length({1}) = 1 /\ Length({2}) = 2 /\ Length({1, 2}) = 2
  BY <1>2 DEF Length
<1>4. u \in {{}, {1}, {2}, {1, 2}} /\ v \in {{}, {1}, {2}, {1, 2}}
  BY DEF Units
<1>5. Length(u) \in 0..2 /\ Length(v) \in 0..2
  BY <1>1, <1>3, <1>4
<1>6. Length(v) <= Length(u)
  <2>1. CASE v = u
    BY <1>5, <2>1
  <2>2. CASE v = {}
    BY <1>1, <1>5, <2>2
  <2>3. CASE u = {1, 2}
    BY <1>3, <1>5, <2>3
  <2> QED
    BY <1>4, <2>1, <2>2, <2>3
<1> QED
  BY <1>1, <1>5, <1>6

\* Fewer, as many more, and as many less.
LEMMA Fewer ==
    ASSUME NEW S, NEW T, IsFiniteSet(S), T \subseteq S
    PROVE  /\ IsFiniteSet(T) /\ Cardinality(T) \in Nat /\ Cardinality(S) \in Nat
           /\ Cardinality(T) <= Cardinality(S)
BY FS_Subset, FS_CardinalityType

LEMMA AsManyMore ==
    ASSUME NEW S, NEW B, NEW T, IsFiniteSet(S), IsFiniteSet(B), T \subseteq S \cup B
    PROVE  /\ IsFiniteSet(T) /\ Cardinality(T) <= Cardinality(S) + Cardinality(B)
           /\ Cardinality(T) \in Nat /\ Cardinality(S) \in Nat /\ Cardinality(B) \in Nat
<1>1. /\ IsFiniteSet(S \cup B) /\ IsFiniteSet(S \cap B)
      /\ Cardinality(S \cup B) = Cardinality(S) + Cardinality(B) - Cardinality(S \cap B)
  BY FS_Union, FS_Intersection
<1>2. Cardinality(S \cap B) \in Nat /\ Cardinality(S) \in Nat /\ Cardinality(B) \in Nat
  BY <1>1, FS_CardinalityType
<1>3. IsFiniteSet(T) /\ Cardinality(T) \in Nat /\ Cardinality(T) <= Cardinality(S \cup B)
  BY <1>1, FS_Subset, FS_CardinalityType
<1> QED
  BY <1>1, <1>2, <1>3

LEMMA AsManyLess ==
    ASSUME NEW S, NEW B, NEW T, IsFiniteSet(S), B \subseteq S, T \subseteq S \ B
    PROVE  /\ IsFiniteSet(T) /\ Cardinality(T) + Cardinality(B) <= Cardinality(S)
           /\ Cardinality(T) \in Nat /\ Cardinality(S) \in Nat /\ Cardinality(B) \in Nat
<1>1. IsFiniteSet(S \ B) /\ Cardinality(S \ B) = Cardinality(S) - Cardinality(S \cap B)
  BY FS_Difference
<1>2. Cardinality(S \cap B) = Cardinality(B)
  <2>1. S \cap B = B
    OBVIOUS
  <2> QED
    BY <2>1, Zenon
<1>3. IsFiniteSet(T) /\ Cardinality(T) \in Nat /\ Cardinality(T) <= Cardinality(S \ B)
  BY <1>1, FS_Subset, FS_CardinalityType
<1>4. Cardinality(S) \in Nat /\ IsFiniteSet(B) /\ Cardinality(B) \in Nat
  BY FS_Subset, FS_CardinalityType
<1> QED
  BY <1>1, <1>2, <1>3, <1>4

\* The first n units of one file.
LEMMA FirstUnits ==
    ASSUME NEW x, NEW n \in 0..2
    PROVE  IsFiniteSet({x} \X (1..n)) /\ Cardinality({x} \X (1..n)) = n
<1>1. IsFiniteSet({x}) /\ Cardinality({x}) = 1
  BY FS_Singleton
<1>2. IsFiniteSet(1..n) /\ Cardinality(1..n) = n
  BY FirstNumbers
<1>3. IsFiniteSet({x} \X (1..n)) /\ Cardinality({x} \X (1..n)) = 1 * n
  BY <1>1, <1>2, FS_Product
<1> QED
  BY <1>3

\* What is counted is so many.
LEMMA Finite ==
    ASSUME Roomy, StoreTyped
    PROVE  /\ IsFiniteSet(OnFiles) /\ IsFiniteSet(Freed)
           /\ IsFiniteSet(InWriting) /\ IsFiniteSet(Going)
           /\ Cardinality(OnFiles) \in Nat /\ Cardinality(Freed) \in Nat
           /\ Cardinality(InWriting) \in Nat /\ Cardinality(Going) \in Nat
           /\ Cardinality(Workers) \in Nat /\ Cardinality(Chunks) \in Nat
           /\ Cardinality(InWriting) <= Cardinality(Going)
           /\ Cardinality(Going) <= Cardinality(Workers)
           /\ Cardinality(OnFiles) <= 2 * Cardinality(Chunks)
<1>1. IsFiniteSet(Workers) /\ IsFiniteSet(Chunks) /\ IsFiniteSet(Units) /\ Cardinality(Units) = 2
  BY TwoUnits DEF Roomy, Size
<1>2. /\ IsFiniteSet(Workers \X Units) /\ IsFiniteSet(Chunks \X Units)
      /\ Cardinality(Chunks \X Units) = Cardinality(Chunks) * 2
  BY <1>1, FS_Product
<1>3. Freed \subseteq Workers \X Units /\ OnFiles \subseteq Chunks \X Units
  BY DEF Freed, OnFiles, StoreTyped
<1>4. Going \subseteq Workers /\ InWriting \subseteq Going
  BY DEF Going, InWriting
<1>5. IsFiniteSet(Freed) /\ Cardinality(Freed) \in Nat
  BY <1>2, <1>3, Fewer
<1>6. IsFiniteSet(OnFiles) /\ Cardinality(OnFiles) \in Nat /\ Cardinality(OnFiles) <= Cardinality(Chunks \X Units)
  BY <1>2, <1>3, Fewer
<1>7. /\ IsFiniteSet(Going) /\ Cardinality(Going) \in Nat /\ Cardinality(Workers) \in Nat
      /\ Cardinality(Going) <= Cardinality(Workers)
  BY <1>1, <1>4, Fewer
<1>8. /\ IsFiniteSet(InWriting) /\ Cardinality(InWriting) \in Nat
      /\ Cardinality(InWriting) <= Cardinality(Going)
  BY <1>4, <1>7, Fewer
<1>9. Cardinality(Chunks) \in Nat
  BY <1>1, FS_CardinalityType
<1> QED
  BY <1>2, <1>5, <1>6, <1>7, <1>8, <1>9

\* What the counter says, below and above zero.
LEMMA CountedIs ==
    ASSUME StoreTyped
    PROVE  /\ Counted \in Int /\ current_size \in 0..(Width - 1) /\ Width \in Nat
           /\ Width \div 2 \in Nat /\ 2 * (Width \div 2) <= Width
           /\ Counted = IF current_size > Width \div 2 THEN current_size - Width ELSE current_size
BY CasAssumption DEF StoreTyped, Counted

\* Within its room the counter counts.
LEMMA Recounted ==
    ASSUME StoreTyped, NEW d \in -2..2, current_size' = (current_size + d) % Width,
           Counted + d <= Width \div 2, Counted + d > -(Width \div 2)
    PROVE  Counted' = Counted + d /\ current_size' \in 0..(Width - 1)
<1> DEFINE C == Counted
           W == Width
           H == Width \div 2
           s == current_size
           m == s + d
<1>1. /\ C \in Int /\ s \in 0..(W - 1) /\ W \in Nat /\ H \in Nat /\ 2 * H <= W
      /\ C = IF s > H THEN s - W ELSE s
  BY CountedIs
<1>2. W > 2
  BY CasAssumption
<1>3. m \in Int /\ m >= -2 /\ m < W + 2 /\ -W <= m /\ m < 2 * W
  BY <1>1, <1>2
<1>4. m % W = IF m < 0 THEN m + W ELSE IF m >= W THEN m - W ELSE m
  <2> HIDE DEF m, W
  <2>1. CASE m < 0
    BY <1>1, <1>2, <1>3, <2>1
  <2>2. CASE m >= W
    BY <1>1, <1>2, <1>3, <2>2
  <2>3. CASE m >= 0 /\ m < W
    BY <1>1, <1>2, <1>3, <2>3
  <2> QED
    BY <1>1, <1>3, <2>1, <2>2, <2>3
<1>5. s' = m % W
  OBVIOUS
<1>6. C' = IF s' > H THEN s' - W ELSE s'
  BY DEF Counted
<1> HIDE DEF C, H
<1>7. C + d <= H /\ C + d > -H
  BY DEF C, H
<1>8. s' \in 0..(W - 1)
  BY <1>1, <1>3, <1>4, <1>5
<1>9. C' = C + d
  BY <1>1, <1>4, <1>5, <1>6, <1>7
<1> QED
  BY <1>8, <1>9 DEF C

\* The limit holds on where no more are under way and nothing is counted.
LEMMA LimitStays ==
    ASSUME Roomy, SizeInv, StoreTyped', Going' \subseteq Going, Underway' => Underway,
           UNCHANGED current_size
    PROVE  Limited'
<1>1. Counted' = Counted
  BY DEF Counted
<1>2. Cardinality(Going') <= Cardinality(Going) /\ Cardinality(Going') \in Nat
      /\ Cardinality(Going) \in Nat /\ Cardinality(Workers) \in Nat /\ Cardinality(Chunks) \in Nat
  BY Finite, Fewer DEF SizeInv
<1>3. Counted \in Int /\ MaxSize \in Nat /\ Size = 2
  BY CountedIs, TwoUnits, CasAssumption DEF SizeInv
<1> QED
  BY <1>1, <1>2, <1>3 DEF Limited, SizeInv

\* The balance holds on where there are no more units, opens and pending
\* deletions, nothing is counted, and who writes no more was missed.
LEMMA BalanceStays ==
    ASSUME Roomy, SizeInv, StoreTyped', NEW w,
           OnFiles' \subseteq OnFiles, ToOpen' \subseteq ToOpen, Freed' \subseteq Freed,
           UNCHANGED current_size,
           \/ missed' = missed /\ InWriting \subseteq InWriting'
           \/ missed' = missed + 1 /\ InWriting \ {w} \subseteq InWriting'
    PROVE  IsFiniteSet(ToOpen') /\ Balanced'
<1> DEFINE o == Cardinality(OnFiles)
           t == Cardinality(ToOpen)
           f == Cardinality(Freed)
           i == Cardinality(InWriting)
           o1 == Cardinality(OnFiles')
           t1 == Cardinality(ToOpen')
           f1 == Cardinality(Freed')
           i1 == Cardinality(InWriting')
           C == Counted
           m == missed
           m1 == missed'
<1>1. StoreTyped /\ IsFiniteSet(ToOpen) /\ Balanced
  BY DEF SizeInv
<1>2. /\ IsFiniteSet(OnFiles) /\ IsFiniteSet(Freed) /\ IsFiniteSet(InWriting)
      /\ o \in Nat /\ f \in Nat /\ i \in Nat
  BY <1>1, Finite
<1>3. IsFiniteSet(InWriting') /\ i1 \in Nat
  <2>1. InWriting' \subseteq Workers /\ IsFiniteSet(Workers)
    BY DEF InWriting, Roomy
  <2> QED
    BY <2>1, Fewer
<1>4. o1 \in Nat /\ o1 <= o
  BY <1>2, Fewer
<1>5. f1 \in Nat /\ f1 <= f
  BY <1>2, Fewer
<1>6. IsFiniteSet(ToOpen') /\ t1 \in Nat /\ t1 <= t /\ t \in Nat
  BY <1>1, Fewer
<1>7. \/ m1 = m /\ i <= i1
      \/ m1 = m + 1 /\ i <= i1 + 1
  <2>1. CASE m1 = m /\ InWriting \subseteq InWriting'
    BY <1>3, <2>1, Fewer
  <2>2. CASE m1 = m + 1 /\ InWriting \ {w} \subseteq InWriting'
    <3>1. InWriting \subseteq InWriting' \cup {w}
      BY <2>2
    <3>2. IsFiniteSet({w}) /\ Cardinality({w}) = 1
      BY FS_Singleton
    <3>3. i <= i1 + Cardinality({w})
      BY <1>3, <3>1, <3>2, AsManyMore
    <3> QED
      BY <2>2, <3>2, <3>3
  <2> QED
    BY <2>1, <2>2
<1>8. Counted' = C /\ C \in Int /\ m \in Nat /\ m1 \in Nat
  BY <1>1, CountedIs, CasAssumption DEF Counted, StoreTyped
<1>9. o + 2 * t + f <= C + 2 * m + 2 * i
  BY <1>1, TwoUnits DEF Balanced
<1> HIDE DEF o, t, f, i, o1, t1, f1, i1, C, m, m1
<1>10. o1 + 2 * t1 + f1 <= C + 2 * m1 + 2 * i1
  BY <1>2, <1>3, <1>4, <1>5, <1>6, <1>7, <1>8, <1>9
<1>11. Balanced'
  BY <1>8, <1>10, TwoUnits DEF Balanced, o1, t1, f1, i1, m1
<1> QED
  BY <1>6, <1>11

\* One call becomes another; the disk, the counter and what is adrift stay.
LEMMA QuietBalance ==
    ASSUME Roomy, SizeInv, NEW w \in Workers, NEW k, call' = [call EXCEPT ![w] = k],
           UNCHANGED <<disk, current_size, adrift>>, CallOK(k),
           \A c \in DOMAIN disk, i \in Units : Backs(k, c, i) => Backed(c, i),
           \A i \in Units : Frees(k, i) => Frees(call[w], i),
           missed' \in 0..MaxMissed,
           \/ missed' = missed /\ (call[w].pc \in Writing => k.pc \in Writing)
           \/ missed' = missed + 1
    PROVE  StoreTyped' /\ IsFiniteSet(ToOpen') /\ Balanced'
<1>1. StoreTyped /\ DOMAIN call = Workers
  BY DEF SizeInv, StoreTyped
<1>2. call'[w] = k /\ \A v \in Workers : v # w => call'[v] = call[v]
  BY <1>1
<1>3. StoreTyped'
  BY <1>1, <1>2 DEF StoreTyped
<1>4. OnFiles' \subseteq OnFiles
  <2>1. ASSUME NEW c \in DOMAIN disk, NEW i \in Units, Backed(c, i)'
        PROVE  Backed(c, i)
    <3>1. CASE i <= Length(disk'[c])
      BY <3>1 DEF Backed
    <3>2. ASSUME NEW v \in Workers, Backs(call'[v], c, i)
          PROVE  Backed(c, i)
      BY <1>2, <3>2 DEF Backed
    <3>3. CASE \E a \in adrift' : WritesTo(a, c)
      BY <3>3 DEF Backed
    <3> QED
      BY <2>1, <3>1, <3>2, <3>3 DEF Backed
  <2> QED
    BY <2>1 DEF OnFiles
<1>5. ToOpen' \subseteq ToOpen
  BY DEF ToOpen
<1>6. Freed' \subseteq Freed
  BY <1>2 DEF Freed
<1>7. \/ missed' = missed /\ InWriting \subseteq InWriting'
      \/ missed' = missed + 1 /\ InWriting \ {w} \subseteq InWriting'
  BY <1>2 DEF InWriting
<1> QED
  BY <1>3, <1>4, <1>5, <1>6, <1>7, BalanceStays

\* The same where no put passes the limit.
LEMMA QuietCall ==
    ASSUME Roomy, SizeInv, NEW w \in Workers, NEW k, call' = [call EXCEPT ![w] = k],
           UNCHANGED <<disk, current_size, adrift>>, CallOK(k),
           \A c \in DOMAIN disk, i \in Units : Backs(k, c, i) => Backed(c, i),
           \A i \in Units : Frees(k, i) => Frees(call[w], i),
           missed' \in 0..MaxMissed,
           \/ missed' = missed /\ (call[w].pc \in Writing => k.pc \in Writing)
           \/ missed' = missed + 1,
           k.pc \in {"open"} \cup Writing => call[w].pc \in {"open"} \cup Writing
    PROVE  SizeInv'
<1>1. StoreTyped' /\ IsFiniteSet(ToOpen') /\ Balanced'
  BY QuietBalance
<1>2. DOMAIN call = Workers
  BY DEF SizeInv, StoreTyped
<1>3. Going' \subseteq Going
  BY <1>2 DEF Going
<1>4. Underway' => Underway
  BY <1>3 DEF Underway
<1> QED
  BY <1>1, <1>3, <1>4, LimitStays DEF SizeInv

\* A call ends, and was missed if it wrote.
LEMMA ReturnKeepsSize ==
    ASSUME Roomy, SizeInv, NEW w \in Workers, NEW r, Return(w, r),
           UNCHANGED <<disk, current_size, adrift>>,
           (missed' = missed /\ call[w].pc \notin Writing) \/ Misses
    PROVE  SizeInv'
<1> DEFINE k == NoCall
<1>1. call' = [call EXCEPT ![w] = k]
  BY DEF Return
<1>2. CallOK(k) /\ k.pc \notin {"open"} \cup Writing /\ \A c, i : ~Backs(k, c, i) /\ ~Frees(k, i)
  BY DEF CallOK, NoCall, Writing, Backs, WritesTo, Frees
<1>3. missed' \in 0..MaxMissed /\ (missed' = missed \/ missed' = missed + 1)
  BY CasAssumption DEF Misses, SizeInv, StoreTyped
<1> HIDE DEF k
<1> QED
  BY <1>1, <1>2, <1>3, QuietCall DEF Misses

\* A call begins, or ends at once.
LEMMA BeginKeepsSize ==
    ASSUME Roomy, SizeInv, NEW w \in Workers, NEW c \in Chunks,
           Put(w, c) \/ Get(w, c) \/ Delete(w, c)
    PROVE  SizeInv'
<1>1. call[w] = NoCall /\ UNCHANGED <<disk, current_size, adrift, missed>>
  BY DEF Put, Get, Delete
<1>2. call[w].pc \notin Writing
  BY <1>1 DEF NoCall, Writing
<1>3. ASSUME NEW r, Return(w, r)
      PROVE  SizeInv'
  BY <1>1, <1>2, <1>3, ReturnKeepsSize
<1>4. ASSUME NEW pc \in {"limit", "read", "metadata"}, Begin(w, [pc |-> pc, chunk |-> c])
      PROVE  SizeInv'
  <2> DEFINE k == [pc |-> pc, chunk |-> c]
  <2>1. call' = [call EXCEPT ![w] = k]
    BY <1>4 DEF Begin
  <2>2. CallOK(k) /\ k.pc \notin {"open"} \cup Writing /\ \A d, i : ~Backs(k, d, i) /\ ~Frees(k, i)
    BY DEF CallOK, Writing, Backs, WritesTo, Frees
  <2>3. missed' \in 0..MaxMissed
    BY <1>1 DEF SizeInv, StoreTyped
  <2> HIDE DEF k
  <2> QED
    BY <1>1, <1>2, <2>1, <2>2, <2>3, QuietCall
<1> QED
  BY <1>3, <1>4 DEF Put, Get, Delete

\* What a writer or another call becomes when the file it is at is unlinked.
LEMMA UnlinkedIs ==
    ASSUME NEW k, CallOK(k), NEW c
    PROVE  /\ CallOK(Unlinked(k, c)) /\ Unlinked(k, c).pc = k.pc
           /\ \A i : Frees(Unlinked(k, c), i) => Frees(k, i)
           /\ \A d, i : Backs(Unlinked(k, c), d, i) => Backs(k, d, i)
           /\ \A d : WritesTo(Unlinked(k, c), d) => WritesTo(k, d)
           /\ k.pc = "open" => Unlinked(k, c) = k
<1>1. CASE k.pc \in Writing /\ k.chunk = c
  <2> DEFINE l == [k EXCEPT !.linked = FALSE]
  <2>1. Unlinked(k, c) = l
    BY <1>1 DEF Unlinked
  <2>2. "pc" \in DOMAIN k /\ {"chunk", "linked", "left"} \subseteq DOMAIN k
    BY <1>1 DEF CallOK
  <2>3. DOMAIN l = DOMAIN k /\ l.pc = k.pc /\ l.chunk = k.chunk /\ l.left = k.left /\ ~l.linked
    BY <2>2
  <2> HIDE DEF l
  <2>4. CallOK(l)
    BY <1>1, <2>3 DEF CallOK, Writing
  <2>5. \A d, i : ~WritesTo(l, d) /\ ~Backs(l, d, i) /\ ~Frees(l, i) /\ ~Frees(k, i)
    BY <1>1, <2>3 DEF WritesTo, Backs, Frees, Writing
  <2>6. k.pc # "open"
    BY <1>1 DEF Writing
  <2> QED
    BY <2>1, <2>3, <2>4, <2>5, <2>6
<1>2. CASE ~(k.pc \in Writing /\ k.chunk = c)
  <2>1. Unlinked(k, c) = k
    BY <1>2 DEF Unlinked
  <2> QED
    BY <2>1
<1> QED
  BY <1>1, <1>2

\* put passes the limit with room for what it is to write.
LEMMA LimitKeepsSize ==
    ASSUME Roomy, SizeInv, NEW w \in Workers, PutLimit(w)
    PROVE  SizeInv'
<1>1. call[w].pc = "limit" /\ UNCHANGED <<disk, current_size, adrift, missed>>
  BY DEF PutLimit
<1>2. DOMAIN call = Workers /\ CallOK(call[w]) /\ missed \in 0..MaxMissed /\ StoreTyped
  BY DEF SizeInv, StoreTyped
<1>3. CASE Return(w, [is |-> "full"])
  BY <1>1, <1>3, ReturnKeepsSize DEF Writing
<1>4. CASE Fits(current_size) /\ Goto(w, "open")
  <2> DEFINE k == [call[w] EXCEPT !.pc = "open"]
  <2>1. call' = [call EXCEPT ![w] = k]
    BY <1>2, <1>4 DEF Goto
  <2>2. CallOK(k) /\ k.pc = "open"
    BY <1>1, <1>2 DEF CallOK, Writing
  <2>3. \A c, i : ~Backs(k, c, i) /\ ~Frees(k, i)
    BY <2>2 DEF Backs, WritesTo, Frees, Writing
  <2> HIDE DEF k
  <2>4. StoreTyped' /\ IsFiniteSet(ToOpen') /\ Balanced'
    BY <1>1, <1>2, <2>1, <2>2, <2>3, QuietBalance DEF Writing
  <2>5. Counted + 2 <= MaxSize
    <3>1. (current_size + 2) % Width <= MaxSize
      BY <1>4, TwoUnits DEF Fits, Roomy
    <3>2. /\ Counted \in Int /\ current_size \in 0..(Width - 1) /\ Width \in Nat
          /\ Width \div 2 \in Nat /\ 2 * (Width \div 2) <= Width
          /\ Counted = IF current_size > Width \div 2 THEN current_size - Width ELSE current_size
      BY <1>2, CountedIs
    <3>3. MaxSize \in Nat /\ MaxSize + 2 < Width /\ MaxSize > 0
      BY CasAssumption DEF Roomy
    <3>4. CASE current_size + 2 < Width
      <4>1. (current_size + 2) % Width = current_size + 2
        BY <3>2, <3>4
      <4> QED
        BY <3>1, <3>2, <3>3, <4>1
    <3>5. CASE current_size + 2 >= Width
      <4>1. Cardinality(Workers) \in Nat /\ Cardinality(Workers) # 0 /\ Cardinality(Chunks) \in Nat
        BY <1>2, Finite, FS_EmptySet DEF Roomy
      <4>2. Width \div 2 > 2
        BY <3>2, <3>3, <4>1, TwoUnits DEF Roomy
      <4> QED
        BY <3>2, <3>3, <3>5, <4>2
    <3> QED
      BY <3>2, <3>4, <3>5
  <2>6. /\ Cardinality(Going') \in Nat /\ Cardinality(Workers) \in Nat /\ Cardinality(Chunks) \in Nat
        /\ Cardinality(Going') <= Cardinality(Workers)
    <3>1. Going' \subseteq Workers /\ IsFiniteSet(Workers)
      BY DEF Going, Roomy
    <3> QED
      BY <1>2, <3>1, Finite, Fewer
  <2>7. Counted' = Counted /\ Counted \in Int /\ MaxSize \in Nat
    BY <1>1, <1>2, CountedIs, CasAssumption DEF Counted
  <2>8. Limited'
    BY <2>5, <2>6, <2>7, TwoUnits DEF Limited
  <2> QED
    BY <2>4, <2>8 DEF SizeInv
<1> QED
  BY <1>3, <1>4 DEF PutLimit

\* The steps that change no more than the call.
LEMMA QuietStep ==
    ASSUME Roomy, SizeInv, NEW w \in Workers,
           PutIndex(w) \/ GetRead(w) \/ DeleteMetadata(w) \/ DeleteUnindex(w) \/ CallFails(w)
    PROVE  SizeInv'
<1>1. /\ DOMAIN call = Workers /\ CallOK(call[w]) /\ missed \in 0..MaxMissed
      /\ \A c \in DOMAIN disk : c \in Chunks /\ disk[c] \subseteq Units
  BY DEF SizeInv, StoreTyped
<1>2. CASE PutIndex(w)
  <2> DEFINE k == [call[w] EXCEPT !.pc = "count"]
  <2>1. /\ call[w].pc = "index" /\ call' = [call EXCEPT ![w] = k]
        /\ UNCHANGED <<disk, current_size, adrift, missed>>
    BY <1>1, <1>2 DEF PutIndex, Goto
  <2>2. /\ DOMAIN k = DOMAIN call[w] /\ k.pc = "count" /\ k.chunk = call[w].chunk
        /\ k.linked = call[w].linked /\ k.left = call[w].left
    BY <1>1, <2>1 DEF CallOK, Writing
  <2> HIDE DEF k
  <2>3. CallOK(k)
    BY <1>1, <2>1, <2>2 DEF CallOK, Writing
  <2>4. \A c, i : ~Frees(k, i) /\ (Backs(k, c, i) => Backs(call[w], c, i))
    BY <2>1, <2>2 DEF Frees, Backs, WritesTo, Writing
  <2>5. \A c \in DOMAIN disk, i \in Units : Backs(k, c, i) => Backed(c, i)
    BY <2>4 DEF Backed
  <2> QED
    BY <1>1, <2>1, <2>2, <2>3, <2>4, <2>5, QuietCall DEF Writing
<1>3. CASE GetRead(w)
  <2>1. PICK r : Return(w, r)
    BY <1>3 DEF GetRead
  <2> QED
    BY <1>3, <2>1, ReturnKeepsSize DEF GetRead, Writing
<1>4. CASE DeleteMetadata(w)
  <2> DEFINE c == call[w].chunk
             k == [pc |-> "remove", chunk |-> c, length |-> Length(disk[c])]
  <2>1. call[w].pc = "metadata" /\ UNCHANGED <<disk, current_size, adrift, missed>>
    BY <1>4 DEF DeleteMetadata
  <2>2. CASE Return(w, IoError)
    BY <2>1, <2>2, ReturnKeepsSize DEF Writing
  <2>3. CASE Exists(c) /\ call' = [call EXCEPT ![w] = k]
    <3>1. Length(disk[c]) \in 0..2
      BY <1>1, <2>3, LengthOf DEF Exists
    <3>2. CallOK(k) /\ k.pc = "remove" /\ k.chunk = c /\ k.length = Length(disk[c])
      BY <1>1, <2>1, <2>3, <3>1, TwoUnits DEF CallOK, Writing, Exists
    <3>3. \A d \in DOMAIN disk, i \in Units : Backs(k, d, i) => Backed(d, i)
      BY <3>2 DEF Backs, Backed, WritesTo, Writing
    <3>4. \A i : ~Frees(k, i)
      BY DEF Frees
    <3> HIDE DEF k
    <3> QED
      BY <1>1, <2>1, <2>3, <3>2, <3>3, <3>4, QuietCall DEF Writing
  <2> QED
    BY <1>4, <2>2, <2>3 DEF DeleteMetadata
<1>5. CASE DeleteUnindex(w)
  <2> DEFINE k == [call[w] EXCEPT !.pc = "uncount"]
  <2>1. /\ call[w].pc = "unindex" /\ call' = [call EXCEPT ![w] = k]
        /\ UNCHANGED <<disk, current_size, adrift, missed>>
    BY <1>1, <1>5 DEF DeleteUnindex, Goto
  <2>2. /\ DOMAIN k = DOMAIN call[w] /\ k.pc = "uncount" /\ k.chunk = call[w].chunk
        /\ k.length = call[w].length
    BY <1>1, <2>1 DEF CallOK, Writing
  <2> HIDE DEF k
  <2>3. CallOK(k)
    BY <1>1, <2>1, <2>2 DEF CallOK, Writing
  <2>4. \A c, i : ~Backs(k, c, i) /\ (Frees(k, i) => Frees(call[w], i))
    BY <2>1, <2>2 DEF Frees, Backs, WritesTo, Writing
  <2> QED
    BY <1>1, <2>1, <2>2, <2>3, <2>4, QuietCall DEF Writing
<1>6. CASE CallFails(w)
  <2>1. Return(w, IoError) /\ UNCHANGED <<disk, current_size, adrift>>
    BY <1>6 DEF CallFails
  <2>2. (missed' = missed /\ call[w].pc \notin Writing) \/ Misses
    BY <1>6 DEF CallFails, Writing
  <2> QED
    BY <2>1, <2>2, ReturnKeepsSize
<1> QED
  BY <1>2, <1>3, <1>4, <1>5, <1>6

\* What is counted after a step is so many as well.
LEMMA FiniteNext ==
    ASSUME Roomy, StoreTyped'
    PROVE  /\ IsFiniteSet(OnFiles') /\ IsFiniteSet(Freed')
           /\ IsFiniteSet(InWriting') /\ IsFiniteSet(Going')
           /\ Cardinality(OnFiles') \in Nat /\ Cardinality(Freed') \in Nat
           /\ Cardinality(InWriting') \in Nat /\ Cardinality(Going') \in Nat
           /\ missed' \in Nat /\ Counted' \in Int
<1>1. /\ IsFiniteSet(Workers) /\ IsFiniteSet(Workers \X Units) /\ IsFiniteSet(Chunks \X Units)
  BY TwoUnits, FS_Product DEF Roomy
<1>2. Freed' \subseteq Workers \X Units /\ OnFiles' \subseteq Chunks \X Units
  BY DEF Freed, OnFiles, StoreTyped
<1>3. Going' \subseteq Workers /\ InWriting' \subseteq Workers
  BY DEF Going, InWriting
<1>4. missed' \in Nat /\ Counted' \in Int
  BY CasAssumption DEF StoreTyped, Counted
<1> QED
  BY <1>1, <1>2, <1>3, <1>4, Fewer

\* A step that adds at most x to what is to be covered, and as much to what
\* covers it.
LEMMA BalanceMoves ==
    ASSUME Roomy, SizeInv, StoreTyped', IsFiniteSet(ToOpen'), NEW x \in Int,
           Cardinality(OnFiles') + 2 * Cardinality(ToOpen') + Cardinality(Freed')
             <= Cardinality(OnFiles) + 2 * Cardinality(ToOpen) + Cardinality(Freed) + x,
           Counted + 2 * missed + 2 * Cardinality(InWriting) + x
             <= Counted' + 2 * missed' + 2 * Cardinality(InWriting')
    PROVE  Balanced'
<1> DEFINE a == Cardinality(OnFiles) + 2 * Cardinality(ToOpen) + Cardinality(Freed)
           b == Counted + 2 * missed + 2 * Cardinality(InWriting)
           a1 == Cardinality(OnFiles') + 2 * Cardinality(ToOpen') + Cardinality(Freed')
           b1 == Counted' + 2 * missed' + 2 * Cardinality(InWriting')
<1>1. a \in Int /\ b \in Int /\ a <= b
  <2>1. StoreTyped /\ IsFiniteSet(ToOpen) /\ Balanced
    BY DEF SizeInv
  <2>2. Cardinality(ToOpen) \in Nat /\ missed \in Nat /\ Counted \in Int
    BY <2>1, FS_CardinalityType, CountedIs, CasAssumption DEF StoreTyped
  <2>3. a \in Int /\ b \in Int
    BY <2>1, <2>2, Finite
  <2> QED
    BY <2>1, <2>3, TwoUnits DEF Balanced
<1>2. a1 \in Int /\ b1 \in Int
  BY FiniteNext, FS_CardinalityType
<1>3. a1 <= a + x /\ b + x <= b1
  OBVIOUS
<1>4. a1 <= b1
  <2> HIDE DEF a, b, a1, b1
  <2> QED
    BY <1>1, <1>2, <1>3
<1> QED
  BY <1>4, TwoUnits DEF Balanced

\* What is not yet covered by the counter is bounded, and so is the counter.
LEMMA CounterRoom ==
    ASSUME Roomy, SizeInv, NEW n \in Nat, n <= Cardinality(Freed)
    PROVE  Counted - n > -(Width \div 2) /\ Counted \in Int
<1>1. StoreTyped /\ IsFiniteSet(ToOpen) /\ Balanced
  BY DEF SizeInv
<1> DEFINE o == Cardinality(OnFiles)
           t == Cardinality(ToOpen)
           f == Cardinality(Freed)
           i == Cardinality(InWriting)
           q == Cardinality(Workers)
           C == Counted
           H == Width \div 2
<1>2. /\ o \in Nat /\ f \in Nat /\ i \in Nat /\ q \in Nat /\ i <= q
      /\ t \in Nat /\ C \in Int /\ H \in Nat
  BY <1>1, Finite, FS_CardinalityType, CountedIs
<1>3. missed \in 0..MaxMissed /\ MaxMissed \in Nat
  BY <1>1, CasAssumption DEF StoreTyped
<1>4. o + 2 * t + f <= C + 2 * missed + 2 * i
  BY <1>1, TwoUnits DEF Balanced
<1>5. 2 * (MaxMissed + q) < H
  BY TwoUnits DEF Roomy
<1> HIDE DEF o, t, f, i, q, C, H
<1>6. n <= f
  BY DEF f
<1>7. C - n > -H
  BY <1>2, <1>3, <1>4, <1>5, <1>6
<1> QED
  BY <1>2, <1>7 DEF C, H

\* put opens its file: the chunk is to be counted, by the one who now writes.
LEMMA OpenKeepsSize ==
    ASSUME Roomy, SizeInv, NEW w \in Workers, PutOpen(w)
    PROVE  SizeInv'
<1>1. /\ DOMAIN call = Workers /\ CallOK(call[w]) /\ missed \in 0..MaxMissed /\ StoreTyped
      /\ IsFiniteSet(ToOpen)
  BY DEF SizeInv, StoreTyped
<1> SUFFICES ASSUME NEW c, c = call[w].chunk
             PROVE  SizeInv'
  OBVIOUS
<1>2. /\ call[w].pc = "open" /\ disk' = Insert(disk, c, {})
      /\ call' = [call EXCEPT ![w] = Writer(c)]
      /\ UNCHANGED <<current_size, adrift, reply, missed>>
  BY DEF PutOpen
<1>3. c \in Chunks
  BY <1>1, <1>2 DEF CallOK
<1>4. /\ CallOK(Writer(c)) /\ Writer(c).pc = "write" /\ Writer(c).chunk = c
      /\ \A i : ~Frees(Writer(c), i)
      /\ \A d, i : Backs(Writer(c), d, i) => d = c
  BY <1>3, 1 \in {1, 2} DEF CallOK, Writer, Writing, Frees, Backs, WritesTo, Units
<1>5. call'[w] = Writer(c) /\ \A v \in Workers : v # w => call'[v] = call[v]
  BY <1>1, <1>2
<1>6. StoreTyped'
  <2>1. DOMAIN disk' \subseteq Chunks /\ \A d \in DOMAIN disk' : disk'[d] \subseteq Units
    BY <1>1, <1>2, <1>3 DEF StoreTyped, Insert
  <2>2. DOMAIN call' = Workers /\ \A v \in Workers : CallOK(call'[v])
    BY <1>1, <1>2, <1>4, <1>5 DEF StoreTyped
  <2> QED
    BY <1>1, <1>2, <2>1, <2>2 DEF StoreTyped
<1>7. OnFiles' \subseteq OnFiles \cup ({c} \X (1..2))
  <2>1. ASSUME NEW d \in DOMAIN disk', NEW i \in Units, d # c, Backed(d, i)'
        PROVE  d \in DOMAIN disk /\ Backed(d, i)
    <3>1. d \in DOMAIN disk /\ disk'[d] = disk[d]
      BY <1>2, <2>1 DEF Insert
    <3>2. ASSUME NEW v \in Workers, Backs(call'[v], d, i)
          PROVE  Backed(d, i)
      BY <1>4, <1>5, <2>1, <3>2 DEF Backed
    <3> QED
      BY <1>2, <2>1, <3>1, <3>2 DEF Backed
  <2> QED
    BY <2>1, TwoUnits DEF OnFiles
<1>8. Cardinality(OnFiles') <= Cardinality(OnFiles) + 2
  <2>1. IsFiniteSet({c} \X (1..2)) /\ Cardinality({c} \X (1..2)) = 2
    BY FirstUnits, 2 \in 0..2
  <2> DEFINE B == {c} \X (1..2)
  <2>2. IsFiniteSet(B) /\ Cardinality(B) = 2 /\ OnFiles' \subseteq OnFiles \cup B
    BY <1>7, <2>1
  <2> HIDE DEF B
  <2> QED
    BY <1>1, <2>2, Finite, AsManyMore
<1>9. Freed' \subseteq Freed /\ ToOpen' = ToOpen
  BY <1>2, <1>4, <1>5 DEF Freed, ToOpen
<1>10. Cardinality(Freed') <= Cardinality(Freed)
  BY <1>1, <1>9, Finite, Fewer
<1>11. Cardinality(InWriting') >= Cardinality(InWriting) + 1
  <2>1. InWriting \subseteq InWriting' \ {w} /\ {w} \subseteq InWriting'
    BY <1>2, <1>4, <1>5 DEF InWriting, Writing
  <2>2. IsFiniteSet(InWriting') /\ Cardinality({w}) = 1
    BY <1>6, FiniteNext, FS_Singleton
  <2>3. Cardinality(InWriting) + Cardinality({w}) <= Cardinality(InWriting')
    BY <2>1, <2>2, AsManyLess
  <2> QED
    BY <2>2, <2>3
<1>12. Counted' = Counted /\ missed' = missed
  BY <1>2 DEF Counted
<1>13. Balanced'
  <2>1. /\ Cardinality(OnFiles) \in Nat /\ Cardinality(Freed) \in Nat /\ Cardinality(ToOpen) \in Nat
        /\ Cardinality(InWriting) \in Nat /\ Counted \in Int /\ missed \in Nat
    BY <1>1, Finite, FS_CardinalityType, CountedIs, CasAssumption
  <2>2. /\ Cardinality(OnFiles') \in Nat /\ Cardinality(Freed') \in Nat
        /\ Cardinality(InWriting') \in Nat
    BY <1>6, FiniteNext
  <2>3. Cardinality(OnFiles') + 2 * Cardinality(ToOpen') + Cardinality(Freed')
             <= Cardinality(OnFiles) + 2 * Cardinality(ToOpen) + Cardinality(Freed) + 2
    BY <1>8, <1>9, <1>10, <2>1, <2>2
  <2>4. Counted + 2 * missed + 2 * Cardinality(InWriting) + 2
             <= Counted' + 2 * missed' + 2 * Cardinality(InWriting')
    BY <1>11, <1>12, <2>1, <2>2
  <2> QED
    BY <1>1, <1>6, <1>9, <2>3, <2>4, BalanceMoves
<1>14. Going' \subseteq Going
  BY <1>2, <1>5 DEF Going
<1>15. Underway' => Underway
  BY <1>2, <1>14 DEF Underway
<1> QED
  BY <1>1, <1>2, <1>6, <1>9, <1>13, <1>14, <1>15, LimitStays DEF SizeInv

\* A write of a put, into the file it opened or nowhere.
LEMMA WriteKeepsSize ==
    ASSUME Roomy, SizeInv, NEW w \in Workers, PutWrite(w)
    PROVE  SizeInv' /\ OnFiles' \subseteq OnFiles /\ Underway
<1> DEFINE k == call[w]
<1>1. /\ DOMAIN call = Workers /\ CallOK(k) /\ missed \in 0..MaxMissed /\ StoreTyped
      /\ k.pc = "write" /\ UNCHANGED <<current_size, adrift, missed>>
  BY DEF SizeInv, StoreTyped, PutWrite
<1>2. /\ {"pc", "chunk", "linked", "left"} \subseteq DOMAIN k /\ k.chunk \in Chunks
      /\ k.left \in SUBSET Units /\ k.left # {}
  BY <1>1 DEF CallOK, Writing
<1>3. PICK units \in NextWrites(k) :
        /\ disk' = Written(k, units)
        /\ IF units = k.left THEN Goto(w, "index")
           ELSE call' = [call EXCEPT ![w].left = @ \ units] /\ UNCHANGED reply
  BY DEF PutWrite
<1>4. units \subseteq Units /\ (units # k.left => k.left \ units # {})
  BY <1>2, LeftToWrite
<1>5. /\ \A v \in Workers : v # w => call'[v] = call[v]
      /\ DOMAIN call' = Workers /\ CallOK(call'[w]) /\ call'[w].pc \in Writing
      /\ \A c, i : Backs(call'[w], c, i) => Backs(k, c, i)
  <2>1. CASE units = k.left
    <3> DEFINE l == [k EXCEPT !.pc = "index"]
    <3>1. call' = [call EXCEPT ![w] = l]
      BY <1>1, <1>3, <2>1 DEF Goto
    <3>2. /\ DOMAIN l = DOMAIN k /\ l.pc = "index" /\ l.chunk = k.chunk
          /\ l.linked = k.linked /\ l.left = k.left
      BY <1>2
    <3> HIDE DEF l
    <3>3. CallOK(l) /\ l.pc \in Writing
      BY <1>2, <3>2 DEF CallOK, Writing
    <3>4. \A c, i : Backs(l, c, i) => Backs(k, c, i)
      BY <1>1, <3>2 DEF Backs, WritesTo, Writing
    <3> QED
      BY <1>1, <3>1, <3>3, <3>4
  <2>2. CASE units # k.left
    <3> DEFINE l == [k EXCEPT !.left = @ \ units]
    <3>1. call' = [call EXCEPT ![w] = l]
      BY <1>1, <1>3, <2>2
    <3>2. /\ DOMAIN l = DOMAIN k /\ l.pc = "write" /\ l.chunk = k.chunk
          /\ l.linked = k.linked /\ l.left = k.left \ units
      BY <1>1, <1>2
    <3> HIDE DEF l
    <3>3. CallOK(l) /\ l.pc \in Writing
      BY <1>2, <1>4, <2>2, <3>2 DEF CallOK, Writing
    <3>4. \A c, i : Backs(l, c, i) => Backs(k, c, i)
      BY <1>1, <3>2 DEF Backs, WritesTo, Writing
    <3> QED
      BY <1>1, <3>1, <3>3, <3>4
  <2> QED
    BY <2>1, <2>2
<1>6. /\ DOMAIN disk' = DOMAIN disk
      /\ \A d \in DOMAIN disk : \/ disk'[d] = disk[d]
                                \/ WritesTo(k, d) /\ disk'[d] = disk[d] \cup units
  BY <1>1, <1>3 DEF Written, WritesTo, Writing
<1>7. StoreTyped'
  <2>1. DOMAIN disk' \subseteq Chunks /\ \A d \in DOMAIN disk' : disk'[d] \subseteq Units
    BY <1>1, <1>4, <1>6 DEF StoreTyped
  <2> QED
    BY <1>1, <1>5, <2>1 DEF StoreTyped
<1>8. OnFiles' \subseteq OnFiles
  <2>1. ASSUME NEW d \in DOMAIN disk, NEW i \in Units, Backed(d, i)'
        PROVE  Backed(d, i)
    <3>1. ASSUME NEW v \in Workers, Backs(call'[v], d, i)
          PROVE  Backed(d, i)
      BY <1>5, <3>1 DEF Backed
    <3>2. CASE i <= Length(disk'[d])
      BY <1>6, <3>2 DEF Backed, Backs
    <3> QED
      BY <1>1, <2>1, <3>1, <3>2 DEF Backed
  <2> QED
    BY <1>6, <2>1 DEF OnFiles
<1>9. Freed' \subseteq Freed /\ ToOpen' \subseteq ToOpen /\ InWriting \subseteq InWriting'
  BY <1>1, <1>5 DEF Freed, ToOpen, InWriting, Frees, Writing
<1>10. Going' \subseteq Going
  BY <1>1, <1>5 DEF Going, Writing
<1>11. Underway
  BY <1>1 DEF Underway, Going, Writing
<1> QED
  BY <1>1, <1>7, <1>8, <1>9, <1>10, <1>11, BalanceStays, LimitStays DEF SizeInv

\* The put counts what it wrote, or what of it is still there.
LEMMA CountKeepsSize ==
    ASSUME Roomy, SizeInv, NEW w \in Workers, PutCount(w)
    PROVE  SizeInv'
<1>1. /\ DOMAIN call = Workers /\ missed \in 0..MaxMissed /\ StoreTyped /\ IsFiniteSet(ToOpen)
      /\ call[w].pc = "count" /\ UNCHANGED <<disk, adrift, missed>>
      /\ call' = [call EXCEPT ![w] = NoCall]
  BY DEF SizeInv, StoreTyped, PutCount, Return
<1>2. call'[w] = NoCall /\ \A v \in Workers : v # w => call'[v] = call[v]
  BY <1>1
<1>3. CallOK(NoCall) /\ NoCall.pc = "none" /\ \A c, i : ~Backs(NoCall, c, i) /\ ~Frees(NoCall, i)
  BY DEF CallOK, NoCall, Writing, Backs, WritesTo, Frees
<1>4. Going' \subseteq Going \ {w} /\ {w} \subseteq Going
  BY <1>1, <1>2, <1>3 DEF Going, Writing
<1>5. /\ Cardinality(Going') + 1 <= Cardinality(Going)
      /\ Cardinality(Going') \in Nat /\ Cardinality(Going) \in Nat
  <2>1. Cardinality({w}) = 1 /\ IsFiniteSet(Going)
    BY <1>1, Finite, FS_Singleton
  <2> QED
    BY <1>4, <2>1, AsManyLess
<1>6. Counted + 2 * Cardinality(Going) <= MaxSize + 2 * Cardinality(Chunks) + 2 * Cardinality(Workers)
  BY TwoUnits DEF SizeInv, Limited
<1>7. Counted' = Counted + 2 /\ current_size' \in 0..(Width - 1) /\ Counted \in Int
  <2>1. current_size' = (current_size + 2) % Width
    BY TwoUnits DEF PutCount
  <2>2. Counted > -(Width \div 2) /\ Counted \in Int /\ Width \div 2 \in Nat
    BY <1>1, CounterRoom, Finite, CountedIs
  <2>3. Counted + 2 <= Width \div 2
    <3>1. MaxSize + 2 * Cardinality(Chunks) + 2 * Cardinality(Workers) <= Width \div 2
      BY TwoUnits DEF Roomy
    <3>2. Cardinality(Chunks) \in Nat /\ Cardinality(Workers) \in Nat /\ MaxSize \in Nat
      BY <1>1, Finite, CasAssumption
    <3> QED
      BY <1>5, <1>6, <2>2, <3>1, <3>2
  <2> QED
    BY <1>1, <2>1, <2>2, <2>3, Recounted
<1>8. StoreTyped'
  BY <1>1, <1>2, <1>3, <1>7 DEF StoreTyped
<1>9. OnFiles' \subseteq OnFiles
  <2>1. ASSUME NEW d \in DOMAIN disk, NEW i \in Units, Backed(d, i)'
        PROVE  Backed(d, i)
    BY <1>1, <1>2, <1>3, <2>1 DEF Backed
  <2> QED
    BY <1>1, <2>1 DEF OnFiles
<1>10. Freed' \subseteq Freed /\ ToOpen' = ToOpen /\ InWriting \subseteq InWriting' \cup {w}
  BY <1>1, <1>2, <1>3 DEF Freed, ToOpen, InWriting
<1>11. Cardinality(InWriting) <= Cardinality(InWriting') + 1
  BY <1>8, <1>10, FiniteNext, FS_Singleton, AsManyMore
<1>12. Balanced'
  <2>1. /\ Cardinality(OnFiles) \in Nat /\ Cardinality(Freed) \in Nat /\ Cardinality(ToOpen) \in Nat
        /\ Cardinality(InWriting) \in Nat /\ Counted \in Int /\ missed \in Nat
    BY <1>1, <1>7, Finite, FS_CardinalityType, CasAssumption
  <2>2. /\ Cardinality(OnFiles') \in Nat /\ Cardinality(Freed') \in Nat
        /\ Cardinality(InWriting') \in Nat
    BY <1>8, FiniteNext
  <2>3. /\ Cardinality(OnFiles') <= Cardinality(OnFiles)
        /\ Cardinality(Freed') <= Cardinality(Freed)
    BY <1>1, <1>9, <1>10, Finite, Fewer
  <2>4. Cardinality(OnFiles') + 2 * Cardinality(ToOpen') + Cardinality(Freed')
             <= Cardinality(OnFiles) + 2 * Cardinality(ToOpen) + Cardinality(Freed) + 0
    BY <1>10, <2>1, <2>2, <2>3
  <2>5. Counted + 2 * missed + 2 * Cardinality(InWriting) + 0
             <= Counted' + 2 * missed' + 2 * Cardinality(InWriting')
    BY <1>1, <1>7, <1>11, <2>1, <2>2
  <2> QED
    BY <1>1, <1>8, <1>10, <2>4, <2>5, 0 \in Int, BalanceMoves
<1>13. Limited'
  <2>1. Underway' => Underway
    BY <1>1, <1>4 DEF Underway
  <2>2. Counted' + 2 * Cardinality(Going') <= Counted + 2 * Cardinality(Going)
    BY <1>5, <1>7
  <2>3. /\ Cardinality(Chunks) \in Nat /\ Cardinality(Workers) \in Nat /\ MaxSize \in Nat
        /\ Counted' \in Int
    BY <1>1, <1>7, Finite, CasAssumption
  <2>4. Underway =>
          Counted + 2 * Cardinality(Going) <= MaxSize - 2 + 2 * Cardinality(Workers)
    BY TwoUnits DEF SizeInv, Limited
  <2> QED
    BY <1>5, <1>6, <1>7, <2>1, <2>2, <2>3, <2>4, TwoUnits DEF Limited
<1> QED
  BY <1>1, <1>8, <1>10, <1>12, <1>13 DEF SizeInv

\* delete counts the file it removed, by the length it saw before.
LEMMA UncountKeepsSize ==
    ASSUME Roomy, SizeInv, NEW w \in Workers, DeleteCount(w)
    PROVE  SizeInv'
<1>1. /\ DOMAIN call = Workers /\ missed \in 0..MaxMissed /\ StoreTyped /\ IsFiniteSet(ToOpen)
      /\ CallOK(call[w]) /\ call[w].pc = "uncount" /\ UNCHANGED <<disk, adrift, missed>>
      /\ call' = [call EXCEPT ![w] = NoCall]
  BY DEF SizeInv, StoreTyped, DeleteCount, Return
<1>2. call'[w] = NoCall /\ \A v \in Workers : v # w => call'[v] = call[v]
  BY <1>1
<1>3. CallOK(NoCall) /\ NoCall.pc = "none" /\ \A c, i : ~Backs(NoCall, c, i) /\ ~Frees(NoCall, i)
  BY DEF CallOK, NoCall, Writing, Backs, WritesTo, Frees
<1> SUFFICES ASSUME NEW n, n = call[w].length
             PROVE  SizeInv'
  OBVIOUS
<1>4. n \in 0..2
  BY <1>1, TwoUnits DEF CallOK
<1>5. /\ Cardinality(Freed') + n <= Cardinality(Freed)
      /\ Cardinality(Freed') \in Nat /\ Cardinality(Freed) \in Nat
  <2> DEFINE B == {w} \X (1..n)
  <2>1. Cardinality(B) = n
    BY <1>4, FirstUnits
  <2>2. B \subseteq Freed
    BY <1>1, <1>4, TwoUnits DEF Freed, Frees
  <2>3. Freed' \subseteq Freed \ B
    BY <1>2, <1>3 DEF Freed
  <2>4. IsFiniteSet(Freed)
    BY <1>1, Finite
  <2> HIDE DEF B
  <2>5. Cardinality(Freed') + Cardinality(B) <= Cardinality(Freed)
        /\ Cardinality(Freed') \in Nat /\ Cardinality(Freed) \in Nat
    BY <2>2, <2>3, <2>4, AsManyLess
  <2> QED
    BY <2>1, <2>5
<1>6. Counted - n > -(Width \div 2) /\ Counted \in Int
  BY <1>4, <1>5, CounterRoom
<1>7. Going' \subseteq Going
  BY <1>1, <1>2, <1>3 DEF Going, Writing
<1>8. /\ Cardinality(Going') <= Cardinality(Going)
      /\ Cardinality(Going') \in Nat /\ Cardinality(Going) \in Nat
      /\ Cardinality(Chunks) \in Nat /\ Cardinality(Workers) \in Nat /\ MaxSize \in Nat
  BY <1>1, <1>7, Finite, Fewer, CasAssumption
<1>9. Counted + 2 * Cardinality(Going) <= MaxSize + 2 * Cardinality(Chunks) + 2 * Cardinality(Workers)
  BY TwoUnits DEF SizeInv, Limited
<1>10. Counted' = Counted - n /\ current_size' \in 0..(Width - 1)
  <2>1. -n \in -2..2
    BY <1>4
  <2>2. current_size' = (current_size + (-n)) % Width
    <3>1. current_size' = (current_size - n) % Width
      BY DEF DeleteCount
    <3>2. current_size - n = current_size + (-n)
      BY <1>1, <1>4 DEF StoreTyped
    <3> QED
      BY <3>1, <3>2
  <2>3. Counted + (-n) <= Width \div 2 /\ Counted + (-n) > -(Width \div 2)
    <3>1. MaxSize + 2 * Cardinality(Chunks) + 2 * Cardinality(Workers) <= Width \div 2
      BY TwoUnits DEF Roomy
    <3>2. Width \div 2 \in Nat
      BY <1>1, CountedIs
    <3> QED
      BY <1>4, <1>6, <1>8, <1>9, <3>1, <3>2
  <2> HIDE DEF SizeInv
  <2>4. Counted' = Counted + (-n) /\ current_size' \in 0..(Width - 1)
    BY <1>1, <2>1, <2>2, <2>3, Recounted
  <2> QED
    BY <1>4, <1>6, <2>4
<1>11. StoreTyped'
  BY <1>1, <1>2, <1>3, <1>10 DEF StoreTyped
<1>12. OnFiles' \subseteq OnFiles
  <2>1. ASSUME NEW d \in DOMAIN disk, NEW i \in Units, Backed(d, i)'
        PROVE  Backed(d, i)
    BY <1>1, <1>2, <1>3, <2>1 DEF Backed
  <2> QED
    BY <1>1, <2>1 DEF OnFiles
<1>13. ToOpen' = ToOpen /\ InWriting \subseteq InWriting'
  BY <1>1, <1>2 DEF ToOpen, InWriting, Writing
<1>14. Balanced'
  <2>1. /\ Cardinality(OnFiles) \in Nat /\ Cardinality(ToOpen) \in Nat
        /\ Cardinality(InWriting) \in Nat /\ missed \in Nat
    BY <1>1, Finite, FS_CardinalityType, CasAssumption
  <2>2. Cardinality(OnFiles') \in Nat /\ Cardinality(InWriting') \in Nat
    BY <1>11, FiniteNext
  <2>3. /\ Cardinality(OnFiles') <= Cardinality(OnFiles)
        /\ Cardinality(InWriting) <= Cardinality(InWriting')
    BY <1>1, <1>11, <1>12, <1>13, Finite, FiniteNext, Fewer
  <2>4. Cardinality(OnFiles') + 2 * Cardinality(ToOpen') + Cardinality(Freed')
             <= Cardinality(OnFiles) + 2 * Cardinality(ToOpen) + Cardinality(Freed) + (-n)
    BY <1>4, <1>5, <1>13, <2>1, <2>2, <2>3
  <2>5. Counted + 2 * missed + 2 * Cardinality(InWriting) + (-n)
             <= Counted' + 2 * missed' + 2 * Cardinality(InWriting')
    BY <1>1, <1>4, <1>6, <1>10, <2>1, <2>2, <2>3
  <2>6. -n \in Int
    BY <1>4
  <2> QED
    BY <1>1, <1>11, <1>13, <2>4, <2>5, <2>6, BalanceMoves
<1>15. Limited'
  <2>1. Underway' => Underway
    BY <1>1, <1>7 DEF Underway
  <2>2. Counted' + 2 * Cardinality(Going') <= Counted + 2 * Cardinality(Going)
    BY <1>4, <1>6, <1>8, <1>10
  <2>3. Underway =>
          Counted + 2 * Cardinality(Going) <= MaxSize - 2 + 2 * Cardinality(Workers)
    BY TwoUnits DEF SizeInv, Limited
  <2>4. Counted' \in Int
    BY <1>4, <1>6, <1>10
  <2> QED
    BY <1>6, <1>8, <1>9, <2>1, <2>2, <2>3, <2>4, TwoUnits DEF Limited
<1> QED
  BY <1>1, <1>11, <1>13, <1>14, <1>15 DEF SizeInv

\* delete removes the file: what it frees it is still to count.
LEMMA RemoveKeepsSize ==
    ASSUME Roomy, SizeInv, NEW w \in Workers, DeleteRemove(w)
    PROVE  SizeInv'
<1>1. /\ DOMAIN call = Workers /\ missed \in 0..MaxMissed /\ StoreTyped /\ IsFiniteSet(ToOpen)
      /\ CallOK(call[w]) /\ call[w].pc = "remove" /\ UNCHANGED <<current_size, missed>>
      /\ \A v \in Workers : CallOK(call[v])
      /\ \A a \in adrift : CallOK(a)
  BY DEF SizeInv, StoreTyped, DeleteRemove
<1>2. CASE Return(w, IoError) /\ UNCHANGED <<disk, adrift>>
  BY <1>1, <1>2, ReturnKeepsSize DEF Writing
<1> SUFFICES ASSUME NEW c, c = call[w].chunk, NEW n, n = call[w].length,
                    c \in DOMAIN disk, Unlink(c, [call EXCEPT ![w].pc = "unindex"])
             PROVE  SizeInv'
  BY <1>2 DEF DeleteRemove, Exists
<1> DEFINE l == [call[w] EXCEPT !.pc = "unindex"]
<1>3. /\ disk' = Remove(disk, {c})
      /\ DOMAIN call' = Workers /\ call'[w] = Unlinked(l, c)
      /\ \A v \in Workers : v # w => call'[v] = Unlinked(call[v], c)
      /\ adrift' = {Unlinked(a, c) : a \in adrift}
  BY <1>1 DEF Unlink
<1>4. l.pc = "unindex" /\ l.chunk = c /\ l.length = n /\ DOMAIN l = DOMAIN call[w]
  BY <1>1 DEF CallOK
<1>5. n \in 0..2 /\ c \in Chunks /\ {"pc", "chunk", "length"} \subseteq DOMAIN call[w]
  BY <1>1, TwoUnits DEF CallOK
<1> HIDE DEF l
<1>6. /\ call'[w] = l /\ CallOK(l) /\ \A d, i : ~Backs(l, d, i)
      /\ \A i : Frees(l, i) => i <= n
  BY <1>3, <1>4, <1>5, TwoUnits DEF Unlinked, Writing, CallOK, Backs, WritesTo, Frees
<1>7. /\ DOMAIN disk' = DOMAIN disk \ {c}
      /\ \A d \in DOMAIN disk : d # c => disk'[d] = disk[d]
  BY <1>3 DEF Remove
<1>8. StoreTyped'
  <2>1. \A v \in Workers : CallOK(call'[v])
    BY <1>1, <1>3, <1>6, UnlinkedIs
  <2>2. \A a \in adrift' : CallOK(a)
    BY <1>1, <1>3, UnlinkedIs
  <2>3. DOMAIN disk' \subseteq Chunks /\ \A d \in DOMAIN disk' : disk'[d] \subseteq Units
    BY <1>1, <1>7 DEF StoreTyped
  <2> QED
    BY <1>1, <1>3, <2>1, <2>2, <2>3 DEF StoreTyped
<1>9. Cardinality(OnFiles') + n <= Cardinality(OnFiles)
  <2> DEFINE B == {c} \X (1..n)
  <2>1. Cardinality(B) = n
    BY <1>5, FirstUnits
  <2>2. B \subseteq OnFiles
    <3>1. ASSUME NEW i \in 1..n
          PROVE  i \in Units /\ Backed(c, i)
      BY <1>1, <1>5, <3>1, TwoUnits DEF Backed, Backs
    <3> QED
      BY <3>1 DEF OnFiles
  <2>3. ASSUME NEW d \in DOMAIN disk', NEW i \in Units, Backed(d, i)'
        PROVE  Backed(d, i)
    <3>1. disk'[d] = disk[d]
      BY <1>7
    <3>2. ASSUME NEW v \in Workers, Backs(call'[v], d, i)
          PROVE  Backed(d, i)
      BY <1>1, <1>3, <1>6, <3>2, UnlinkedIs DEF Backed
    <3>3. ASSUME NEW a \in adrift', WritesTo(a, d)
          PROVE  Backed(d, i)
      BY <1>1, <1>3, <3>3, UnlinkedIs DEF Backed
    <3> QED
      BY <2>3, <3>1, <3>2, <3>3 DEF Backed
  <2>4. OnFiles' \subseteq OnFiles \ B
    BY <1>7, <2>3 DEF OnFiles
  <2>5. IsFiniteSet(OnFiles)
    BY <1>1, Finite
  <2> HIDE DEF B
  <2>6. Cardinality(OnFiles') + Cardinality(B) <= Cardinality(OnFiles)
    BY <2>2, <2>4, <2>5, AsManyLess
  <2> QED
    BY <2>1, <2>6
<1>10. Cardinality(Freed') <= Cardinality(Freed) + n
  <2> DEFINE B == {w} \X (1..n)
  <2>1. IsFiniteSet(B) /\ Cardinality(B) = n
    BY <1>5, FirstUnits
  <2>2. Freed' \subseteq Freed \cup B
    <3>1. ASSUME NEW v \in Workers, NEW i \in Units, Frees(call'[v], i)
          PROVE  <<v, i>> \in Freed \cup B
      <4>1. CASE v = w
        BY <1>5, <1>6, <3>1, <4>1, TwoUnits
      <4>2. CASE v # w
        BY <1>1, <1>3, <3>1, <4>2, UnlinkedIs DEF Freed
      <4> QED
        BY <4>1, <4>2
    <3> QED
      BY <3>1 DEF Freed
  <2>3. IsFiniteSet(Freed)
    BY <1>1, Finite
  <2> HIDE DEF B
  <2>4. Cardinality(Freed') <= Cardinality(Freed) + Cardinality(B)
    BY <2>1, <2>2, <2>3, AsManyMore
  <2> QED
    BY <2>1, <2>4
<1>11. ToOpen' \subseteq ToOpen
  BY <1>1, <1>3, UnlinkedIs DEF ToOpen
<1>12. /\ IsFiniteSet(ToOpen') /\ Cardinality(ToOpen') \in Nat /\ Cardinality(ToOpen) \in Nat
       /\ Cardinality(ToOpen') <= Cardinality(ToOpen)
  BY <1>1, <1>11, Fewer
<1>13. \A v \in Workers : v # w => call'[v].pc = call[v].pc
  BY <1>1, <1>3, UnlinkedIs
<1>14. InWriting \subseteq InWriting' /\ Going' \subseteq Going
  BY <1>1, <1>4, <1>6, <1>13 DEF InWriting, Going, Writing
<1>15. Counted' = Counted /\ missed' = missed
  BY <1>1 DEF Counted
<1>16. Balanced'
  <2>1. /\ Cardinality(OnFiles) \in Nat /\ Cardinality(Freed) \in Nat
        /\ Cardinality(InWriting) \in Nat /\ Counted \in Int /\ missed \in Nat
    BY <1>1, Finite, CountedIs, CasAssumption
  <2>2. /\ Cardinality(OnFiles') \in Nat /\ Cardinality(Freed') \in Nat
        /\ Cardinality(InWriting') \in Nat
    BY <1>8, FiniteNext
  <2>3. Cardinality(InWriting) <= Cardinality(InWriting')
    BY <1>8, <1>14, FiniteNext, Fewer
  <2>4. Cardinality(OnFiles') + 2 * Cardinality(ToOpen') + Cardinality(Freed')
             <= Cardinality(OnFiles) + 2 * Cardinality(ToOpen) + Cardinality(Freed) + 0
    BY <1>5, <1>9, <1>10, <1>12, <2>1, <2>2
  <2>5. Counted + 2 * missed + 2 * Cardinality(InWriting) + 0
             <= Counted' + 2 * missed' + 2 * Cardinality(InWriting')
    BY <1>15, <2>1, <2>2, <2>3
  <2> QED
    BY <1>8, <1>12, <2>4, <2>5, 0 \in Int, BalanceMoves
<1>17. Underway' => Underway
  <2>1. \A a \in adrift' : \E b \in adrift : a.pc = b.pc
    BY <1>1, <1>3, UnlinkedIs
  <2> QED
    BY <1>14, <2>1 DEF Underway
<1> QED
  BY <1>1, <1>8, <1>12, <1>14, <1>16, <1>17, LimitStays DEF SizeInv

\* A call is dropped; what it had asked for is still to come, and a put that
\* goes adrift is missed.
LEMMA TimeoutKeepsSize ==
    ASSUME Roomy, SizeInv, NEW w \in Workers, Timeout(w)
    PROVE  SizeInv'
<1>1. /\ DOMAIN call = Workers /\ missed \in 0..MaxMissed /\ StoreTyped /\ IsFiniteSet(ToOpen)
      /\ CallOK(call[w]) /\ \A v \in Workers : CallOK(call[v])
      /\ \A a \in adrift : CallOK(a)
      /\ Return(w, TimedOut) /\ UNCHANGED <<disk, current_size>>
      /\ call' = [call EXCEPT ![w] = NoCall]
  BY DEF SizeInv, StoreTyped, Timeout, Return
<1>2. CASE UNCHANGED <<adrift, missed>> /\ call[w].pc \in {"open", "read", "metadata"}
  BY <1>1, <1>2, ReturnKeepsSize DEF Writing
<1> SUFFICES ASSUME NEW k, k = call[w], adrift' = adrift \cup {k},
                    \/ k.pc \in {"open", "write"} /\ Misses
                    \/ k.pc = "remove" /\ missed' = missed
             PROVE  SizeInv'
  BY <1>2 DEF Timeout, GoesAdrift
<1>3. call'[w] = NoCall /\ \A v \in Workers : v # w => call'[v] = call[v]
  BY <1>1
<1>4. CallOK(NoCall) /\ NoCall.pc = "none" /\ \A c, i : ~Backs(NoCall, c, i) /\ ~Frees(NoCall, i)
  BY DEF CallOK, NoCall, Writing, Backs, WritesTo, Frees
<1>5. missed' \in 0..MaxMissed
  BY <1>1, CasAssumption DEF Misses
<1>6. StoreTyped'
  BY <1>1, <1>3, <1>4, <1>5 DEF StoreTyped
<1>7. OnFiles' \subseteq OnFiles
  <2>1. ASSUME NEW d \in DOMAIN disk, NEW i \in Units, Backed(d, i)'
        PROVE  Backed(d, i)
    <3>1. ASSUME NEW v \in Workers, Backs(call'[v], d, i)
          PROVE  Backed(d, i)
      BY <1>3, <1>4, <3>1 DEF Backed
    <3>2. ASSUME NEW a \in adrift', WritesTo(a, d)
          PROVE  Backed(d, i)
      BY <3>2 DEF Backed, Backs
    <3> QED
      BY <1>1, <2>1, <3>1, <3>2 DEF Backed
  <2> QED
    BY <1>1, <2>1 DEF OnFiles
<1>8. Freed' \subseteq Freed
  BY <1>3, <1>4 DEF Freed
<1>9. Going' \subseteq Going
  BY <1>1, <1>3, <1>4 DEF Going, Writing
<1>10. Underway' => Underway
  BY <1>9 DEF Underway, Going, Writing
<1>11. IsFiniteSet(ToOpen') /\ Balanced'
  <2>1. CASE k.pc = "open"
    <3>1. missed' = missed + 1 /\ ToOpen' \subseteq ToOpen \cup {k}
      BY <2>1 DEF Misses, ToOpen
    <3>2. InWriting \subseteq InWriting'
      BY <1>3, <2>1 DEF InWriting, Writing
    <3>3. /\ IsFiniteSet(ToOpen') /\ Cardinality(ToOpen') \in Nat /\ Cardinality(ToOpen) \in Nat
          /\ Cardinality(ToOpen') <= Cardinality(ToOpen) + 1
      <4>1. IsFiniteSet({k}) /\ Cardinality({k}) = 1
        BY FS_Singleton
      <4> DEFINE B == {k}
      <4>2. IsFiniteSet(B) /\ Cardinality(B) = 1 /\ ToOpen' \subseteq ToOpen \cup B
        BY <3>1, <4>1
      <4> HIDE DEF B
      <4> QED
        BY <1>1, <4>2, AsManyMore
    <3>4. /\ Cardinality(OnFiles) \in Nat /\ Cardinality(Freed) \in Nat
          /\ Cardinality(InWriting) \in Nat /\ Counted \in Int /\ missed \in Nat
      BY <1>1, Finite, CountedIs, CasAssumption
    <3>5. /\ Cardinality(OnFiles') \in Nat /\ Cardinality(Freed') \in Nat
          /\ Cardinality(InWriting') \in Nat
      BY <1>6, FiniteNext
    <3>6. /\ Cardinality(OnFiles') <= Cardinality(OnFiles)
          /\ Cardinality(Freed') <= Cardinality(Freed)
          /\ Cardinality(InWriting) <= Cardinality(InWriting')
      BY <1>1, <1>6, <1>7, <1>8, <3>2, Finite, FiniteNext, Fewer
    <3>7. Counted' = Counted
      BY <1>1 DEF Counted
    <3>8. Cardinality(OnFiles') + 2 * Cardinality(ToOpen') + Cardinality(Freed')
             <= Cardinality(OnFiles) + 2 * Cardinality(ToOpen) + Cardinality(Freed) + 2
      BY <3>3, <3>4, <3>5, <3>6
    <3>9. Counted + 2 * missed + 2 * Cardinality(InWriting) + 2
             <= Counted' + 2 * missed' + 2 * Cardinality(InWriting')
      BY <3>1, <3>4, <3>5, <3>6, <3>7
    <3> QED
      BY <1>6, <3>3, <3>8, <3>9, 2 \in Int, BalanceMoves
  <2>2. CASE k.pc \in {"write", "remove"}
    <3>1. ToOpen' \subseteq ToOpen
      BY <2>2 DEF ToOpen
    <3>2. \/ missed' = missed /\ InWriting \subseteq InWriting'
          \/ missed' = missed + 1 /\ InWriting \ {w} \subseteq InWriting'
      BY <1>3, <2>2 DEF InWriting, Writing, Misses
    <3> QED
      BY <1>1, <1>6, <1>7, <1>8, <3>1, <3>2, BalanceStays
  <2> QED
    BY <2>1, <2>2
<1> QED
  BY <1>1, <1>6, <1>9, <1>10, <1>11, LimitStays DEF SizeInv

\* The open of a dropped put.
LEMMA AdriftOpenKeepsSize ==
    ASSUME Roomy, SizeInv, AdriftOpen
    PROVE  SizeInv'
<1>1. /\ DOMAIN call = Workers /\ missed \in 0..MaxMissed /\ StoreTyped /\ IsFiniteSet(ToOpen)
      /\ \A a \in adrift : CallOK(a)
      /\ UNCHANGED <<current_size, call, missed>>
  BY DEF SizeInv, StoreTyped, AdriftOpen
<1> SUFFICES ASSUME NEW a \in adrift, a.pc = "open", NEW c, c = a.chunk,
                    disk' = Insert(disk, c, {}), NEW wr, wr = Writer(c),
                    adrift' = (adrift \ {a}) \cup {wr}
             PROVE  SizeInv'
  BY DEF AdriftOpen
<1>2. c \in Chunks
  BY <1>1 DEF CallOK
<1>3. /\ CallOK(wr) /\ wr.pc = "write" /\ \A d : WritesTo(wr, d) => d = c
  BY <1>2, 1 \in {1, 2} DEF CallOK, Writer, Writing, WritesTo, Units
<1>4. StoreTyped'
  BY <1>1, <1>2, <1>3 DEF StoreTyped, Insert
<1>5. OnFiles' \subseteq OnFiles \cup ({c} \X (1..2))
  <2>1. ASSUME NEW d \in DOMAIN disk', NEW i \in Units, d # c, Backed(d, i)'
        PROVE  d \in DOMAIN disk /\ Backed(d, i)
    <3>1. d \in DOMAIN disk /\ disk'[d] = disk[d]
      BY <2>1 DEF Insert
    <3> QED
      BY <1>1, <1>3, <2>1, <3>1 DEF Backed
  <2> QED
    BY <2>1, TwoUnits DEF OnFiles
<1>6. Cardinality(OnFiles') <= Cardinality(OnFiles) + 2
  <2>1. IsFiniteSet({c} \X (1..2)) /\ Cardinality({c} \X (1..2)) = 2
    BY FirstUnits, 2 \in 0..2
  <2> DEFINE B == {c} \X (1..2)
  <2>2. IsFiniteSet(B) /\ Cardinality(B) = 2 /\ OnFiles' \subseteq OnFiles \cup B
    BY <1>5, <2>1
  <2> HIDE DEF B
  <2> QED
    BY <1>1, <2>2, Finite, AsManyMore
<1>7. Freed' = Freed /\ InWriting' = InWriting /\ Going' = Going /\ Counted' = Counted
  BY <1>1 DEF Freed, InWriting, Going, Counted
<1>8. /\ IsFiniteSet(ToOpen') /\ Cardinality(ToOpen') \in Nat /\ Cardinality(ToOpen) \in Nat
      /\ Cardinality(ToOpen') + 1 <= Cardinality(ToOpen)
  <2>1. ToOpen' \subseteq ToOpen \ {a} /\ {a} \subseteq ToOpen
    BY <1>3 DEF ToOpen
  <2>2. Cardinality({a}) = 1
    BY FS_Singleton
  <2> QED
    BY <1>1, <2>1, <2>2, AsManyLess
<1>9. Balanced'
  <2>1. /\ Cardinality(OnFiles) \in Nat /\ Cardinality(Freed) \in Nat
        /\ Cardinality(InWriting) \in Nat /\ Counted \in Int /\ missed \in Nat
    BY <1>1, Finite, CountedIs, CasAssumption
  <2>2. Cardinality(OnFiles') \in Nat
    BY <1>4, FiniteNext
  <2>3. Cardinality(OnFiles') + 2 * Cardinality(ToOpen') + Cardinality(Freed')
             <= Cardinality(OnFiles) + 2 * Cardinality(ToOpen) + Cardinality(Freed) + 0
    BY <1>6, <1>7, <1>8, <2>1, <2>2
  <2>4. Counted + 2 * missed + 2 * Cardinality(InWriting) + 0
             <= Counted' + 2 * missed' + 2 * Cardinality(InWriting')
    BY <1>1, <1>7, <2>1
  <2> QED
    BY <1>4, <1>8, <2>3, <2>4, 0 \in Int, BalanceMoves
<1>10. Underway
  BY DEF Underway
<1> QED
  BY <1>1, <1>4, <1>7, <1>8, <1>9, <1>10, LimitStays DEF SizeInv

\* A write of a dropped put.
LEMMA AdriftWriteKeepsSize ==
    ASSUME Roomy, SizeInv, AdriftWrite
    PROVE  SizeInv' /\ OnFiles' \subseteq OnFiles /\ Underway
<1>1. /\ DOMAIN call = Workers /\ missed \in 0..MaxMissed /\ StoreTyped /\ IsFiniteSet(ToOpen)
      /\ \A a \in adrift : CallOK(a)
      /\ UNCHANGED <<current_size, call, missed>>
  BY DEF SizeInv, StoreTyped, AdriftWrite
<1>2. PICK a \in adrift : a.pc = "write" /\ \E units \in NextWrites(a) :
         /\ disk' = Written(a, units)
         /\ adrift' = (adrift \ {a}) \cup
                        (IF units = a.left THEN {} ELSE {[a EXCEPT !.left = @ \ units]})
  BY DEF AdriftWrite
<1>3. PICK units \in NextWrites(a) :
         /\ disk' = Written(a, units)
         /\ adrift' = (adrift \ {a}) \cup
                        (IF units = a.left THEN {} ELSE {[a EXCEPT !.left = @ \ units]})
  BY <1>2
<1>4. /\ {"pc", "chunk", "linked", "left"} \subseteq DOMAIN a /\ a.chunk \in Chunks
      /\ a.left \in SUBSET Units /\ a.left # {}
  BY <1>1, <1>2 DEF CallOK, Writing
<1>5. units \subseteq Units /\ (units # a.left => a.left \ units # {})
  BY <1>4, LeftToWrite
<1>6. \A b \in adrift' : b \notin adrift =>
        CallOK(b) /\ b.pc = "write" /\ \A d : WritesTo(b, d) => WritesTo(a, d)
  <2> DEFINE l == [a EXCEPT !.left = @ \ units]
  <2>1. /\ DOMAIN l = DOMAIN a /\ l.pc = "write" /\ l.chunk = a.chunk
        /\ l.linked = a.linked /\ l.left = a.left \ units
    BY <1>2, <1>4
  <2>2. \A b \in adrift' : b \notin adrift => b = l /\ units # a.left
    BY <1>3
  <2> HIDE DEF l
  <2>3. units # a.left => CallOK(l)
    BY <1>4, <1>5, <2>1 DEF CallOK, Writing
  <2>4. \A d : WritesTo(l, d) => WritesTo(a, d)
    BY <1>2, <2>1 DEF WritesTo, Writing
  <2> QED
    BY <2>1, <2>2, <2>3, <2>4
<1>7. /\ DOMAIN disk' = DOMAIN disk
      /\ \A d \in DOMAIN disk : \/ disk'[d] = disk[d]
                                \/ WritesTo(a, d) /\ disk'[d] = disk[d] \cup units
  BY <1>2, <1>3 DEF Written, WritesTo, Writing
<1>8. StoreTyped'
  <2>1. DOMAIN disk' \subseteq Chunks /\ \A d \in DOMAIN disk' : disk'[d] \subseteq Units
    BY <1>1, <1>5, <1>7 DEF StoreTyped
  <2> QED
    BY <1>1, <1>6, <2>1 DEF StoreTyped
<1>9. OnFiles' \subseteq OnFiles
  <2>1. ASSUME NEW d \in DOMAIN disk, NEW i \in Units, Backed(d, i)'
        PROVE  Backed(d, i)
    <3>1. ASSUME NEW b \in adrift', WritesTo(b, d)
          PROVE  Backed(d, i)
      BY <1>6, <3>1 DEF Backed
    <3>2. CASE i <= Length(disk'[d])
      BY <1>7, <3>2 DEF Backed
    <3> QED
      BY <1>1, <2>1, <3>1, <3>2 DEF Backed
  <2> QED
    BY <1>7, <2>1 DEF OnFiles
<1>10. Freed' = Freed /\ InWriting' = InWriting /\ Going' = Going /\ ToOpen' \subseteq ToOpen
  BY <1>1, <1>6 DEF Freed, InWriting, Going, ToOpen
<1>11. Underway
  BY <1>2 DEF Underway
<1>12. IsFiniteSet(ToOpen') /\ Balanced'
  <2>1. Freed' \subseteq Freed /\ InWriting \subseteq InWriting'
    BY <1>10
  <2> QED
    BY <1>1, <1>8, <1>9, <1>10, <2>1, BalanceStays
<1> QED
  BY <1>1, <1>8, <1>9, <1>10, <1>11, <1>12, LimitStays DEF SizeInv

\* The removal of a dropped delete, which nobody counts.
LEMMA AdriftRemoveKeepsSize ==
    ASSUME Roomy, SizeInv, AdriftRemove
    PROVE  SizeInv'
<1>1. /\ DOMAIN call = Workers /\ missed \in 0..MaxMissed /\ StoreTyped /\ IsFiniteSet(ToOpen)
      /\ \A v \in Workers : CallOK(call[v])
      /\ \A a \in adrift : CallOK(a)
      /\ UNCHANGED <<current_size, missed>>
  BY DEF SizeInv, StoreTyped, AdriftRemove
<1>2. PICK a \in adrift :
         /\ a.pc = "remove"
         /\ disk' = Remove(disk, {a.chunk})
         /\ call' = [w \in Workers |-> Unlinked(call[w], a.chunk)]
         /\ adrift' = {Unlinked(b, a.chunk) : b \in adrift \ {a}}
  BY DEF AdriftRemove
<1> SUFFICES ASSUME NEW c, c = a.chunk
             PROVE  SizeInv'
  OBVIOUS
<1>3. /\ DOMAIN call' = Workers /\ \A v \in Workers : call'[v] = Unlinked(call[v], c)
      /\ \A b1 \in adrift' : \E b \in adrift : b1 = Unlinked(b, c)
  BY <1>2
<1>4. /\ DOMAIN disk' = DOMAIN disk \ {c}
      /\ \A d \in DOMAIN disk : d # c => disk'[d] = disk[d]
  BY <1>2 DEF Remove
<1>5. StoreTyped'
  <2>1. \A v \in Workers : CallOK(call'[v])
    BY <1>1, <1>3, UnlinkedIs
  <2>2. \A b \in adrift' : CallOK(b)
    BY <1>1, <1>3, UnlinkedIs
  <2>3. DOMAIN disk' \subseteq Chunks /\ \A d \in DOMAIN disk' : disk'[d] \subseteq Units
    BY <1>1, <1>4 DEF StoreTyped
  <2> QED
    BY <1>1, <1>3, <2>1, <2>2, <2>3 DEF StoreTyped
<1>6. OnFiles' \subseteq OnFiles
  <2>1. ASSUME NEW d \in DOMAIN disk', NEW i \in Units, Backed(d, i)'
        PROVE  Backed(d, i)
    <3>1. disk'[d] = disk[d]
      BY <1>4
    <3>2. ASSUME NEW v \in Workers, Backs(call'[v], d, i)
          PROVE  Backed(d, i)
      BY <1>1, <1>3, <3>2, UnlinkedIs DEF Backed
    <3>3. ASSUME NEW b \in adrift', WritesTo(b, d)
          PROVE  Backed(d, i)
      BY <1>1, <1>3, <3>3, UnlinkedIs DEF Backed
    <3> QED
      BY <2>1, <3>1, <3>2, <3>3 DEF Backed
  <2> QED
    BY <1>4, <2>1 DEF OnFiles
<1>7. \A v \in Workers : /\ call'[v].pc = call[v].pc
                         /\ \A i : Frees(call'[v], i) => Frees(call[v], i)
  BY <1>1, <1>3, UnlinkedIs
<1>8. Freed' \subseteq Freed /\ InWriting \subseteq InWriting' /\ Going' \subseteq Going
  BY <1>7 DEF Freed, InWriting, Going
<1>9. ToOpen' \subseteq ToOpen
  BY <1>1, <1>3, UnlinkedIs DEF ToOpen
<1>10. Underway' => Underway
  <2>1. \A b1 \in adrift' : \E b \in adrift : b1.pc = b.pc
    BY <1>1, <1>3, UnlinkedIs
  <2> QED
    BY <1>8, <2>1 DEF Underway
<1>11. IsFiniteSet(ToOpen') /\ Balanced'
  BY <1>1, <1>5, <1>6, <1>8, <1>9, BalanceStays
<1> QED
  BY <1>1, <1>5, <1>8, <1>10, <1>11, LimitStays DEF SizeInv

\* What is on the disk, unit by unit.
Present == {s \in (DOMAIN disk) \X Units : s[2] <= Length(disk[s[1]])}

LEMMA PresentIsOnFiles == Present \subseteq OnFiles /\ OnDisk = Cardinality(Present)
BY DEF Present, OnFiles, Backed, OnDisk

\* The store is opened: the counter is what is on the disk.
LEMMA ReopenKeepsSize ==
    ASSUME Roomy, SizeInv, Crash \/ PowerLoss
    PROVE  SizeInv'
<1>1. StoreTyped
  BY DEF SizeInv
<1>2. /\ current_size' = OnDisk' /\ call' = [v \in Workers |-> NoCall]
      /\ adrift' = {} /\ missed' = 0
  BY DEF Crash, PowerLoss, Reopen
<1>3. DOMAIN disk' = DOMAIN disk /\ \A d \in DOMAIN disk : disk'[d] = disk[d] \/ disk'[d] = {}
  BY DEF Crash, PowerLoss
<1>4. CallOK(NoCall) /\ NoCall.pc = "none" /\ \A c, i : ~Backs(NoCall, c, i) /\ ~Frees(NoCall, i)
  BY DEF CallOK, NoCall, Writing, Backs, WritesTo, Frees
<1>5. Freed' = {} /\ InWriting' = {} /\ Going' = {} /\ ToOpen' = {} /\ ~Underway'
  <2>1. \A v \in Workers : call'[v] = NoCall
    BY <1>2
  <2>2. Freed' = {} /\ InWriting' = {} /\ Going' = {} /\ ToOpen' = {}
    BY <1>2, <1>4, <2>1 DEF Freed, InWriting, Going, ToOpen, Writing
  <2> QED
    BY <1>2, <2>2 DEF Underway
<1> DEFINE P == Present'
<1>6. OnFiles' = P /\ OnDisk' = Cardinality(P)
  <2>1. \A v \in Workers : call'[v] = NoCall
    BY <1>2
  <2>2. ASSUME NEW d \in DOMAIN disk', NEW i \in Units
        PROVE  Backed(d, i)' <=> i <= Length(disk'[d])
    BY <1>2, <1>4, <2>1 DEF Backed
  <2>3. OnFiles' = P
    BY <2>2 DEF OnFiles, Present
  <2> QED
    BY <2>3 DEF OnDisk, Present
<1>7. /\ Cardinality(P) \in Nat /\ Cardinality(P) <= 2 * Cardinality(Chunks)
      /\ Cardinality(Chunks) \in Nat /\ Cardinality(Workers) \in Nat
  <2>1. /\ IsFiniteSet(Chunks \X Units)
        /\ Cardinality(Chunks \X Units) = Cardinality(Chunks) * 2
    BY TwoUnits, FS_Product DEF Roomy, Size
  <2>2. P \subseteq Chunks \X Units
    BY <1>1, <1>3 DEF StoreTyped, Present
  <2>3. Cardinality(Chunks) \in Nat /\ Cardinality(Workers) \in Nat
    BY <1>1, Finite
  <2>4. Cardinality(P) \in Nat /\ Cardinality(P) <= Cardinality(Chunks \X Units)
    BY <2>1, <2>2, Fewer
  <2> QED
    BY <2>1, <2>3, <2>4
<1> HIDE DEF P
<1>8. /\ MaxSize + 2 * Cardinality(Chunks) + 2 * Cardinality(Workers) <= Width \div 2
      /\ MaxSize \in Nat /\ MaxSize > 0 /\ Width \in Nat
  BY TwoUnits, CasAssumption DEF Roomy
<1>9. current_size' = Cardinality(P) /\ current_size' <= Width \div 2 /\ current_size' < Width
  BY <1>2, <1>6, <1>7, <1>8
<1>10. Counted' = Cardinality(P)
  <2>1. Width \div 2 \in Nat
    BY <1>8
  <2>2. ~(current_size' > Width \div 2)
    BY <1>7, <1>9, <2>1
  <2> QED
    BY <1>9, <2>2 DEF Counted
<1>11. StoreTyped'
  <2>1. current_size' \in 0..(Width - 1) /\ missed' \in 0..MaxMissed
    BY <1>2, <1>7, <1>8, <1>9, CasAssumption
  <2>2. DOMAIN disk' \subseteq Chunks /\ \A d \in DOMAIN disk' : disk'[d] \subseteq Units
    BY <1>1, <1>3 DEF StoreTyped
  <2> QED
    BY <1>2, <1>4, <2>1, <2>2 DEF StoreTyped
<1>12. Cardinality({}) = 0 /\ IsFiniteSet({})
  BY FS_EmptySet
<1>13. Balanced'
  <2>1. /\ Cardinality(OnFiles') = Cardinality(P) /\ Cardinality(ToOpen') = 0
        /\ Cardinality(Freed') = 0 /\ Cardinality(InWriting') = 0 /\ missed' = 0
    BY <1>2, <1>5, <1>6, <1>12
  <2> QED
    BY <1>7, <1>10, <2>1, TwoUnits DEF Balanced
<1>14. Limited'
  <2>1. Cardinality(Going') = 0 /\ ~Underway'
    BY <1>5, <1>12
  <2> QED
    BY <1>7, <1>8, <1>10, <2>1, TwoUnits DEF Limited
<1> QED
  BY <1>5, <1>11, <1>12, <1>13, <1>14 DEF SizeInv

\* It holds at first, and every step keeps it.
LEMMA SizeInit ==
    ASSUME Roomy, Init
    PROVE  SizeInv
<1>1. /\ DOMAIN disk = {} /\ current_size = 0 /\ adrift = {} /\ missed = 0
      /\ call = [w \in Workers |-> NoCall]
  BY DEF Init, EmptyMap
<1>2. CallOK(NoCall) /\ NoCall.pc = "none"
  BY DEF CallOK, NoCall, Writing
<1>3. MaxSize \in Nat /\ Width \in Nat /\ MaxSize + 2 < Width /\ MaxMissed \in Nat
  BY CasAssumption
<1>4. StoreTyped
  BY <1>1, <1>2, <1>3 DEF StoreTyped
<1>5. OnFiles = {} /\ ToOpen = {} /\ Freed = {} /\ InWriting = {} /\ Going = {} /\ ~Underway
  BY <1>1, <1>2 DEF OnFiles, ToOpen, Freed, Frees, InWriting, Going, Underway, Writing
<1>6. Cardinality({}) = 0 /\ IsFiniteSet({})
  BY FS_EmptySet
<1>7. Counted = 0
  BY <1>1, <1>3 DEF Counted
<1>8. Balanced
  BY <1>1, <1>5, <1>6, <1>7, TwoUnits DEF Balanced
<1>9. Limited
  <2>1. Cardinality(Chunks) \in Nat /\ Cardinality(Workers) \in Nat
    BY <1>4, Finite
  <2> QED
    BY <1>3, <1>5, <1>6, <1>7, <2>1, TwoUnits DEF Limited
<1> QED
  BY <1>4, <1>5, <1>6, <1>8, <1>9 DEF SizeInv

LEMMA SizeStep ==
    ASSUME Roomy, SizeInv, [Next]_store
    PROVE  SizeInv'
<1>1. ASSUME UNCHANGED store
      PROVE  SizeInv'
  BY <1>1 DEF store, SizeInv, StoreTyped, Balanced, Limited, OnFiles, Backed, ToOpen, Freed,
              InWriting, Going, Underway, Counted
<1>2. ASSUME NEW w \in Workers, NEW c \in Chunks, Put(w, c) \/ Get(w, c) \/ Delete(w, c)
      PROVE  SizeInv'
  BY <1>2, BeginKeepsSize
<1>3. ASSUME NEW w \in Workers, Step(w)
      PROVE  SizeInv'
  BY <1>3, LimitKeepsSize, OpenKeepsSize, WriteKeepsSize, QuietStep, CountKeepsSize,
     RemoveKeepsSize, UncountKeepsSize, TimeoutKeepsSize DEF Step
<1>4. ASSUME AdriftOpen \/ AdriftWrite \/ AdriftRemove
      PROVE  SizeInv'
  BY <1>4, AdriftOpenKeepsSize, AdriftWriteKeepsSize, AdriftRemoveKeepsSize
<1> QED
  BY <1>1, <1>2, <1>3, <1>4, ReopenKeepsSize DEF Next

THEOREM SizeInvariance ==
    ASSUME Roomy
    PROVE  Spec => []SizeInv
<1>1. Init => SizeInv
  BY SizeInit
<1>2. SizeInv /\ [Next]_store => SizeInv'
  BY SizeStep
<1> QED
  BY <1>1, <1>2, PTL DEF Spec

\* When nobody is in a call, the counter covers what is on the disk but for the
\* puts that were missed.
THEOREM CounterCoversDisk ==
    ASSUME Roomy
    PROVE  Spec => []SizeCoversDisk
<1>1. ASSUME SizeInv, \A w \in Workers : call[w] = NoCall
      PROVE  OnDisk <= Counted + 2 * missed
  <2>1. InWriting = {}
    BY <1>1 DEF InWriting, NoCall, Writing
  <2>2. StoreTyped /\ IsFiniteSet(ToOpen) /\ Balanced
    BY <1>1 DEF SizeInv
  <2>3. Cardinality(InWriting) = 0
    BY <2>1, FS_EmptySet
  <2>4. /\ Cardinality(OnFiles) \in Nat /\ Cardinality(Freed) \in Nat /\ Cardinality(ToOpen) \in Nat
        /\ Counted \in Int /\ missed \in Nat
    BY <2>2, Finite, FS_CardinalityType, CountedIs, CasAssumption DEF StoreTyped
  <2>5. OnDisk \in Nat /\ OnDisk <= Cardinality(OnFiles)
    BY <2>2, PresentIsOnFiles, Finite, Fewer
  <2> QED
    BY <2>2, <2>3, <2>4, <2>5, TwoUnits DEF Balanced
<1>2. SizeInv => SizeCoversDisk
  BY <1>1, TwoUnits DEF SizeCoversDisk
<1> QED
  BY <1>2, SizeInvariance, PTL

\* A step that writes nothing leaves no more on the disk.
LEMMA NoMoreOnDisk ==
    ASSUME Roomy, StoreTyped,
           \A d \in DOMAIN disk' : disk'[d] = {} \/ (d \in DOMAIN disk /\ disk'[d] = disk[d])
    PROVE  OnDisk' <= OnDisk /\ OnDisk' \in Nat /\ OnDisk \in Nat
<1> DEFINE P == Present
           P1 == Present'
<1>1. P1 \subseteq P
  <2>1. ASSUME NEW d \in DOMAIN disk', NEW i \in Units, i <= Length(disk'[d])
        PROVE  d \in DOMAIN disk /\ i <= Length(disk[d])
    <3>1. Length({}) = 0
      BY LengthOf
    <3>2. disk'[d] # {}
      BY <2>1, <3>1, TwoUnits
    <3> QED
      BY <2>1, <3>2
  <2> QED
    BY <2>1 DEF Present
<1>2. IsFiniteSet(P)
  BY PresentIsOnFiles, Finite, Fewer
<1>3. OnDisk = Cardinality(P) /\ OnDisk' = Cardinality(P1)
  BY DEF OnDisk, Present
<1> HIDE DEF P, P1
<1> QED
  BY <1>1, <1>2, <1>3, Fewer

\* More is on the disk only after a write, of one who passed the limit; what
\* exceeds the limit is then what the others have in hand, and what was missed.
THEOREM OvershootIsBounded ==
    ASSUME Roomy
    PROVE  Spec => OvershootBounded
<1> DEFINE A == MaxSize > 0 /\ OnDisk' > OnDisk =>
                  OnDisk' <= MaxSize + Size * (Cardinality(Workers) - 1 + missed)
<1>1. ASSUME SizeInv, SizeInv', OnFiles' \subseteq OnFiles, Underway
      PROVE  A
  <2>1. StoreTyped /\ IsFiniteSet(ToOpen) /\ Balanced /\ Limited /\ StoreTyped'
    BY <1>1 DEF SizeInv
  <2>2. /\ Cardinality(OnFiles) \in Nat /\ Cardinality(Freed) \in Nat /\ Cardinality(ToOpen) \in Nat
        /\ Cardinality(InWriting) \in Nat /\ Cardinality(Going) \in Nat
        /\ Cardinality(Workers) \in Nat
        /\ Cardinality(InWriting) <= Cardinality(Going)
        /\ Counted \in Int /\ missed \in Nat /\ MaxSize \in Nat
    BY <2>1, Finite, FS_CardinalityType, CountedIs, CasAssumption DEF StoreTyped
  <2>3. OnDisk' \in Nat /\ OnDisk' <= Cardinality(OnFiles)
    <3>1. Present' \subseteq OnFiles' /\ OnDisk' = Cardinality(Present')
      BY DEF Present, OnFiles, Backed, OnDisk
    <3>2. Present' \subseteq OnFiles
      BY <1>1, <3>1
    <3> QED
      BY <2>1, <3>1, <3>2, Finite, Fewer
  <2>4. Cardinality(OnFiles) <= Counted + 2 * missed + 2 * Cardinality(InWriting)
    BY <2>1, <2>2, TwoUnits DEF Balanced
  <2>5. Counted + 2 * Cardinality(Going) <= MaxSize - 2 + 2 * Cardinality(Workers)
    BY <1>1, <2>1, TwoUnits DEF Limited
  <2>6. OnDisk' <= MaxSize + 2 * (Cardinality(Workers) - 1 + missed)
    BY <2>2, <2>3, <2>4, <2>5
  <2> QED
    BY <2>6, TwoUnits
<1>2. ASSUME SizeInv,
             \A d \in DOMAIN disk' : disk'[d] = {} \/ (d \in DOMAIN disk /\ disk'[d] = disk[d])
      PROVE  A
  <2>1. StoreTyped
    BY <1>2 DEF SizeInv
  <2> QED
    BY <1>2, <2>1, NoMoreOnDisk
<1>3. SizeInv /\ SizeInv' /\ [Next]_store => A
  <2> SUFFICES ASSUME SizeInv, SizeInv', [Next]_store
               PROVE  A
    OBVIOUS
  <2> HIDE DEF A
  <2>1. CASE UNCHANGED disk
    BY <1>2, <2>1
  <2>2. ASSUME NEW w \in Workers, PutOpen(w)
        PROVE  A
    BY <1>2, <2>2 DEF PutOpen, Insert
  <2>3. ASSUME NEW w \in Workers, PutWrite(w)
        PROVE  A
    BY <1>1, <2>3, WriteKeepsSize
  <2>4. ASSUME NEW w \in Workers, DeleteRemove(w)
        PROVE  A
    BY <1>2, <2>4 DEF DeleteRemove, Unlink, Remove
  <2>5. CASE AdriftOpen
    BY <1>2, <2>5 DEF AdriftOpen, Insert
  <2>6. CASE AdriftWrite
    BY <1>1, <2>6, AdriftWriteKeepsSize
  <2>7. CASE AdriftRemove
    BY <1>2, <2>7 DEF AdriftRemove, Remove
  <2>8. CASE PowerLoss
    BY <1>2, <2>8 DEF PowerLoss
  <2>9. ASSUME NEW w \in Workers,
               \/ PutLimit(w) \/ PutIndex(w) \/ PutCount(w) \/ GetRead(w) \/ DeleteMetadata(w)
               \/ DeleteUnindex(w) \/ DeleteCount(w) \/ CallFails(w) \/ Timeout(w)
        PROVE  UNCHANGED disk
    BY <2>9 DEF PutLimit, PutIndex, PutCount, GetRead, DeleteMetadata, DeleteUnindex, DeleteCount,
                CallFails, Timeout
  <2>10. ASSUME NEW w \in Workers, NEW c \in Chunks, Put(w, c) \/ Get(w, c) \/ Delete(w, c)
         PROVE  UNCHANGED disk
    BY <2>10 DEF Put, Get, Delete
  <2>11. CASE Crash \/ UNCHANGED store
    <3>1. UNCHANGED disk
      BY <2>11 DEF Crash, store
    <3> QED
      BY <2>1, <3>1
  <2> QED
    BY <2>1, <2>2, <2>3, <2>4, <2>5, <2>6, <2>7, <2>8, <2>9, <2>10, <2>11 DEF Next, Step
<1> QED
  BY <1>3, SizeInvariance, PTL DEF Spec, OvershootBounded
=============================================================================
