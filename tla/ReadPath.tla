------------------------------ MODULE ReadPath ------------------------------
(***************************************************************************)
(* Reading a file through the cache: FileReader (musicfs-cas/src/reader.rs)*)
(* and ContentFetcher (musicfs-cas/src/fetcher.rs) on top of CasStore.     *)
(*                                                                         *)
(* The FUSE thread serves one read at a time; the tasks of the prefetch    *)
(* engine (musicfs-cache/src/prefetch.rs) fetch files into the store       *)
(* beside it.  A file is one chunk, which its version at the origin        *)
(* decides; the manifest a read starts from is that of the last fetch.  A  *)
(* read asks for the whole file, and gets as much of the chunk as the file *)
(* was long when the mount scanned it.                                     *)
(***************************************************************************)
EXTENDS CasStore, Sequences

CONSTANTS
    Reader,      \* the worker that is the FUSE thread; the others prefetch
    Files,
    ChunkOf,     \* the chunk of a version of a file: Files -> Seq(Chunks)
    Bytes,       \* how long each chunk is for who reads it (the store counts
                 \*   all chunks alike; an empty file would have none)
    Disturbances \* what else the origin may do

ASSUME ReadPathAssumption ==
    /\ Reader \in Workers
    /\ ChunkOf \in [Files -> Seq(Chunks)] /\ \A f \in Files : Len(ChunkOf[f]) > 0
    /\ Bytes \in [Chunks -> Nat \ {0}]
    /\ Disturbances \subseteq {"origin_change", "origin_down"}

VARIABLES
    version,     \* the version of each file at the origin
    scanned,     \* the version of each file that the mount's scan saw, whose
                 \*   size the fetcher's file_meta keeps
    manifests,   \* file to chunk, in memory
    task,        \* what each worker is about
    answer,      \* the last answer to a read
    failures,    \* history: reads of each file failed in a row in calm, with
                 \*   no change of the file at the origin between them
    calm         \* history: since the start the disk, the origin and the clock
                 \*   let every call end, the store was never full, and the
                 \*   reader had it for itself

reading == <<version, scanned, manifests, task, answer, failures>>
vars == <<store, reading, calm>>

Prefetchers == Workers \ {Reader}

NoTask == [pc |-> "idle"]
NoAnswer == [is |-> "none"]

ReadPathInit ==
    /\ Init
    /\ version = [f \in Files |-> 1] /\ scanned = version
    /\ manifests = EmptyMap
    /\ task = [w \in Workers |-> NoTask]
    /\ answer = NoAnswer
    /\ failures = [f \in Files |-> 0]
    /\ calm = TRUE

Returned(w) == call[w] = NoCall

\* The reply is looked at, and gone.
Heard(w) ==
    /\ reply' = [reply EXCEPT ![w] = NoReply]
    /\ UNCHANGED <<disk, current_size, call, adrift, missed>>

----------------------------------------------------------------------------
(* FileReader::read, and where it and the prefetcher start to fetch.       *)

Read(f) ==
    /\ task[Reader] = NoTask
    /\ task' = [task EXCEPT ![Reader] =
                  IF f \in DOMAIN manifests
                  THEN [pc |-> "get", file |-> f, chunk |-> manifests[f], again |-> FALSE]
                  ELSE [pc |-> "fetch", file |-> f, known |-> FALSE]]
    /\ UNCHANGED <<store, version, scanned, manifests, answer, failures>>

\* One prefetch of a file at a time (in_flight), as many as there are permits.
Prefetch(w, f) ==
    /\ w # Reader /\ task[w] = NoTask
    /\ \A v \in Prefetchers : task[v] # NoTask => task[v].file # f
    /\ task' = [task EXCEPT ![w] = [pc |-> "fetch", file |-> f, known |-> FALSE]]
    /\ UNCHANGED <<store, version, scanned, manifests, answer, failures>>

\* What every manifest of the file says its length is, until the next mount.
total_size(f) == Bytes[ChunkOf[f][scanned[f]]]

\* read_end: no further than that, and than the chunk.
Upto(f, c) == Min({total_size(f), Bytes[c]})

\* The read ends: with the chunk, or with an error (EIO).
Finish(w, result) ==
    /\ task' = [task EXCEPT ![w] = NoTask]
    /\ IF w = Reader
       THEN /\ answer' = IF result.is = "data"
                         THEN [is |-> "data", file |-> task[w].file, got |-> result,
                               upto |-> Upto(task[w].file, result.chunk)]
                         ELSE [is |-> "failed", file |-> task[w].file, of |-> result.is]
            /\ failures' = [failures EXCEPT ![task[w].file] =
                              IF result.is = "data" \/ ~calm THEN 0 ELSE Min({3, @ + 1})]
       ELSE UNCHANGED <<answer, failures>>

Continue(w, next) ==
    /\ task' = [task EXCEPT ![w] = next]
    /\ UNCHANGED <<answer, failures>>

\* The origin answers with the file as it is now, or not at all.
FetchRead(w) ==
    /\ task[w].pc = "fetch"
    /\ \/ Continue(w, [pc |-> "store", file |-> task[w].file, known |-> task[w].known,
                       fetched |-> ChunkOf[task[w].file][version[task[w].file]],
                       want |-> IF task[w].known THEN task[w].want ELSE 0])
       \/ "origin_down" \in Disturbances /\ Finish(w, [is |-> "origin"])
    /\ UNCHANGED <<store, version, scanned, manifests>>

\* "if !store.exists { store.put }"; put looks again by itself.
FetchPut(w) ==
    /\ task[w].pc = "store" /\ Returned(w)
    /\ Put(w, task[w].fetched)
    /\ Continue(w, [task[w] EXCEPT !.pc = "stored"])
    /\ UNCHANGED <<version, scanned, manifests>>

\* A mutant: the manifest is only kept the first time.
FetchDoneOnce(w) ==
    /\ task[w].pc = "stored" /\ Returned(w)
    /\ manifests' = IF w = Reader /\ ~task[w].known
                    THEN Insert(manifests, task[w].file, task[w].fetched) ELSE manifests
    /\ Continue(w, IF w # Reader THEN NoTask
                   ELSE [pc |-> "get", file |-> task[w].file, again |-> task[w].known,
                         chunk |-> IF task[w].known THEN task[w].want ELSE task[w].fetched])
    /\ UNCHANGED <<store, version, scanned>>

\* Whatever put said.  The reader keeps the manifest; after a chunk that was
\* corrupt or missing it goes on with the chunk it wanted before.
FetchDone(w) ==
    /\ task[w].pc = "stored" /\ Returned(w)
    /\ IF w = Reader
       THEN /\ manifests' = Insert(manifests, task[w].file, task[w].fetched)
            /\ Continue(w, [pc |-> "get", file |-> task[w].file,
                            chunk |-> IF task[w].known THEN task[w].want ELSE task[w].fetched,
                            again |-> task[w].known])
       ELSE /\ Continue(w, NoTask)
            /\ UNCHANGED manifests
    /\ Heard(w) /\ UNCHANGED <<version, scanned>>

GetChunk ==
    /\ task[Reader].pc = "get" /\ Returned(Reader)
    /\ Get(Reader, task[Reader].chunk)
    /\ Continue(Reader, [task[Reader] EXCEPT !.pc = "got"])
    /\ UNCHANGED <<version, scanned, manifests>>

Refetch == [pc |-> "fetch", file |-> task[Reader].file, known |-> TRUE,
            want |-> task[Reader].chunk]

\* A mutant: the corrupt chunk is fetched again but not deleted.
GotChunkKept ==
    /\ task[Reader].pc = "got" /\ Returned(Reader)
    /\ LET refetch == ~task[Reader].again /\ reply[Reader].is \in {"corrupt", "not_found"}
       IN  IF refetch THEN Continue(Reader, Refetch) ELSE Finish(Reader, reply[Reader])
    /\ UNCHANGED <<store, version, scanned, manifests>>

GotChunk ==
    /\ task[Reader].pc = "got" /\ Returned(Reader)
    /\ LET got == reply[Reader]
           first == ~task[Reader].again
       IN  \/ /\ first /\ got.is = "corrupt"
              /\ Delete(Reader, task[Reader].chunk)
              /\ Continue(Reader, [Refetch EXCEPT !.pc = "delete"])
           \/ /\ first /\ got.is = "not_found"
              /\ Continue(Reader, Refetch)
              /\ Heard(Reader)
           \/ /\ ~(first /\ got.is \in {"corrupt", "not_found"})
              /\ Finish(Reader, got)
              /\ Heard(Reader)
    /\ UNCHANGED <<version, scanned, manifests>>

\* Whatever delete said.
Deleted ==
    /\ task[Reader].pc = "delete" /\ Returned(Reader)
    /\ Continue(Reader, [task[Reader] EXCEPT !.pc = "fetch"])
    /\ Heard(Reader)
    /\ UNCHANGED <<version, scanned, manifests>>

----------------------------------------------------------------------------
(* The store's own steps, and what the world does.                         *)

\* A timeout drops the whole read, not just the call.
StoreStep ==
    /\ \/ \E w \in Workers : Step(w) /\ reply'[w] # TimedOut
       \/ AdriftOpen \/ AdriftWrite \/ AdriftRemove
    /\ UNCHANGED <<version, scanned, manifests, task, answer, failures>>

ReadTimeout ==
    /\ \/ Timeout(Reader)
       \/ "timeout" \in Events /\ task[Reader].pc = "fetch" /\ UNCHANGED store
    /\ Finish(Reader, TimedOut)
    /\ UNCHANGED <<version, scanned, manifests>>

OriginChange(f) ==
    /\ "origin_change" \in Disturbances
    /\ version[f] < Len(ChunkOf[f])
    /\ version' = [version EXCEPT ![f] = @ + 1]
    /\ failures' = [failures EXCEPT ![f] = 0]
    /\ UNCHANGED <<store, scanned, manifests, task, answer>>

\* The next mount scans every file anew.
Restart ==
    /\ Crash \/ PowerLoss
    /\ scanned' = version
    /\ manifests' = EmptyMap
    /\ task' = [w \in Workers |-> NoTask]
    /\ answer' = NoAnswer
    /\ failures' = IF calm THEN failures ELSE [f \in Files |-> 0]
    /\ calm' = TRUE
    /\ UNCHANGED version

Disturbed ==
    \/ \E w \in Workers : reply[w].is \in {"io", "full", "timeout"}
    \/ answer.is = "failed" /\ answer.of \in {"origin", "timeout"}
    \/ \E w \in Prefetchers : task[w] # NoTask

ReadPathStep ==
    \/ \E f \in Files : Read(f) \/ OriginChange(f) \/ \E w \in Prefetchers : Prefetch(w, f)
    \/ \E w \in Workers : FetchRead(w) \/ FetchPut(w) \/ FetchDone(w)
    \/ GetChunk \/ GotChunk \/ Deleted
    \/ StoreStep \/ ReadTimeout

ReadPathNext ==
    \/ ReadPathStep /\ calm' = (calm /\ ~Disturbed')
    \/ Restart

ReadPathSpec == ReadPathInit /\ [][ReadPathNext]_vars

----------------------------------------------------------------------------
(* Properties.                                                             *)

\* A read that answers with data answers with one version of the file, one that
\* it has had since the mount scanned it, from its start to its end or, where that
\* comes first, to where the scanned one ended; whatever tore the chunk's file
\* meanwhile, and whatever was fetched for others.
ReadsAreRight ==
    answer.is = "data" =>
      LET f == answer.file IN
      /\ answer.got.units = Units
      /\ \E v \in scanned[f]..version[f] :
           /\ answer.got.chunk = ChunkOf[f][v]
           /\ answer.upto = Min({Bytes[ChunkOf[f][scanned[f]]], Bytes[ChunkOf[f][v]]})

\* "Corrupt/missing chunks are auto-re-fetched from origin transparently":
\* while the origin answers, no read fails.
ReadsSucceed == answer.is \in {"none", "data"}

\* The same where it holds: in calm, the reads of a file that has not changed at
\* the origin since the mount scanned it succeed, whatever an earlier run, a crash
\* or a loss of power left of its chunk in the store.
UnchangedReadsSucceed ==
    calm => ReadsSucceed \/ version[answer.file] > scanned[answer.file]

\* In calm a read of a file that changed under its manifest may fail, and so may
\* the next, where the fetch of the first found a torn file of an earlier run
\* under the name of the chunk and the file then changed again; the fetch of the
\* second has mended manifest and store, and no third one fails.
FailsAtMostTwice == calm => \A f \in Files : failures[f] < 3
=============================================================================
