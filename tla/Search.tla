------------------------------- MODULE Search -------------------------------
(***************************************************************************)
(* From a change of a file at the origin to the answer of a search: the    *)
(* watcher (musicfs-sync/src/watcher.rs), the event bus, the indexer       *)
(* (musicfs-search/src/indexer.rs) and its index, the webhooks (musicfs-   *)
(* grpc/src/webhook.rs), which hear the same events, and the links of the  *)
(* directory .search (musicfs-fuse/src/ops/search.rs).                     *)
(*                                                                         *)
(* What a file's tags are is asked of a MetadataLookup, which this         *)
(* repository leaves to its user: it learns of a file at any time.         *)
(***************************************************************************)
EXTENDS EventBus, SearchIndex, FiniteSets

CONSTANTS
    Files,
    Queries,
    Retries,     \* retry_count of the webhook
    Batches,     \* the sets of files that index_batch may be given
    MaxDocuments,\* bound: documents of the writer that index_batch adds to
    MaxChanges,  \* bound: changes of files at the origin
    MaxFaults    \* bound: errors of the index, and crashes

ASSUME SearchAssumption ==
    /\ Receivers \subseteq {"indexer", "webhook"} /\ "indexer" \in Receivers
    /\ \A q \in Queries : Matches[q] \subseteq Files
    /\ Batches \subseteq SUBSET Files
    /\ Retries \in Nat

VARIABLES
    disk,            \* the version of each file at the origin, 0 if there is none
    changes, faults, \* how many there were
    known,           \* the version the lookup knows, 0 if it answers None
    notified,        \* the watcher's channel
    debouncer,       \* the files it saw less than DEBOUNCE_MS ago
    pending_commit,
    batch,           \* index_batch under way: the files it has left, as it was given them
    unsaved,         \* history: the last commit failed, or a batch broke off after it
    missed,          \* history: files the index need not be right about
    post,            \* the webhook's attempt under way
    result_cache,    \* of .search: query to hits
    inode_to_result, \* index of a link to query and hit
    shown            \* history: the file each link of a listing stood for

world == <<disk, changes, faults, known>>
watcher == <<notified, debouncer>>
indexer == <<index, pending_commit, batch, unsaved, missed>>
links == <<result_cache, inode_to_result, shown>>
vars == <<world, watcher, bus, indexer, post, links>>

NoPost == [pc |-> "idle"]
NoBatch == [on |-> FALSE]

Init ==
    /\ disk = [f \in Files |-> 0] /\ known = disk
    /\ changes = 0 /\ faults = 0
    /\ notified = <<>> /\ debouncer = {}
    /\ BusInit /\ IndexInit
    /\ pending_commit = FALSE /\ batch = NoBatch /\ unsaved = FALSE /\ missed = {}
    /\ post = NoPost
    /\ result_cache = EmptyMap /\ inode_to_result = EmptyMap
    /\ shown = EmptyMap

----------------------------------------------------------------------------
(* Files change, and the lookup hears of it some time.                     *)

Notice(kind, f) == [kind |-> kind, file |-> f]

Change(f, version, notices) ==
    /\ changes < MaxChanges
    /\ changes' = changes + 1
    /\ disk' = [disk EXCEPT ![f] = version]
    /\ notified' = notified \o notices
    /\ UNCHANGED <<faults, known, debouncer, bus, indexer, post, links>>

\* Who writes a file opens it first.
WriteFile(f) ==
    Change(f, changes + 1, IF disk[f] = 0 THEN <<Notice("create", f)>>
                           ELSE <<Notice("access", f), Notice("modify", f)>>)

RemoveFile(f) == disk[f] # 0 /\ Change(f, 0, <<Notice("remove", f)>>)

Learn(f) ==
    /\ known[f] # disk[f]
    /\ known' = [known EXCEPT ![f] = disk[f]]
    /\ UNCHANGED <<disk, changes, faults, watcher, bus, indexer, post, links>>

----------------------------------------------------------------------------
(* The watcher.                                                            *)

Awaits(f) == "indexer" \in DOMAIN inbox
             /\ \E i \in DOMAIN inbox["indexer"] : inbox["indexer"][i].file = f

\* The files whose events the indexer loses, with the one that is published.
Loses == IF Overflows("indexer") THEN {Head(inbox["indexer"]).file} ELSE {}

EventOf(kind) == CASE kind = "create" -> "FileAdded"
                   [] kind = "remove" -> "FileRemoved"
                   [] kind = "modify" -> "FileModified"

\* The first event of a burst goes out, the rest do not.
HandleNotifyEvent ==
    /\ notified # <<>>
    /\ notified' = Tail(notified)
    /\ LET f == Head(notified).file
           kind == Head(notified).kind
           quiet == f \notin debouncer
       IN  /\ debouncer' = debouncer \cup {f}
           /\ IF quiet /\ kind # "access"
              THEN publish([is |-> EventOf(kind), file |-> f]) ELSE UNCHANGED bus
           /\ missed' = missed \cup
                (IF kind = "access" THEN {}
                 ELSE IF quiet THEN Loses \cup (IF "indexer" \in DOMAIN inbox THEN {} ELSE {f})
                 ELSE IF Awaits(f) THEN {} ELSE {f})
    /\ UNCHANGED <<world, index, pending_commit, batch, unsaved, post, links>>

DebounceOver(f) ==
    /\ f \in debouncer
    /\ debouncer' = debouncer \ {f}
    /\ UNCHANGED <<world, notified, bus, indexer, post, links>>

----------------------------------------------------------------------------
(* The indexer.                                                            *)

\* The writer's documents after an event.  A mutant: what is modified is added.
HandledAsAdded(docs, is, f) ==
    CASE is = "FileRemoved" -> IF known[f] # 0 THEN remove_file(docs, f) ELSE docs
      [] is # "FileRemoved" -> IF known[f] # 0 THEN index_file(docs, f, known[f]) ELSE docs
Handled(docs, is, f) ==
    CASE is = "FileAdded" /\ known[f] # 0 -> index_file(docs, f, known[f])
      [] is = "FileRemoved" -> IF known[f] # 0 THEN remove_file(docs, f)
                                               ELSE remove_by_path(docs, f)
      [] is = "FileModified" /\ known[f] # 0 ->
           index_file(remove_file(docs, f), f, known[f])
      [] OTHER -> docs

\* What the index is to hold of a file.
Present(f) == [versions |-> IF disk[f] = 0 THEN {} ELSE {disk[f]}, sole |-> TRUE]

\* Whether that makes the index right about the file, or leaves it wrong.
Mends(is, f) ==
    \/ is = "FileModified" /\ known[f] # 0 /\ known[f] = disk[f]
    \/ is = "FileRemoved" /\ known[f] # 0 /\ disk[f] = 0
Spoils(is, f) ==
    \/ is \in {"FileAdded", "FileModified"} /\ (known[f] = 0 \/ known[f] # disk[f])
    \/ is = "FileAdded" /\ VersionsOf(written, f) # {}
    \/ is = "FileRemoved" /\ (known[f] = 0 \/ disk[f] # 0)

\* A mutant: not after an error, which may have removed a document.
PendingIfDone(failed) == pending_commit \/ ~failed
PendingAfter(failed) == TRUE

\* The two calls for a modified file are one step: should index_batch commit in
\* between, what it lacks is written and due before anything else is heard.
HandleEvent(failed) ==
    /\ Hears("indexer")
    /\ LET event == Head(inbox["indexer"])
           f == event.file
       IN  IF failed
           THEN /\ event.is # "FileRemoved" /\ known[f] # 0
                /\ written' = IF event.is = "FileModified" THEN remove_file(written, f)
                                                           ELSE written
                /\ missed' = missed \cup {f}
           ELSE /\ written' = Handled(written, event.is, f)
                /\ missed' = IF Mends(event.is, f) THEN missed \ {f}
                             ELSE IF Spoils(event.is, f) THEN missed \cup {f} ELSE missed
    /\ pending_commit' = PendingAfter(failed)
    /\ UNCHANGED <<disk, changes, known, watcher, committed, batch, unsaved, post, links>>

Fault ==
    /\ faults < MaxFaults
    /\ faults' = faults + 1

HandleEventDone == HandleEvent(FALSE) /\ UNCHANGED faults
HandleEventFails == HandleEvent(TRUE) /\ Fault

IndexerLags ==
    /\ HearsLagged("indexer")
    /\ UNCHANGED <<world, watcher, indexer, post, links>>

\* The files whose documents a failed commit or a crash leaves behind.
Uncommitted == {f \in Files : Holding(written, f) # Holding(committed, f)}

\* What else is lost in the same step is missed too.
CommitSucceeds(lost) == commit /\ unsaved' = FALSE /\ missed' = missed \cup lost

\* The reload may be what fails: the documents are committed nevertheless.
CommitFails(lost) ==
    /\ committed' \in {committed, written}
    /\ unsaved' = TRUE
    /\ missed' = missed \cup lost \cup Uncommitted
    /\ UNCHANGED written

\* The timer: a commit that fails is not tried again before the next event.
CommitTick ==
    /\ "indexer" \in DOMAIN inbox /\ pending_commit
    /\ pending_commit' = FALSE
    /\ \/ CommitSucceeds({}) /\ UNCHANGED faults
       \/ CommitFails({}) /\ Fault
    /\ UNCHANGED <<disk, changes, known, watcher, bus, batch, post, links>>

\* stop: a last commit, whose outcome nobody looks at; what comes is not heard.
Unheard == {f \in Files : Awaits(f)}

Stop ==
    /\ "indexer" \in DOMAIN inbox
    /\ Unsubscribe("indexer")
    /\ pending_commit' = FALSE
    /\ Fault
    /\ \/ pending_commit /\ CommitSucceeds(Unheard)
       \/ pending_commit /\ CommitFails(Unheard)
       \/ ~pending_commit /\ missed' = missed \cup Unheard /\ UNCHANGED <<index, unsaved>>
    /\ UNCHANGED <<disk, changes, known, watcher, batch, post, links>>

----------------------------------------------------------------------------
(* index_batch, which the indexer's owner calls beside the task.           *)

Batch == UNCHANGED <<disk, changes, known, watcher, bus, pending_commit, post, links>>

BatchBegin(files) ==
    /\ ~batch.on /\ Len(written) + Cardinality(files) <= MaxDocuments
    /\ \A f \in files : known[f] # 0
    /\ batch' = [on |-> TRUE, left |-> [f \in files |-> known[f]]]
    /\ UNCHANGED <<faults, index, unsaved, missed>> /\ Batch

\* It does not look whether the file has a document, or changed since.
BatchIndex(f) ==
    /\ batch.on /\ f \in DOMAIN batch.left
    /\ written' = index_file(written, f, batch.left[f])
    /\ missed' = IF batch.left[f] = disk[f] /\ VersionsOf(written, f) = {}
                 THEN missed \ {f} ELSE missed \cup {f}
    /\ batch' = [on |-> TRUE, left |-> Remove(batch.left, {f})]
    /\ UNCHANGED <<faults, committed, unsaved>> /\ Batch

\* Its commit takes along what the task has written.
BatchCommit ==
    /\ batch.on /\ DOMAIN batch.left = {}
    /\ batch' = NoBatch
    /\ \/ CommitSucceeds({}) /\ UNCHANGED faults
       \/ CommitFails({}) /\ Fault
    /\ Batch

\* An error at one file returns: those before it are written, but no commit is due.
BatchBreaksOff ==
    /\ batch.on /\ DOMAIN batch.left # {}
    /\ batch' = NoBatch /\ unsaved' = TRUE
    /\ missed' = missed \cup Uncommitted
    /\ Fault /\ UNCHANGED index /\ Batch

\* The daemon dies and starts again.
Crash ==
    /\ Fault
    /\ inbox' = [r \in Receivers |-> <<>>] /\ lagged' = {}
    /\ notified' = <<>> /\ debouncer' = {}
    /\ \/ /\ open_with_recovery(committed)
          /\ missed' = missed \cup Uncommitted
                \cup {f \in Files : Awaits(f) \/ \E i \in DOMAIN notified : notified[i].file = f}
       \/ /\ open_with_recovery(<<>>)
          /\ missed' = Files
    /\ pending_commit' = FALSE /\ batch' = NoBatch /\ unsaved' = FALSE
    /\ post' = NoPost
    /\ result_cache' = EmptyMap /\ inode_to_result' = EmptyMap
    /\ shown' = EmptyMap
    /\ UNCHANGED <<disk, changes, known>>

----------------------------------------------------------------------------
(* The webhook: one event at a time, tried again until it is given up.     *)

Hook == UNCHANGED <<world, watcher, indexer, links>>

HookReceives ==
    /\ post = NoPost
    /\ \/ /\ Hears("webhook")
          /\ post' = [pc |-> "send", attempts |-> 0]
       \/ HearsLagged("webhook") /\ UNCHANGED post
    /\ Hook

Delivered == post.pc = "send" /\ post' = NoPost /\ UNCHANGED bus /\ Hook

\* A mutant: the last attempt starts the count anew.
AfterFailureAnew(p) == [p EXCEPT !.attempts = IF @ >= Retries THEN 0 ELSE @ + 1]
AfterFailure(p) == IF p.attempts >= Retries THEN NoPost ELSE [p EXCEPT !.attempts = @ + 1]

DeliveryFails ==
    /\ post.pc = "send"
    /\ post' = AfterFailure(post)
    /\ UNCHANGED bus /\ Hook

----------------------------------------------------------------------------
(* .search: a directory for each query, a link for each hit.               *)

\* A mutant: the cache is passed by.
execute_query_anew(q) == search(q)
execute_query(q) == IF q \in DOMAIN result_cache THEN result_cache[q] ELSE search(q)

Executes(q) ==
    /\ result_cache' = Insert(result_cache, q, execute_query(q))
    /\ UNCHANGED <<world, watcher, bus, indexer, post>>

\* The kernel asks for some hits in a row.  The links of all queries are
\* numbered alike: the last listing has them.
ReaddirQuery(q, first, last) ==
    /\ Executes(q)
    /\ LET hits == execute_query(q)
           listed == DOMAIN hits \cap first..last
       IN  /\ inode_to_result' = Over([i \in listed |-> [query |-> q, hit |-> i]], inode_to_result)
           /\ shown' = Over(shown, [l \in {q} \X listed |-> hits[l[2]]])

\* What readlink answers; a link that has expired is answered ENOENT.
linked(i) ==
    LET to == inode_to_result[i]
        hits == execute_query(to.query)
    IN  IF to.hit \in DOMAIN hits THEN hits[to.hit] ELSE "ENOENT"

Readlink(i) ==
    /\ i \in DOMAIN inode_to_result
    /\ Executes(inode_to_result[i].query)
    /\ UNCHANGED <<inode_to_result, shown>>

\* Entries live for 300 seconds; what was shown of the query is forgotten.
ResultsExpire(q) ==
    /\ q \in DOMAIN result_cache
    /\ result_cache' = Remove(result_cache, {q})
    /\ shown' = Remove(shown, {q} \X (1..Limit))
    /\ UNCHANGED <<world, watcher, bus, indexer, post, inode_to_result>>

LinkExpires(i) ==
    /\ i \in DOMAIN inode_to_result
    /\ inode_to_result' = Remove(inode_to_result, {i})
    /\ UNCHANGED <<world, watcher, bus, indexer, post, result_cache, shown>>

----------------------------------------------------------------------------
Next ==
    \/ \E f \in Files : WriteFile(f) \/ RemoveFile(f) \/ Learn(f)
    \/ HandleNotifyEvent \/ \E f \in Files : DebounceOver(f)
    \/ HandleEventDone \/ HandleEventFails \/ IndexerLags
    \/ CommitTick \/ Stop \/ Crash
    \/ \E files \in Batches : BatchBegin(files)
    \/ \E f \in Files : BatchIndex(f)
    \/ BatchCommit \/ BatchBreaksOff
    \/ HookReceives \/ Delivered \/ DeliveryFails
    \/ \E q \in Queries : ResultsExpire(q) \/ \E first, last \in 1..Limit : ReaddirQuery(q, first, last)
    \/ \E i \in 1..Limit : Readlink(i) \/ LinkExpires(i)

Spec == Init /\ [][Next]_vars

\* The tasks run, timers fire, and a request of the webhook is cut off.
FairSpec ==
    /\ Spec
    /\ WF_vars(HandleNotifyEvent)
    /\ WF_vars(HandleEventDone \/ HandleEventFails \/ IndexerLags)
    /\ WF_vars(CommitTick)
    /\ WF_vars(HookReceives)
    /\ WF_vars(Delivered \/ DeliveryFails)

----------------------------------------------------------------------------
(* Properties.                                                             *)

\* Nothing of f is on its way to the index.
Settled(f) == ~Awaits(f) /\ \A i \in DOMAIN notified : notified[i].file # f

\* Once its events are handled and committed, the index has one document of a
\* file, of the version at the origin, or none if it is gone there.  `missed`
\* names the only ways in which that fails: the file's event came in the wake of
\* another and was dropped, or was lost to lag, to a stopped indexer or to a
\* crash; indexing or committing failed; the lookup did not know the file as it
\* was when the event was handled; or a document was added beside one it had.
\* The next event that is handled as it should ends that.
IndexIsRight ==
    \A f \in Files \ missed :
      Settled(f) /\ ~pending_commit /\ ~batch.on => Holding(committed, f) = Present(f)

\* What the writer has is committed, but for the five seconds after an event and
\* the time a batch takes, so that a crash loses nothing of it; unless the last
\* commit failed, or a batch broke off in its middle: then nothing is due, and
\* what was written waits for the next event.
NothingUncommitted == ~pending_commit /\ ~batch.on /\ ~unsaved => written = committed

\* The link of a listing leads to the file it stood for there, whatever the
\* index learns in between: as long as the query's results are kept, and until
\* another query is listed, which takes the numbers of its links over.
LinksKeepTheirHit ==
    \A i \in DOMAIN inode_to_result :
      LET link == <<inode_to_result[i].query, i>>
      IN  link \in DOMAIN shown => linked(i) = shown[link]

\* Once files change no more, every event is handled, every change committed,
\* and every delivery made or given up.
ItSettles ==
    <>[](/\ notified = <<>> /\ ~pending_commit /\ post = NoPost
         /\ \A r \in DOMAIN inbox : inbox[r] = <<>>)
=============================================================================
