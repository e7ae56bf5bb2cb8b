----------------------------- MODULE TagService -----------------------------
(***************************************************************************)
(* MetadataService (musicfs-grpc/src/metadata.rs) and its callers: the     *)
(* command line (musicfs-cli/src/metadata.rs), which looks a path up and   *)
(* then edits the id it got, the orchestrator, which edits ids and sends   *)
(* batches, and a background task that works through a batch or an import  *)
(* and reports each item to a client that may leave.  Every call of the    *)
(* database is a step of its own; between them come the other callers and  *)
(* the scan that writes a file's own tags to its row.                      *)
(*                                                                         *)
(* Files keep their ids and places here; Library is about those.           *)
(***************************************************************************)
EXTENDS Tags, Integers, FiniteSets

CONSTANTS
    FileIds,
    Known,          \* the files with a row at first
    FileTags,       \* of each file: raw tags, decoder parameters, their value
    Users,          \* callers that make one edit each
    Edits,          \* the edits: what kind, and the tags asked for
    Batches,        \* sequences of items: the id, and the request or NoRequest
    Imports,        \* sequences of entries: the path, and its tags
    NoRequest,
    ChannelSize,    \* 32 in the code
    DbErrors,       \* database calls may fail
    MaxScans

\* No channel is empty-sized; a year is a number.
ASSUME TagAssumption ==
    /\ ChannelSize \in Nat \ {0}
    /\ \A edit \in Edits : edit.kind \in {"flags", "json", "rpc", "clear"}
    /\ \A items \in Imports : \A k \in 1..Len(items) :
         "year" \in DOMAIN items[k].entry => items[k].entry["year"] # Garbled

VARIABLES
    row_tags,    \* the rows: id to tags
    user,        \* where each user's edit is
    task,        \* the background task
    channel, client,
    got,         \* history: the reports the client has received
    did,         \* history: how far each item went, "all", "part" or "none"
    due,         \* history: what edits asked for and nothing has undone since
    scans

tagVars == <<row_tags, user, task, channel, client, got, did, due, scans>>

HasRowFor(id) == id \in DOMAIN row_tags

NoTask == [pc |-> "none"]

TagInit ==
    /\ row_tags = [id \in Known |-> Upserted(EmptyMap, Parsed(FileTags[id]))]
    /\ user = [u \in Users |-> [pc |-> "idle"]]
    /\ task = NoTask /\ channel = <<>> /\ client = "none"
    /\ got = <<>> /\ did = <<>> /\ due = {} /\ scans = 0

----------------------------------------------------------------------------
(* Calls of the database; each holds the connection's lock.                *)

Overwritten(id, fields) == {e \in due : e.id = id /\ e.field \in fields}
Asked(id, asked) == {[id |-> id, field |-> f, value |-> asked[f]] : f \in DOMAIN asked}

\* Nothing to set is a success whatever the id; else the row must be there.
\* asked is what the caller meant by meta.
UpdateMetadata(id, meta, asked) ==
    \/ /\ Carried(meta, Columns) = EmptyMap
       /\ due' = IF HasRowFor(id) THEN due \cup Asked(id, asked) ELSE due
       /\ UNCHANGED row_tags
    \/ /\ Carried(meta, Columns) # EmptyMap /\ HasRowFor(id)
       /\ row_tags' = [row_tags EXCEPT ![id] = Updated(@, meta)]
       /\ due' = (due \ Overwritten(id, DOMAIN asked)) \cup Asked(id, asked)

UpdateFails(id, meta) ==
    /\ Carried(meta, Columns) # EmptyMap
    /\ DbErrors \/ ~HasRowFor(id)
    /\ UNCHANGED <<row_tags, due>>

UpdateEnrichment(id, given) ==
    /\ HasRowFor(id)
    /\ row_tags' = [row_tags EXCEPT ![id] = Enriched(@, given)]
    /\ due' = (due \ Overwritten(id, DOMAIN given)) \cup Asked(id, given)

EnrichmentFails(id) ==
    /\ DbErrors \/ ~HasRowFor(id)
    /\ UNCHANGED <<row_tags, due>>

HasEnrichment(request) == DOMAIN request \cap Enrichment # {}
Plain(asked) == Restrict(asked, DOMAIN asked \ Enrichment)

----------------------------------------------------------------------------
(* One edit.                                                               *)

NextOf(u, where) == user' = [user EXCEPT ![u] = where]
Untouched == UNCHANGED <<task, channel, client, got, did, scans>>

\* The request an edit makes; the orchestrator has no form to go through.
RequestOf(edit) ==
    CASE edit.kind = "flags" -> SetFlags(edit.asked)
      [] edit.kind = "json" -> SetJson(edit.asked)
      [] edit.kind = "rpc" -> edit.asked

\* GetMetadata answers with the id, or that there is no such file.
LookUp(u, id, edit) ==
    /\ user[u].pc = "idle" /\ edit.kind # "rpc"
    /\ IF HasRowFor(id) THEN NextOf(u, [pc |-> "edit", id |-> id, edit |-> edit])
       ELSE NextOf(u, [pc |-> "refused"])
    /\ UNCHANGED <<row_tags, due>> /\ Untouched

Push(u, id, edit) ==
    /\ user[u].pc = "idle" /\ edit.kind = "rpc"
    /\ NextOf(u, [pc |-> "edit", id |-> id, edit |-> edit])
    /\ UNCHANGED <<row_tags, due>> /\ Untouched

Update(u) ==
    /\ user[u].pc = "edit" /\ user[u].edit.kind # "clear"
    /\ LET request == RequestOf(user[u].edit)
           meta == RequestMeta(request)
       IN  \/ /\ UpdateMetadata(user[u].id, meta, Plain(user[u].edit.asked))
              /\ IF HasEnrichment(request) THEN NextOf(u, [user[u] EXCEPT !.pc = "enrich"])
                 ELSE NextOf(u, [pc |-> "done"])
           \/ UpdateFails(user[u].id, meta) /\ NextOf(u, [pc |-> "refused"])
    /\ Untouched

\* The tags stay set when this fails.
Enrich(u) ==
    /\ user[u].pc = "enrich"
    /\ \/ /\ UpdateEnrichment(user[u].id, Carried(user[u].edit.asked, Enrichment))
          /\ NextOf(u, [pc |-> "done"])
       \/ EnrichmentFails(user[u].id) /\ NextOf(u, [pc |-> "refused"])
    /\ Untouched

ClearOverlay(u) ==
    /\ user[u].pc = "edit" /\ user[u].edit.kind = "clear"
    /\ \/ /\ HasRowFor(user[u].id)
          /\ row_tags' = [row_tags EXCEPT ![user[u].id] = EmptyMap]
          /\ due' = {e \in due : e.id # user[u].id}
          /\ NextOf(u, [pc |-> "done"])
       \/ /\ DbErrors /\ NextOf(u, [pc |-> "refused"])
          /\ UNCHANGED <<row_tags, due>>
    /\ Untouched

\* A scan writes what the file's own tags are, edits or not.
ScanUpserts(id) ==
    /\ scans < MaxScans /\ scans' = scans + 1
    /\ row_tags' = Insert(row_tags, id,
                          Upserted(IF HasRowFor(id) THEN row_tags[id] ELSE EmptyMap,
                                   Parsed(FileTags[id])))
    /\ due' = {e \in due : e.id = id => e.field \in Enrichment}
    /\ UNCHANGED <<user, task, channel, client, got, did>>

----------------------------------------------------------------------------
(* A batch or an import, item by item.                                     *)

Item == task.items[task.k]
HasItem == task.k <= Len(task.items)
Quiet == UNCHANGED <<user, channel, client, got, scans>>

Begin(kind, items) ==
    /\ task = NoTask
    /\ task' = [pc |-> "item", kind |-> kind, items |-> items, k |-> 1, imported |-> 0,
                error |-> FALSE]
    /\ client' = "here"
    /\ UNCHANGED <<row_tags, user, channel, got, did, due, scans>>

\* An import that cannot be read, has no known format or does not parse
\* reports that and no item.
BeginsBadly ==
    /\ task = NoTask
    /\ task' = [pc |-> "done"]
    /\ client' = "here"
    /\ channel' = <<[kind |-> "import", k |-> 0, total |-> 0, imported |-> 0, error |-> TRUE]>>
    /\ UNCHANGED <<row_tags, user, got, did, due, scans>>

\* What is known of the item is reported: how far it went, and as an error
\* unless it went all the way.
\* A mutant: an import counts the entries it has come to.
ItemEndsCounted(how) ==
    /\ did' = Append(did, how)
    /\ task' = [task EXCEPT !.pc = "send", !.error = (how # "all"), !.imported = @ + 1]

ItemEnds(how) ==
    /\ did' = Append(did, how)
    /\ task' = [task EXCEPT !.pc = "send", !.error = (how # "all"),
                  !.imported = @ + (IF task.kind = "import" /\ how = "all" THEN 1 ELSE 0)]

BatchItem ==
    /\ task.pc = "item" /\ task.kind = "batch" /\ HasItem
    /\ IF Item.request = NoRequest THEN ItemEnds("none") /\ UNCHANGED <<row_tags, due>>
       ELSE LET meta == RequestMeta(Item.request)
            IN  \/ /\ UpdateMetadata(Item.id, meta, Plain(Item.request))
                   /\ IF HasEnrichment(Item.request)
                      THEN task' = [task EXCEPT !.pc = "enrich"] /\ UNCHANGED did
                      ELSE ItemEnds("all")
                \/ UpdateFails(Item.id, meta) /\ ItemEnds("none")
    /\ Quiet

BatchEnrich ==
    /\ task.pc = "enrich"
    /\ \/ UpdateEnrichment(Item.id, Carried(Item.request, Enrichment)) /\ ItemEnds("all")
       \/ EnrichmentFails(Item.id) /\ ItemEnds("part")
    /\ Quiet

ImportFinds ==
    /\ task.pc = "item" /\ task.kind = "import" /\ HasItem
    /\ \/ HasRowFor(Item.id) /\ task' = [task EXCEPT !.pc = "update"] /\ UNCHANGED did
       \/ (DbErrors \/ ~HasRowFor(Item.id)) /\ ItemEnds("none")
    /\ UNCHANGED <<row_tags, due>> /\ Quiet

ImportUpdates ==
    /\ task.pc = "update"
    /\ LET meta == ImportMeta(Item.entry)
       IN  \/ UpdateMetadata(Item.id, meta, Item.entry) /\ ItemEnds("all")
           \/ UpdateFails(Item.id, meta) /\ ItemEnds("none")
    /\ Quiet

\* A client that has left ends the task; a full channel keeps it waiting.
Report == [kind |-> task.kind, k |-> task.k, total |-> Len(task.items),
           imported |-> task.imported, error |-> task.error]

\* A mutant: nobody looks whether the report could be sent.
NeverFails == FALSE
SendFails == client = "left"
Room == Len(channel) < ChannelSize

Send ==
    /\ task.pc = "send"
    /\ \/ /\ SendFails
          /\ task' = [pc |-> "done"]
          /\ UNCHANGED channel
       \/ /\ ~SendFails /\ Room
          /\ channel' = Append(channel, Report)
          /\ task' = [task EXCEPT !.pc = "item", !.k = @ + 1]
    /\ UNCHANGED <<row_tags, user, client, got, did, due, scans>>

AllItemsDone ==
    /\ task.pc = "item" /\ ~HasItem
    /\ task' = [pc |-> "done"]
    /\ UNCHANGED <<row_tags, user, channel, client, got, did, due, scans>>

Receive ==
    /\ client = "here" /\ channel # <<>>
    /\ got' = Append(got, Head(channel))
    /\ channel' = Tail(channel)
    /\ UNCHANGED <<row_tags, user, task, client, did, due, scans>>

Leave ==
    /\ client = "here"
    /\ client' = "left" /\ channel' = <<>>
    /\ UNCHANGED <<row_tags, user, task, got, did, due, scans>>

----------------------------------------------------------------------------

TagNext ==
    \/ \E u \in Users :
          \/ \E id \in FileIds, edit \in Edits : LookUp(u, id, edit) \/ Push(u, id, edit)
          \/ Update(u) \/ Enrich(u) \/ ClearOverlay(u)
    \/ \E id \in DOMAIN FileTags : ScanUpserts(id)
    \/ \E items \in Batches : Begin("batch", items)
    \/ \E items \in Imports : Begin("import", items)
    \/ BeginsBadly
    \/ BatchItem \/ BatchEnrich \/ ImportFinds \/ ImportUpdates
    \/ Send \/ AllItemsDone \/ Receive \/ Leave

TagSpec == TagInit /\ [][TagNext]_tagVars

----------------------------------------------------------------------------
(* Properties.                                                             *)

\* What an edit of tags asked for and got, by whatever way it came, is in the
\* row, and "metadata get" prints it, until a later edit of the same field, a
\* clear or a scan: edits of different tags never undo each other, nor does
\* an edit of the label, the album's type or the cover, which are no tags and
\* which "metadata get" does not print.
EditsShow ==
    \A e \in due :
        e.field \notin Enrichment =>
          HasRowFor(e.id) /\ FieldValue(Shown(row_tags[e.id]), e.field) = e.value

\* The same of those three: "Overwrite only provided fields", the design says
\* of edits.  The code does not keep it, as update_enrichment sets all three
\* (Enriched); no configuration checks it, and README.md says how to see it
\* fail.
EnrichmentStays ==
    \A e \in due :
        e.field \in Enrichment =>
          HasRowFor(e.id) /\ FieldValue(row_tags[e.id], e.field) = e.value

\* The reports of a batch or an import come in order and are true of the
\* items: no error means that all of the item was applied, an error that
\* some of it was not, and "imported" counts the items applied so far.
ReportsAreTrue ==
    \A k \in 1..Len(got) :
        \/ got[k].total = 0 /\ did = <<>>
        \/ /\ got[k].k = k
           /\ got[k].error <=> (did[k] # "all")
           /\ got[k].kind = "import" =>
                  got[k].imported = Cardinality({j \in 1..k : did[j] = "all"})

\* A client that stops reading, or leaves, stops the work: at most a full
\* channel of items and one more are applied that it has not heard of.
WorkFollowsTheClient == Len(did) <= Len(got) + ChannelSize + 1

\* A player that reads the header made from a row finds the row's tags in
\* it, but for a year next to a date, and in ID3 a total without a number.
HeaderSaysTheRow ==
    \A id \in DOMAIN row_tags :
        LET tags == Carried(MetadataRow(row_tags[id]), InHeader)
            vorbis == FromVorbisComments(VorbisComments(tags))
            id3 == FromId3Tag(Id3Tag(tags))
        IN  \A f \in DOMAIN tags :
               /\ (f = "year" /\ "date" \in DOMAIN tags) \/ FieldValue(vorbis, f) = tags[f]
               /\ \/ f = "year" /\ "date" \in DOMAIN tags
                  \/ f = "track_total" /\ "track" \notin DOMAIN tags
                  \/ f = "disc_total" /\ "disc" \notin DOMAIN tags
                  \/ FieldValue(id3, f) = tags[f]
=============================================================================
