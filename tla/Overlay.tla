------------------------------ MODULE Overlay ------------------------------
(***************************************************************************)
(* Metadata overlay: OverlayReader (musicfs-cache/src/overlay.rs) with the *)
(* handler registry, the database row it reads, the gRPC calls that edit   *)
(* the row, and the mount that writes it.  One file, whose bytes are       *)
(* tokens.  FileReader is seen from above: it holds on to the version of   *)
(* the file it has fetched, may come back from a read with a newer one,    *)
(* and serves no more than the size of the scan (ReadPath models how).     *)
(*                                                                         *)
(* An application opens the file and reads it from the start, piece by     *)
(* piece; gRPC calls, changes of the file and remounts come in between.    *)
(***************************************************************************)
EXTENDS Integers, Sequences, FiniteSets

CONSTANTS
    Extension, \* of the file: "flac", "mp3" or another
    Versions,  \* the file at the origin over time: Seq of
               \*   [size, start, end, parses, tags]
    Edits,     \* what users set: tags, NULL for a field not given
    Pieces,    \* how much the application asks for at a time
    Estimate,  \* estimate_header_size of the handler
    Width,     \* u64: sizes are modulo Width
    Faults,    \* whether the database and FileReader may fail
    NULL

Fields == {"title", "date", "year"}
NoTags == [f \in Fields |-> NULL]

ASSUME OverlayAssumption ==
    /\ Len(Versions) > 0 /\ Width \in Nat \ {0} /\ Estimate \in Nat /\ Faults \in BOOLEAN
    /\ Pieces \subseteq Nat \ {0}
    /\ \A v \in DOMAIN Versions :
          /\ {Versions[v].size, Versions[v].start, Versions[v].end} \subseteq 0 .. Width - 1
          /\ Versions[v].end <= Versions[v].size
    /\ \A t \in Edits : DOMAIN t = Fields /\ t # NoTags

VARIABLES
    mode,      \* "up" or "down"
    origin,    \* the version of the file at the origin
    manifest,  \* the version FileReader holds, 0 before the first read
    tree_size, \* the size of the scan, in the tree and in what is fetched
    row,       \* the columns of the file: [tags, layout]
    call,      \* the read in progress
    answer,    \* what this step answered, with what was asked
    app,       \* the application
    edits,     \* history: what was set since the last clear
    forgotten  \* history: edits were overwritten, or cannot show, since

history == <<edits, forgotten>>
vars == <<mode, origin, manifest, tree_size, row, call, answer, app, history>>

NoCall == [pc |-> "none", offset |-> 0, size |-> 0, layout |-> NULL, front |-> <<>>, from |-> 0,
           n |-> 0, seen |-> {}, edits |-> NoTags, forgotten |-> FALSE]
NoAnswer == [is |-> "none"]
NoApp == [pc |-> "none"]

NoneGiven == answer' = NoAnswer

Min2(a, b) == IF a < b THEN a ELSE b
Max2(a, b) == IF a > b THEN a ELSE b

\* size bytes of s from the offset, or what there is of them.
Slice(s, offset, size) == SubSeq(s, offset + 1, Min2(offset + size, Len(s)))

\* What FileReader serves of a version, given the size of the scan.
Served(v, size) == [i \in 1 .. Min2(Versions[v].size, size) |-> <<"origin", v, i>>]

\* The version FileReader reads from.  Mutant: always the current one.
HeldNewest == origin
Held == IF manifest = 0 THEN origin ELSE manifest

----------------------------------------------------------------------------
(* The handlers and their registry.  FlacHandler is registered as "flac",  *)
(* Id3v2Handler as "id3v2" and for files ending in "mp3".                  *)

extension_map == [flac |-> "flac", mp3 |-> "id3v2"]
handlers == {extension_map[e] : e \in DOMAIN extension_map}

get_by_format(format) == IF format \in handlers THEN format ELSE NULL

\* A FLAC file has none if its block headers go beyond the first 64 kB, or
\* are not those of a FLAC file.
AnalyzeFlac(v) ==
    IF ~Versions[v].parses THEN NULL
    ELSE [start |-> Versions[v].start, end |-> Versions[v].end, format |-> "flac",
          format_data |-> v]

\* An MP3 file always has a layout, from its start where it has no tag.
AnalyzeMp3(v) ==
    [start |-> Versions[v].start, end |-> Versions[v].end, format |-> "mp3", format_data |-> 0]

Analyze(v) == CASE Extension = "flac" -> AnalyzeFlac(v)
                [] Extension = "mp3" -> AnalyzeMp3(v)
                [] OTHER -> NULL

Comment(key, value) == IF value = NULL THEN <<>> ELSE << <<key, value>> >>

\* The date is written, or the year where there is no date.
DateOf(tags) == IF tags["date"] # NULL THEN tags["date"] ELSE tags["year"]

Comments(tags) == Comment("title", tags["title"]) \o Comment("date", DateOf(tags))

\* The fixed part (STREAMINFO) of the analysed file, then the comments.
Synthesize(tags, layout) == << <<"info", layout.format_data, 0>> >> \o Comments(tags)

\* What a file looks like, given its row: Synthesize before the audio of v.
Virtual(r, v, size) ==
    IF r.layout = NULL THEN Served(v, size)
    ELSE Synthesize(r.tags, r.layout)
           \o SubSeq(Served(v, size), r.layout.start + 1,
                     Min2(r.layout.end, Len(Served(v, size))))

----------------------------------------------------------------------------
(* Mount, and what happens to the file meanwhile.                          *)

Init ==
    /\ mode = "down" /\ origin = 1 /\ manifest = 0 /\ tree_size = 0
    /\ row = [tags |-> NoTags, layout |-> NULL]
    /\ call = NoCall /\ answer = NoAnswer /\ app = NoApp
    /\ edits = NoTags /\ forgotten = FALSE

\* upsert_file_with_layout: every column becomes what the scan has found.
Upserted(v) == [tags |-> Versions[v].tags, layout |-> Analyze(v)]

Mount ==
    /\ mode = "down"
    /\ mode' = "up" /\ manifest' = 0
    /\ tree_size' = Versions[origin].size
    /\ row' = Upserted(origin)
    /\ forgotten' = (edits # NoTags)
    /\ UNCHANGED <<origin, call, app, edits>> /\ NoneGiven

\* The daemon is stopped or killed; what is in memory is gone.
Unmount ==
    /\ mode = "up"
    /\ mode' = "down" /\ manifest' = 0
    /\ call' = NoCall /\ app' = NoApp /\ NoneGiven
    /\ UNCHANGED <<origin, tree_size, row, history>>

OriginChanges ==
    /\ origin < Len(Versions)
    /\ origin' = origin + 1
    /\ UNCHANGED <<mode, manifest, tree_size, row, call, app, history>> /\ NoneGiven

----------------------------------------------------------------------------
(* MetadataService: one statement each.  A read remembers the rows there   *)
(* were while it was under way, an application whether there was one only. *)

Changed(new) ==
    /\ row' = new
    /\ call' = IF call = NoCall THEN NoCall ELSE [call EXCEPT !.seen = @ \cup {new}]
    /\ app' = IF app # NoApp THEN [app EXCEPT !.steady = FALSE, !.got = <<>>] ELSE app
    /\ UNCHANGED <<mode, origin, manifest, tree_size>> /\ NoneGiven

\* The fields that are given; batches and imports do the same file by file.
\* Mutant: all fields.
MergedAll(old, t) == t
Merged(old, t) == [f \in Fields |-> IF t[f] = NULL THEN old[f] ELSE t[f]]

UpdateMetadata(t) ==
    /\ mode = "up"
    /\ Changed([row EXCEPT !.tags = Merged(@, t)])
    /\ edits' = [f \in Fields |-> IF t[f] = NULL THEN edits[f] ELSE t[f]]
    /\ UNCHANGED forgotten

ClearOverlay ==
    /\ mode = "up"
    /\ Changed([tags |-> NoTags, layout |-> NULL])
    /\ edits' = NoTags
    /\ forgotten' = TRUE

----------------------------------------------------------------------------
(* The application, and lookup and getattr of the FUSE filesystem.         *)

\* estimate_virtual_size, and node_to_attr where it has no answer.
VirtualSize ==
    IF row.layout = NULL \/ get_by_format(row.layout.format) = NULL THEN tree_size
    ELSE (Estimate + (row.layout.end - row.layout.start)) % Width

Open(size) ==
    /\ mode = "up" /\ app = NoApp
    /\ app' = [pc |-> "open", size |-> size, offset |-> 0, got |-> <<>>, steady |-> TRUE]
    /\ UNCHANGED <<mode, origin, manifest, tree_size, row, call, history>> /\ NoneGiven

\* Within a second of lookup the kernel goes by the size that lookup gave.
Lookup == Open(tree_size)
Getattr == Open(VirtualSize)

Close ==
    /\ app # NoApp /\ call = NoCall
    /\ app' = NoApp
    /\ UNCHANGED <<mode, origin, manifest, tree_size, row, call, history>> /\ NoneGiven

Read(n) ==
    /\ app.pc = "open" /\ call = NoCall /\ app.offset < app.size
    /\ call' = [NoCall EXCEPT !.pc = "layout", !.offset = app.offset,
                              !.size = Min2(n, app.size - app.offset), !.seen = {row},
                              !.edits = edits, !.forgotten = forgotten]
    /\ UNCHANGED <<mode, origin, manifest, tree_size, row, app, history>> /\ NoneGiven

\* The application goes on after a full piece and stops after a short one; it
\* is not steady where FileReader came back with a newer version.
Answer(bytes) ==
    LET steady == app.steady /\ manifest' \in {manifest, Held} IN
    /\ call' = NoCall
    /\ answer' = [is |-> "data", bytes |-> bytes, offset |-> call.offset, size |-> call.size,
                  version |-> Held, seen |-> call.seen, edits |-> call.edits,
                  forgotten |-> call.forgotten]
    /\ app' = [app EXCEPT
                 !.offset = @ + Len(bytes),
                 !.steady = steady,
                 !.got = IF steady THEN @ \o bytes ELSE <<>>,
                 !.pc = IF Len(bytes) < call.size \/ app.offset + Len(bytes) = app.size
                        THEN "read" ELSE "open"]

Refuse(why) ==
    /\ call' = NoCall
    /\ answer' = [is |-> why]
    /\ app' = [app EXCEPT !.pc = "failed"]

----------------------------------------------------------------------------
(* OverlayReader::read.  The database is asked twice, FileReader once.     *)

AskReader(front, from, n) ==
    /\ call' = [call EXCEPT !.pc = "cas", !.front = front, !.from = from, !.n = n]
    /\ UNCHANGED app /\ NoneGiven

GetFormatLayout ==
    /\ call.pc = "layout"
    /\ IF row.layout = NULL THEN AskReader(<<>>, call.offset, call.size)
       ELSE /\ call' = [call EXCEPT !.pc = "row", !.layout = row.layout]
            /\ UNCHANGED app /\ NoneGiven
    /\ UNCHANGED <<mode, origin, manifest, tree_size, row, history>>

\* Where in the origin file the audio begins that a read asks for, and how
\* much of it.  Mutants: from the offset in the virtual file, or its header.
AudioOffsetVirtual(layout, header_len, offset) == layout.start + offset
AudioOffset(layout, header_len, offset) == layout.start + (Max2(header_len, offset) - header_len)

AudioNeeded(header_len, offset, virtual_end) == virtual_end - Max2(header_len, offset)

Splice(header, layout) ==
    LET header_len == Len(header)
        virtual_size == (header_len + (layout.end - layout.start)) % Width
        virtual_end == Min2(call.offset + call.size, virtual_size)
        front == SubSeq(header, call.offset + 1, Min2(virtual_end, header_len))
    IN  IF call.offset >= virtual_size THEN Answer(<<>>)
        ELSE IF virtual_end > header_len
        THEN AskReader(front, AudioOffset(layout, header_len, call.offset),
                       AudioNeeded(header_len, call.offset, virtual_end))
        ELSE Answer(front)

GetFileMetadataRow ==
    /\ call.pc = "row"
    /\ UNCHANGED <<mode, origin, manifest, tree_size, row, history>>
    /\ IF get_by_format(call.layout.format) = NULL THEN Refuse("no_handler")
       ELSE Splice(Synthesize(row.tags, call.layout), call.layout)

\* FileReader::read of the version it holds, which it fetches first.  Where it
\* misses a chunk it fetches the file anew and goes on, with the chunks of the
\* version it began with; the next read is of the new one.
CasRead ==
    /\ call.pc = "cas"
    /\ manifest' \in {Held, origin}
    /\ Answer(call.front \o Slice(Served(Held, tree_size), call.from, call.n))
    /\ UNCHANGED <<mode, origin, tree_size, row, history>>

\* The database or FileReader fails; the latter may have fetched the file
\* anew before it does.
ReadFails ==
    /\ Faults /\ call # NoCall
    /\ Refuse("failed")
    /\ manifest' \in {manifest} \cup (IF call.pc = "cas" THEN {origin} ELSE {})
    /\ UNCHANGED <<mode, origin, tree_size, row, history>>

Next ==
    \/ Mount \/ Unmount \/ OriginChanges
    \/ \E t \in Edits : UpdateMetadata(t)
    \/ ClearOverlay
    \/ Lookup \/ Getattr \/ Close
    \/ \E n \in Pieces : Read(n)
    \/ GetFormatLayout \/ GetFileMetadataRow \/ CasRead \/ ReadFails

Spec == Init /\ [][Next]_vars

----------------------------------------------------------------------------
(* Properties.                                                             *)

Mixed(r, l) == [tags |-> r.tags, layout |-> l.layout]

\* The rows there were while a read was under way.  Only a clear changes the
\* layout: where one fell into the read, also the tags of one with the layout
\* of another.
Rows(seen) == {Mixed(r, l) : r \in seen, l \in seen}

\* Every answer is a piece of the virtual file, whole: the header of the tags,
\* then the audio of one version from where the layout says, under one row that
\* held while the read was under way, or, in a read that a clear fell into, of
\* the layout before it and the tags after it.  OverlayReader::read asks for
\* layout and tags one after the other and splices three regions.
ReadsAreWhole ==
    answer.is = "data" =>
        \E r \in Rows(answer.seen) :
            answer.bytes = Slice(Virtual(r, answer.version, tree_size), answer.offset, answer.size)

\* The same without the exception: every answer is of one row.  Not so where a
\* clear comes between the two questions (see README.md); no configuration
\* checks it.
ReadsAreOfOneRow ==
    answer.is = "data" =>
        \E r \in answer.seen :
            answer.bytes = Slice(Virtual(r, answer.version, tree_size), answer.offset, answer.size)

\* A file that is read from the start to the end is the virtual file, up to the
\* size that lookup or getattr told, although the file changes at the origin and
\* the header is made anew for each piece: if it was not edited in between and
\* no piece made FileReader fetch a newer version (the pieces after that are of
\* the newer version, and nothing tells the application).
FileReadIsWhole ==
    app.pc = "read" /\ app.steady => app.got = Slice(Virtual(row, Held, tree_size), 0, app.size)

\* An answer holds what users have set before it began.
ShowsEdit(f) == \E i \in DOMAIN answer.bytes :
                    answer.bytes[i] = <<IF f = "year" THEN "date" ELSE f, answer.edits[f]>>

\* The answer holds the whole header, and nothing was edited meanwhile.
HasHeader == answer.is = "data" /\ answer.offset = 0 /\ answer.size > Cardinality(Fields)
               /\ Cardinality(answer.seen) = 1

\* "Metadata changes reflected on next read" (metadata-overlay.md, G7).  Not
\* for ever (see README.md); no configuration checks it.
EditsShow ==
    HasHeader => \A f \in Fields : answer.edits[f] # NULL => ShowsEdit(f)

\* What users set shows in a file that has a layout, till the next clear or
\* mount, but for a year where the file has a date (update_metadata sets what it
\* is given and keeps the rest).
EditsShowTillForgotten ==
    HasHeader /\ ~answer.forgotten =>
        \A r \in answer.seen : r.layout # NULL =>
            \A f \in Fields :
                answer.edits[f] # NULL /\ ~(f = "year" /\ r.tags["date"] # NULL) => ShowsEdit(f)

\* "The system SHALL support MP3 ID3v2 tags" (requirements.md, FR-5.5): no
\* read is refused for want of a handler.  Not so (see README.md); no
\* configuration checks it.
NoneRefused == answer.is # "no_handler"
=============================================================================
