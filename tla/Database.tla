------------------------------ MODULE Database ------------------------------
(***************************************************************************)
(* The SQLite database (musicfs-cache/src/db.rs, schema.sql): the part of  *)
(* the files table that places a file in the virtual tree and in the       *)
(* trash, and the directories table.  Each operation is one statement run  *)
(* under the connection's mutex and SQLite's own lock, so it is atomic     *)
(* also against the other processes that open the same file.               *)
(***************************************************************************)
EXTENDS Paths, Maps, FiniteSets

CONSTANTS
    Files,       \* the audio files an origin may hold
    Wide,        \* the fragments that take more bytes than characters: a
                 \*   letter with an accent
    MaxId        \* bound on row ids

ASSUME DatabaseAssumption == MaxId \in Nat /\ Wide \subseteq Fragments

VARIABLES rows, directories

tables == <<rows, directories>>

\* real_path as stored: the scan at mount time writes "/a.flac", the gRPC
\* scanner "a.flac", and UNIQUE(origin_id, real_path) tells them apart.
Key(file, rooted) == [file |-> file, rooted |-> rooted]

\* original_path and trashed_at are NULL (here: the root, 0) unless trashed.
NewRow(key, path) ==
    [key |-> key, path |-> path, trashed |-> FALSE, original |-> Root, trashed_at |-> 0]

HasRow(key) == \E i \in DOMAIN rows : rows[i].key = key
RowId(key) == CHOOSE i \in DOMAIN rows : rows[i].key = key

\* get_file_by_real_path, and the caller's fallback when there is no row.
StoredPath(key, derived) == IF HasRow(key) THEN rows[RowId(key)].path ELSE derived

\* INTEGER PRIMARY KEY without AUTOINCREMENT: one above the highest id in
\* the table, so the ids of purged rows come back.
NextId ==
    CHOOSE i \in 1..MaxId + 1 :
      /\ \A j \in DOMAIN rows : j < i
      /\ i = 1 \/ i - 1 \in DOMAIN rows

\* INSERT ... ON CONFLICT(origin_id, real_path) DO UPDATE: the trash columns
\* of an existing row stay.
Upsert(key, path) ==
    /\ HasRow(key) \/ NextId <= MaxId
    /\ rows' = IF HasRow(key) THEN [rows EXCEPT ![RowId(key)].path = path]
               ELSE Insert(rows, NextId, NewRow(key, path))

\* last_insert_rowid() of the connection: an update does not move it, and it
\* is 0 until the first insert.
LastRowId(key, last) == IF HasRow(key) THEN last ELSE NextId

\* The id upsert_file_with_layout returns, given last_insert_rowid() after
\* the statement: the row is only looked up while no insert was ever made.
UpsertedId(key, last) ==
    IF LastRowId(key, last) = 0 THEN RowId(key) ELSE LastRowId(key, last)

\* A mutant: a row in the trash keeps its path.
UpdateVirtualPathUntrashed(id, path) ==
    rows' = IF id \in DOMAIN rows /\ ~rows[id].trashed THEN [rows EXCEPT ![id].path = path]
            ELSE rows

UpdateVirtualPath(id, path) ==
    rows' = IF id \in DOMAIN rows THEN [rows EXCEPT ![id].path = path] ELSE rows

MarkTrashed(id, original, now) ==
    rows' = IF id \in DOMAIN rows
            THEN [rows EXCEPT ![id].trashed = TRUE,
                              ![id].original = original,
                              ![id].trashed_at = now]
            ELSE rows

UnmarkTrashed(id) ==
    rows' = IF id \in DOMAIN rows
            THEN [rows EXCEPT ![id].trashed = FALSE,
                              ![id].original = Root,
                              ![id].trashed_at = 0]
            ELSE rows

\* LIKE 'old/%': strictly below old.  (The wildcards % and _ in a name, and
\* letters of either case, match more; names here contain none.)
BelowPath(p, old) == p # old /\ Under(p, old)
Rest(p, old) == SubSeq(p, Len(old) + 1, Len(p))

\* The characters of a path by component and place (a fragment counts as one;
\* it matters only where some are wide), and how many of them, and of slashes,
\* come before component i.
Chars(p) == UNION {{i} \X (1..Len(p[i])) : i \in DOMAIN p}
Before(p, i) == Cardinality({c \in Chars(p) : c[1] < i}) + i - 1

\* The component of p in which, or just before which, its first n characters
\* end: none if p is no longer than that.
CutIn(p, n) == {i \in DOMAIN p : Before(p, i) - 1 <= n /\ n < Before(p, i) + Len(p[i])}

\* The path p without its first n characters.  A slash that is left at its
\* start doubles the one before it, and paths do not tell these apart.
Cut(p, n) ==
    IF CutIn(p, n) = {} THEN Root
    ELSE LET i == CHOOSE j \in CutIn(p, n) : TRUE
             gone == IF Before(p, i) < n THEN n - Before(p, i) ELSE 0
         IN  <<SubSeq(p[i], gone + 1, Len(p[i]))>> \o SubSeq(p, i + 1, Len(p))

\* new || substr(path, length of old + 1): the length is counted in bytes and
\* substr counts characters, so what is below a directory with wide characters
\* in its path loses a character at its start for each of them.
Excess(old) == Cardinality({c \in Chars(old) : old[c[1]][c[2]] \in Wide})
Rebased(p, old, new) ==
    IF ~BelowPath(p, old) THEN p
    ELSE IF Excess(old) = 0 THEN new \o Rest(p, old)
    ELSE new \o Cut(Rest(p, old), Excess(old))

RenameRows(old, new) ==
    rows' = [i \in DOMAIN rows |->
                [rows[i] EXCEPT !.path = Rebased(rows[i].path, old, new)]]

\* A mutant: the directory is not recorded.
InsertDirectoryForgotten(p) == UNCHANGED directories

InsertDirectory(p) == directories' = directories \cup {p}

DeleteDirectory(p) == directories' = directories \ {p}

\* The path column is unique: when a renamed path is taken, or two become one,
\* the whole statement fails and changes nothing.
RenameDirectories(old, new) ==
    LET moved == {p \in directories : BelowPath(p, old)}
        targets == {Rebased(p, old, new) : p \in moved}
        clash == \/ targets \cap (directories \ moved) # {}
                 \/ \E p, q \in moved : p # q /\ Rebased(p, old, new) = Rebased(q, old, new)
    IN  directories' = IF clash THEN directories ELSE (directories \ moved) \cup targets

Trashed == {i \in DOMAIN rows : rows[i].trashed}

\* list_trashed with the filter since = age keeps trashed_at >= now - age.
TrashedSince(now, age) == {i \in Trashed : rows[i].trashed_at >= now - age}

\* DELETE FROM files WHERE id = ?1, no matter what the row is by now.
DeleteRow(id) == rows' = Remove(rows, {id})
=============================================================================
