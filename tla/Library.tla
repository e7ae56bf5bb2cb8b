------------------------------ MODULE Library ------------------------------
(***************************************************************************)
(* The mounted library: the daemon (musicfs-cli/src/main.rs) rebuilding    *)
(* the tree from the origin and the database, the FUSE handlers that       *)
(* change both (musicfs-fuse/src/filesystem.rs), the gRPC scanner          *)
(* (musicfs-grpc/src/scanner.rs), the restore on SIGHUP, and the CLI       *)
(* processes that open the same database.                                  *)
(*                                                                         *)
(* The tree lives in memory, the database on disk; what a handler does to  *)
(* the two is a step each wherever another thread, another process or a    *)
(* crash can come in between.  A handler whose database call fails logs a  *)
(* warning and goes on.  FUSE requests are served one at a time.           *)
(***************************************************************************)
EXTENDS Database

CONSTANTS
    FilePaths,            \* the paths of requests about files
    DirPaths,             \* the paths of mkdir and rmdir
    MovePaths,            \* the paths between which directories are renamed
    TrashName,
    Derived,              \* the path made from a file's tags: Files -> paths
    Present,              \* the files at the origin at first
    Events,               \* what else may happen, see below
    RestoreFileKnown,     \* MUSICFS_RESTORE_FILE is set in the daemon
    Ages,                 \* the durations given to "trash empty --older-than"
    MaxTime               \* bound on the clock

ASSUME LibraryAssumption ==
    /\ FilePaths \subseteq PathSet \ {Root}
    /\ DirPaths \cup MovePaths \subseteq PathSet \ {Root}
    /\ TrashName \in Names
    /\ Derived \in [Files -> PathSet \ {Root}]
    /\ Present \subseteq Files
    /\ Events \subseteq {"crash", "crash_in_scan", "db_error", "new_file", "rescan", "restore",
                         "purge", "second_daemon"}
    /\ RestoreFileKnown \in BOOLEAN

VARIABLES
    mode,        \* the daemon: "down", "starting" (scanning), "up"
    ns,          \* the tree: what each path is
    served,      \* ContentFetcher's file_map: id to file
    last_rowid,  \* last_insert_rowid() of the daemon's connection
    todo,        \* files the scan has still to come to
    fuse,        \* the FUSE request being served
    scan,        \* the gRPC scan
    restore,     \* the loop of process_pending_restores
    second,      \* a second daemon, scanning before it asks for the lock
    purge,       \* "trash empty": the ids it has listed and not yet deleted
    pending,     \* pending_restore.txt: the original paths in it
    sighup,      \* a SIGHUP is waiting
    origin,      \* the files at the origin
    now,         \* the clock
    made         \* history: the directories users have made and not removed
                 \*   or renamed since, by the replies they got

memory == <<mode, ns, served, last_rowid, todo, fuse, scan, restore, sighup>>
vars == <<memory, tables, second, purge, pending, origin, now, made>>

FileIds == 1..MaxId

TrashPath == <<TrashName>>
InTrash(p) == StartsWith(p, TrashPath)    \* is_trash_path

\* What the tree does to paths; VirtualTree is shown to implement it.
N == INSTANCE Namespace

EmptyTree == [p \in {Root} |-> N!Dir]

\* A database call of the daemon: done, or failed and warned about.
Try(Call) == Call \/ ("db_error" \in Events /\ UNCHANGED tables)

Idle == [pc |-> "idle"]

----------------------------------------------------------------------------
(* Mounting.  Files come in the order of read_dir, that is any order.      *)

Init ==
    /\ mode = "down" /\ ns = EmptyTree /\ served = EmptyMap
    /\ last_rowid = 0 /\ todo = {}
    /\ fuse = Idle /\ scan = Idle /\ restore = Idle /\ second = Idle
    /\ purge = Idle /\ pending = {} /\ sighup = FALSE
    /\ rows = EmptyMap /\ directories = {}
    /\ origin = Present /\ now = 1 /\ made = {}

Start ==
    /\ mode = "down"
    /\ mode' = "starting"
    /\ todo' = origin
    /\ UNCHANGED <<ns, served, last_rowid, fuse, scan, restore, sighup, tables,
                   second, purge, pending, origin, now, made>>

\* The node and the fetcher get the id the upsert returned, right or wrong;
\* if the upsert failed, a running count.
Place(file, id, path) ==
    /\ N!AddFile(path, id)
    /\ served' = Insert(served, id, file)

\* The look-up and the upsert are two statements, but while the daemon starts
\* only another process could come between them; SecondUpsert is that case.
\* The upsert overwrites the columns of the tags and of the layout as well,
\* which TagService and Overlay model; here a row is where its file is.
ScanFile(file) ==
    LET key == Key(file, TRUE)
        path == StoredPath(key, Derived[file])
        count == Cardinality(origin \ todo) + 1
    IN  /\ mode = "starting" /\ file \in todo
        /\ todo' = todo \ {file}
        /\ \/ /\ Upsert(key, path)
              /\ last_rowid' = LastRowId(key, last_rowid)
              /\ Place(file, UpsertedId(key, last_rowid), path)
           \/ /\ "db_error" \in Events
              /\ Place(file, count, path)
              /\ UNCHANGED <<rows, last_rowid>>
        /\ UNCHANGED <<mode, fuse, scan, restore, sighup, directories, second, purge,
                       pending, origin, now, made>>

\* list_directories is in the order of paths, so parents come first: a
\* directory is made if every ancestor is one already or was made as well.
Restorable ==
    {d \in directories \ DOMAIN ns :
        \A k \in 1..Len(d) - 1 : \/ N!IsDirectory(Upto(d, k))
                                 \/ Upto(d, k) \in directories \ DOMAIN ns}

FinishStart ==
    /\ mode = "starting" /\ todo = {}
    /\ mode' = "up"
    /\ ns' = [p \in DOMAIN ns \cup Restorable |-> IF N!Exists(p) THEN ns[p] ELSE N!Dir]
    /\ UNCHANGED <<served, last_rowid, todo, fuse, scan, restore, sighup, tables,
                   second, purge, pending, origin, now, made>>

\* The process is gone, and what it held in memory.
GoDown ==
    /\ mode' = "down" /\ ns' = EmptyTree /\ served' = EmptyMap
    /\ last_rowid' = 0 /\ todo' = {}
    /\ fuse' = Idle /\ scan' = Idle /\ restore' = Idle /\ sighup' = FALSE
    /\ UNCHANGED <<tables, second, purge, pending, origin, now, made>>

Unmount == mode = "up" /\ fuse = Idle /\ scan = Idle /\ restore = Idle /\ GoDown

Crash ==
    /\ \/ mode = "up" /\ "crash" \in Events
       \/ mode = "starting" /\ "crash_in_scan" \in Events
    /\ GoDown

----------------------------------------------------------------------------
(* The tree's write lock is held by a rename across its database calls.    *)

TreeFree == fuse.pc \notin {"unmark", "directories"}

Request == mode = "up" /\ fuse = Idle

FuseOnly == UNCHANGED <<mode, served, last_rowid, todo, scan, restore, sighup,
                        second, purge, pending, origin, now>>

\* insert_directory moves last_insert_rowid() too.  That is left out, as only
\* an upsert that finds its row reads it, and those are made while starting.
Mkdir(p) ==
    /\ Request
    /\ N!MakeDir(p)
    /\ Try(InsertDirectory(p) /\ UNCHANGED rows)
    /\ made' = made \cup {p}
    /\ FuseOnly /\ UNCHANGED fuse

Rmdir(p) ==
    /\ Request
    /\ ~InTrash(p)
    /\ N!DeleteDir(p)
    /\ fuse' = [pc |-> "rmdir", old |-> p]
    /\ FuseOnly /\ UNCHANGED <<made, tables>>

RmdirDb ==
    /\ fuse.pc = "rmdir"
    /\ Try(DeleteDirectory(fuse.old) /\ UNCHANGED rows)
    /\ made' = made \ {fuse.old}
    /\ fuse' = Idle
    /\ FuseOnly /\ UNCHANGED ns

\* unlink and the rename of a file read the id under the read lock ...
ReadId(pc, old, new) ==
    /\ Request
    /\ N!IsFile(old) /\ old # new
    /\ fuse' = [pc |-> pc, id |-> ns[old].id, old |-> old, new |-> new]
    /\ FuseOnly /\ UNCHANGED <<made, ns, tables>>

Unlink(p) == ReadId("unlink", p, TrashPath \o p)

\* A mutant: the target is not looked at.
CanRenameOver(tree, old, new) ==
    /\ old \in DOMAIN tree /\ tree[old] # N!Dir
    /\ Parent(new) \in DOMAIN tree /\ tree[Parent(new)] = N!Dir

\* rename_file: the checks, then the move.
CanRename(tree, old, new) ==
    /\ old \in DOMAIN tree /\ tree[old] # N!Dir
    /\ new \notin DOMAIN tree
    /\ Parent(new) \in DOMAIN tree /\ tree[Parent(new)] = N!Dir

RenamedFile(tree, old, new) == Insert(Remove(tree, {old}), new, tree[old])

\* ... and change the tree under the write lock: mkdir_p of the new parent,
\* then rename_file, whose failure leaves the directories behind.
Relocates(old, new) ==
    /\ CanRename(N!WithDirs(Parent(new)), old, new)
    /\ ns' = RenamedFile(N!WithDirs(Parent(new)), old, new)

RelocationFails(old, new) ==
    /\ ~CanRename(N!WithDirs(Parent(new)), old, new)
    /\ ns' = N!WithDirs(Parent(new))

UnlinkTree ==
    /\ fuse.pc = "unlink"
    /\ \/ Relocates(fuse.old, fuse.new) /\ fuse' = [fuse EXCEPT !.pc = "path"]
       \/ RelocationFails(fuse.old, fuse.new) /\ fuse' = Idle
    /\ FuseOnly /\ UNCHANGED <<made, tables>>

UnlinkPath ==
    /\ fuse.pc = "path"
    /\ Try(UpdateVirtualPath(fuse.id, fuse.new) /\ UNCHANGED directories)
    /\ fuse' = [fuse EXCEPT !.pc = "mark"]
    /\ FuseOnly /\ UNCHANGED <<made, ns>>

UnlinkMark ==
    /\ fuse.pc = "mark"
    /\ Try(MarkTrashed(fuse.id, fuse.old, now) /\ UNCHANGED directories)
    /\ fuse' = Idle
    /\ FuseOnly /\ UNCHANGED <<made, ns>>

\* The tree and the path of the row change under the write lock.
RenameFile ==
    /\ fuse.pc = "rename"
    /\ \/ /\ CanRename(ns, fuse.old, fuse.new)
          /\ ns' = RenamedFile(ns, fuse.old, fuse.new)
          /\ Try(UpdateVirtualPath(fuse.id, fuse.new) /\ UNCHANGED directories)
          /\ fuse' = IF InTrash(fuse.old) /\ ~InTrash(fuse.new)
                     THEN [fuse EXCEPT !.pc = "unmark"] ELSE Idle
       \/ /\ ~CanRename(ns, fuse.old, fuse.new)
          /\ fuse' = Idle
          /\ UNCHANGED <<ns, tables>>
    /\ FuseOnly /\ UNCHANGED made

RenameUnmark ==
    /\ fuse.pc = "unmark"
    /\ Try(UnmarkTrashed(fuse.id) /\ UNCHANGED directories)
    /\ fuse' = Idle
    /\ FuseOnly /\ UNCHANGED <<made, ns>>

RenameDir(old, new) ==
    /\ Request
    /\ N!MoveDir(old, new)
    /\ Try(RenameRows(old, new) /\ UNCHANGED directories)
    /\ fuse' = [pc |-> "directories", old |-> old, new |-> new]
    /\ FuseOnly /\ UNCHANGED made

RenameDirDb ==
    /\ fuse.pc = "directories"
    /\ Try(RenameDirectories(fuse.old, fuse.new) /\ UNCHANGED rows)
    /\ made' = {p \in made : ~Under(p, fuse.old)}
    /\ fuse' = Idle
    /\ FuseOnly /\ UNCHANGED ns

Fuse ==
    \/ \E p \in DirPaths : Mkdir(p) \/ Rmdir(p)
    \/ \E p \in FilePaths : Unlink(p)
    \/ \E old, new \in FilePaths : ReadId("rename", old, new)
    \/ \E old, new \in MovePaths : RenameDir(old, new)
    \/ RmdirDb \/ UnlinkTree \/ UnlinkPath \/ UnlinkMark
    \/ RenameFile \/ RenameUnmark \/ RenameDirDb

----------------------------------------------------------------------------
(* The gRPC scan.  Files it has no row for, under its own form of the real *)
(* path, are new to it.                                                    *)

ScanOnly == UNCHANGED <<mode, todo, fuse, restore, sighup, directories,
                        second, purge, pending, origin, now, made>>

Rescan ==
    /\ "rescan" \in Events /\ mode = "up" /\ scan = Idle
    /\ scan' = [pc |-> "upsert", todo |-> {f \in origin : ~HasRow(Key(f, FALSE))}]
    /\ ScanOnly /\ UNCHANGED <<ns, served, last_rowid, rows>>

\* An upsert that fails ends the scan.
RescanUpsert ==
    /\ scan.pc = "upsert" /\ scan.todo # {}
    /\ \E f \in scan.todo :
         LET key == Key(f, FALSE)
         IN  \/ /\ Upsert(key, Derived[f])
                /\ last_rowid' = LastRowId(key, last_rowid)
                /\ scan' = [pc |-> "insert", todo |-> scan.todo \ {f}, file |-> f,
                            id |-> UpsertedId(key, last_rowid)]
             \/ /\ "db_error" \in Events
                /\ scan' = Idle
                /\ UNCHANGED <<rows, last_rowid>>
    /\ ScanOnly /\ UNCHANGED <<ns, served>>

RescanInsert ==
    /\ scan.pc = "insert" /\ TreeFree
    /\ N!AddFile(Derived[scan.file], scan.id)
    /\ scan' = [scan EXCEPT !.pc = "register"]
    /\ ScanOnly /\ UNCHANGED <<served, last_rowid, rows>>

\* A mutant: the fetcher is not told of the new file.
RescanUnregistered ==
    /\ scan.pc = "register"
    /\ scan' = [pc |-> "upsert", todo |-> scan.todo]
    /\ ScanOnly /\ UNCHANGED <<ns, served, last_rowid, rows>>

RescanRegister ==
    /\ scan.pc = "register"
    /\ served' = Insert(served, scan.id, scan.file)
    /\ scan' = [pc |-> "upsert", todo |-> scan.todo]
    /\ ScanOnly /\ UNCHANGED <<ns, last_rowid, rows>>

RescanDone ==
    /\ scan.pc = "upsert" /\ scan.todo = {}
    /\ scan' = Idle
    /\ ScanOnly /\ UNCHANGED <<ns, served, last_rowid, rows>>

----------------------------------------------------------------------------
(* Restoring from the trash: the CLI writes the paths to a file and sends  *)
(* SIGHUP; the daemon moves each file that matches, in any order.          *)

CliRestore ==
    /\ "restore" \in Events /\ mode = "up" /\ Trashed # {}
    /\ pending' = {rows[i].original : i \in Trashed}
    /\ sighup' = TRUE
    /\ UNCHANGED <<mode, ns, served, last_rowid, todo, fuse, scan, restore, tables,
                   second, purge, origin, now, made>>

RestoreOnly == UNCHANGED <<mode, served, last_rowid, todo, fuse, scan,
                           directories, second, purge, origin, now, made>>

\* The variable was set in the process of the CLI, not in the daemon's.
Sighup ==
    /\ mode = "up" /\ sighup /\ restore = Idle
    /\ sighup' = FALSE
    /\ restore' = IF RestoreFileKnown /\ pending # {}
                  THEN [pc |-> "next",
                        left |-> {[id |-> i, from |-> rows[i].path, to |-> rows[i].original] :
                                    i \in {j \in Trashed : \E p \in pending :
                                                             Under(rows[j].original, p)}}]
                  ELSE Idle
    /\ RestoreOnly /\ UNCHANGED <<ns, rows, pending>>

RestoreTree ==
    /\ restore.pc = "next" /\ TreeFree
    /\ \E item \in restore.left :
         \/ /\ Relocates(item.from, item.to)
            /\ restore' = [pc |-> "path", left |-> restore.left \ {item}, item |-> item]
         \/ /\ RelocationFails(item.from, item.to)
            /\ restore' = [restore EXCEPT !.left = @ \ {item}]
    /\ RestoreOnly /\ UNCHANGED <<rows, pending, sighup>>

RestorePath ==
    /\ restore.pc = "path"
    /\ Try(UpdateVirtualPath(restore.item.id, restore.item.to) /\ UNCHANGED directories)
    /\ restore' = [restore EXCEPT !.pc = "unmark"]
    /\ RestoreOnly /\ UNCHANGED <<ns, pending, sighup>>

RestoreUnmark ==
    /\ restore.pc = "unmark"
    /\ Try(UnmarkTrashed(restore.item.id) /\ UNCHANGED directories)
    /\ restore' = [pc |-> "next", left |-> restore.left]
    /\ RestoreOnly /\ UNCHANGED <<ns, pending, sighup>>

RestoreDone ==
    /\ restore.pc = "next" /\ restore.left = {}
    /\ restore' = Idle /\ pending' = {}
    /\ RestoreOnly /\ UNCHANGED <<ns, rows, sighup>>

----------------------------------------------------------------------------
(* Other processes, the origin, the clock.                                 *)

\* "trash empty" opens the database, running daemon or not.  It lists the
\* items, all or by --older-than (age 0: all), then deletes them one by one.
PurgeOlderThan(age) == IF age = 0 THEN Trashed ELSE TrashedSince(now, age)

CliPurge ==
    /\ "purge" \in Events /\ purge = Idle
    /\ \E age \in Ages \cup {0} :
         /\ PurgeOlderThan(age) # {}
         /\ purge' = [pc |-> "delete", age |-> age, left |-> PurgeOlderThan(age)]
    /\ UNCHANGED <<memory, tables, second, pending, origin, now, made>>

PurgeDelete ==
    /\ purge.pc = "delete"
    /\ \E i \in purge.left :
         /\ DeleteRow(i)
         /\ purge' = IF purge.left = {i} THEN Idle ELSE [purge EXCEPT !.left = @ \ {i}]
    /\ UNCHANGED <<memory, directories, second, pending, origin, now, made>>

\* A second "mount" scans as ScanFile does, and finds the lock taken after.
SecondRead(file) ==
    /\ "second_daemon" \in Events /\ mode = "up" /\ second = Idle /\ file \in origin
    /\ second' = [pc |-> "upsert", file |-> file,
                  path |-> StoredPath(Key(file, TRUE), Derived[file])]
    /\ UNCHANGED <<memory, tables, purge, pending, origin, now, made>>

SecondUpsert ==
    /\ second.pc = "upsert"
    /\ Upsert(Key(second.file, TRUE), second.path)
    /\ second' = Idle
    /\ UNCHANGED <<memory, directories, purge, pending, origin, now, made>>

NewFile ==
    /\ "new_file" \in Events
    /\ \E f \in Files \ origin : origin' = origin \cup {f}
    /\ UNCHANGED <<memory, tables, second, purge, pending, now, made>>

Tick ==
    /\ now < MaxTime
    /\ now' = now + 1
    /\ UNCHANGED <<memory, tables, second, purge, pending, origin, made>>

MainTask ==
    \/ Start \/ (\E f \in Files : ScanFile(f)) \/ FinishStart
    \/ Sighup \/ RestoreTree \/ RestorePath \/ RestoreUnmark \/ RestoreDone

FuseThread ==
    RmdirDb \/ UnlinkTree \/ UnlinkPath \/ UnlinkMark \/ RenameFile \/ RenameUnmark
      \/ RenameDirDb

Next ==
    \/ Start \/ (\E f \in Files : ScanFile(f)) \/ FinishStart
    \/ Unmount \/ Crash
    \/ Fuse
    \/ Rescan \/ RescanUpsert \/ RescanInsert \/ RescanRegister \/ RescanDone
    \/ CliRestore \/ Sighup \/ RestoreTree \/ RestorePath \/ RestoreUnmark \/ RestoreDone
    \/ CliPurge \/ PurgeDelete
    \/ (\E f \in Files : SecondRead(f)) \/ SecondUpsert
    \/ NewFile
    \/ Tick

Spec == Init /\ [][Next]_vars

\* The daemon is started again when it is down, and goes on with what it has
\* begun: the main task and the thread that serves FUSE each run.
FairSpec == Spec /\ WF_vars(MainTask) /\ WF_vars(FuseThread)

----------------------------------------------------------------------------
(* Properties.                                                             *)

Quiet == mode = "up" /\ fuse = Idle /\ scan = Idle /\ restore = Idle

IdsIn(tree) == {tree[p].id : p \in {q \in DOMAIN tree : tree[q] # N!Dir}}

\* What a restart would rebuild is what is there: every row's path is the
\* file with its id, which reads the row's file, and every file has a row.
\* Whatever happened before, in whatever order, a crash included.  As a mount
\* takes the place of a file it knows from its row (StoredPath), what a reply
\* has promised survives a remount, and nothing else comes with it; unless a
\* directory with wide characters was renamed (Rebased).
FilesSurvive ==
    Quiet =>
      /\ \A i \in DOMAIN rows :
           /\ rows[i].path \in DOMAIN ns
           /\ ns[rows[i].path] = N!File(i)
           /\ i \in DOMAIN served /\ served[i] = rows[i].key.file
      /\ IdsIn(ns) = DOMAIN rows

\* No request, no restore and no other process makes a file vanish from the
\* mount: rm moves it to the trash, mv and restore never overwrite.
NoFileLost ==
    [][mode = "up" /\ mode' = "up" => IdsIn(ns) \subseteq IdsIn(ns')]_vars

\* The fetcher knows every file in the tree, but for the one the gRPC scan
\* has inserted and is about to register.
Readable ==
    mode = "up" =>
      \A i \in IdsIn(ns) :
        i \in DOMAIN served \/ (scan.pc = "register" /\ scan.id = i)

\* mkdir's promise that empty directories persist across remounts: one that
\* somebody made, and did not remove or rename since, is there.
UserDirsSurvive == Quiet => \A p \in made : N!IsDirectory(p)

\* The next three are sentences of the documentation that the code does not
\* keep; no configuration checks them, and README.md says how to see each fail.

\* mv's promise that changes persist across remounts, for directories: one
\* that was renamed or removed is not brought back by the next mount.
NoStaleDirs == Quiet => \A p \in directories : N!IsDirectory(p)

\* "Delete old items only": an item goes only if it has been there for the
\* duration asked for.
OlderThanSparesNew ==
    [][\A i \in DOMAIN rows \ DOMAIN rows' : rows[i].trashed_at <= now - purge.age]_vars

\* "The daemon processes pending restores and moves files back."
RestoresHappen == (pending # {} /\ mode = "up") ~> pending = {}
=============================================================================
