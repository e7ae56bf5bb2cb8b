# MusicFS in TLA+

MusicFS is a FUSE filesystem that shows music from several origins as one tree
of virtual paths, keeps the bytes it has read in a content-addressed store, and
keeps what users did to the tree (moves, trash, directories) in SQLite.  This
directory holds TLA+ models of the parts of it where order matters, the TLC
configurations that check them, and proofs.

All paths below are relative to the repository; `crates/` stands for
`src/crates/`.

## 1. The system

| Component | State | Operations | Talks to |
|---|---|---|---|
| Virtual tree (`musicfs-cache/src/tree.rs`) | `nodes`, `path_to_inode`, `next_inode`, under one `RwLock` | insert, remove, mkdir, mkdir_p, rename of files and directories, removal of directories, refresh | called by FUSE, mount, gRPC scan, restore |
| FUSE filesystem (`musicfs-fuse/src/filesystem.rs`) | none of its own; one thread serves requests one at a time | lookup, readdir, getattr, read, mkdir, rmdir, unlink, rename | tree, database, file reader (through `block_on` with a 30 s limit) |
| Database (`musicfs-cache/src/db.rs`, `schema.sql`) | tables `files`, `directories`, overlays, tags; one connection behind a mutex; other processes open the same file | upsert, path updates, trash marks, purge, directories | daemon, command line |
| Daemon and command line (`musicfs-cli/src/main.rs`) | the wiring, the lock file, the signal loop | mount: scan, build tree, restore directories, take lock, serve; SIGHUP: restore from trash; `trash restore`, `trash empty` | everything |
| gRPC scanner (`musicfs-grpc/src/scanner.rs`) | progress | scan of an origin beside the mounted filesystem | database, tree, fetcher |
| Content store (`musicfs-cas/src/store.rs`) | one file per chunk, a sled index, the counter `current_size` | open, put, get, delete, exists | reader, fetcher, eviction, prefetch |
| File reader and fetcher (`musicfs-cas/src/reader.rs`, `fetcher.rs`) | manifests in memory, `file_map` | read, re-fetch of corrupt or missing chunks, fetch of a whole file | store, origins |
| Prefetch engine, access patterns (`musicfs-cache/src/prefetch.rs`, `patterns.rs`) | `in_flight`, permits, learned successors | prefetch on access events | fetcher, event bus |
| Eviction (`musicfs-cache/src/eviction.rs`) | two maps: chunk to time, time to chunk | record, evict to a target | store |
| Overlay and format handlers (`musicfs-cache/src/overlay.rs`, `handlers/`) | none | splice edited headers before origin audio | reader, database |
| Origin health, registry, router, failover (`musicfs-origins/src/`) | map of health states; registry's three structures | periodic checks, thresholds, selection | origins, event bus |
| Event bus, search indexer (`musicfs-core/src/events.rs`, `musicfs-search/src/`) | a bounded broadcast channel; pending commits | publish, index, commit | most components |
| Supervisor (`musicfs-core/src/supervisor.rs`) | status map | spawn, restart with back-off | long-running tasks |
| Plugins (`musicfs-plugins/src/`) | loaded libraries, registry | load, unload, reload | events |
| Delta, chunker, watcher (`musicfs-sync/src/`) | debounce times | detect changes | origins, event bus |
| Search directory (`musicfs-fuse/src/ops/search.rs`) | cached results, inodes of links | list, readlink | index |
| Metadata service and its command line (`musicfs-grpc/src/metadata.rs`, `musicfs-cli/src/metadata.rs`) | a task for each batch or import, a channel to its client | get, update, clear, batch, import | database |
| Other gRPC services, webhooks (`musicfs-grpc/src/`) | the delivery under way | translate requests, deliver events | scanner, bus |

What is hard about it, and so what the models are for:

- the tree keeps the same facts in two maps, and ten operations edit both;
- tree (memory) and database (disk) are changed one after the other by FUSE
  handlers, the scanner, the restore loop and other processes, a failed
  database call is only logged, and a crash may come in between;
- the store's `put`, `get` and `delete` take no lock across their system calls,
  may be killed at any of them, and may be dropped by a timeout while the
  operating system goes on;
- a reader trusts a manifest and a store that others change under it;
- origins are registered, checked and read through four maps that no lock covers
  together, while they fail, hang and recover;
- the event bus drops what a slow receiver has not heard, and index, prefetch
  engine and webhooks live on what is left;
- an edit of tags is several statements and several conversions, none of which
  carries every field.

What makes each component correct:

- *tree*: both maps agree; every path leads to a live node of its own; inodes
  are never reused and never change their meaning; operations do to paths what
  their names say;
- *library* (tree, database, FUSE, mount, scanner, command line): what a
  remount would rebuild is what is mounted; no request, restore or other
  process makes a file vanish; every file in the tree is known to the fetcher;
  directories made by users persist;
- *store*: the counter covers the files, so the limit is meaningful, and the
  limit is exceeded by a known amount at most;
- *reading*: a read returns one version of the file, up to the size of the
  last scan; it fails only when it must;
- *overlay*: what a player reads piece by piece is one file, a header of the
  current tags before the audio of one version; edits show;
- *origins*: whoever is routed to is monitored; events tell the status; what is
  down is found out; a read finds its origin and ends;
- *search*: the index ends up with what is at the origin, or one can say by which
  loss not; links keep their meaning;
- *prefetch, eviction, supervisor, plugins*: nothing stays in flight, counted or
  listed that is not; what is told of a task or a plugin is true;
- *tags*: an edit that was reported shows until it is undone; reports are true;
  what a header says is what the row says.

## 2. Modules

| Module | Models | Extends / uses |
|---|---|---|
| `Paths` | `VirtualPath`: a path is a sequence of names, a name a sequence of fragments, so that `str::starts_with` (`StartsWith`) and the component-wise order (`Under`) differ as they do in the code | |
| `Maps` | insert and remove on maps | |
| `Namespace` | the abstract specification of the tree: paths to entries | `Paths` |
| `VirtualTree` | `tree.rs`, every operation that changes it | `Paths`, `Maps`; instance of `Namespace` |
| `VirtualTreeProofs` | theorems about `VirtualTree` | `VirtualTree`, `TLAPS` |
| `Database` | the columns of `files` that place a file, and `directories` | `Paths`, `Maps` |
| `Library` | FUSE handlers, mount, gRPC scan, SIGHUP restore, `trash` commands over database and tree | `Database`; the tree is an instance of `Namespace` |
| `CasStore` | `store.rs` between any two system calls | `Maps` |
| `ReadPath` | `reader.rs`, `fetcher.rs`, the fetches of the prefetch engine, the read timeout | `CasStore` |
| `Overlay` | `overlay.rs`, the handler registry, analysis at mount, the metadata calls of gRPC, the sizes told by `lookup` and `getattr` | |
| `OriginHealth` | `health.rs`, `registry.rs`, `router.rs`, `failover.rs`, and how origins try again | `Maps` |
| `EventBus` | `events.rs`, the broadcast channel | `Maps` |
| `SearchIndex` | `index.rs`: what is written and what is committed | |
| `Search` | watcher, indexer, webhooks and the links of `.search` over the two | `EventBus`, `SearchIndex` |
| `Prefetch` | `prefetch.rs` with the counts of `patterns.rs` | `EventBus` |
| `Eviction` | `eviction.rs` | `Maps` |
| `Supervisor` | `supervisor.rs` | `Maps` |
| `Plugins` | `manager.rs`, `native.rs`, `wasm.rs` | `Maps` |
| `Tags` | what each conversion between file, row, message, JSON, import and header carries | `Maps` |
| `TagService` | `MetadataService`, `musicfs metadata`, batches, imports | `Tags` |
| `OverlayProofs`, `OriginHealthProofs`, `SearchProofs`, `TagServiceProofs`, `LibraryProofs` | theorems about the module they are named for | the module, `TLAPS` |
| `ReadPathProofs` | theorems about `ReadPath` and the `CasStore` below it | `ReadPath`, `TLAPS` |
| `BackgroundProofs` | theorems about `Eviction`, `Prefetch`, `Supervisor` and `Plugins` | the four, `TLAPS` |
| `MC*` | instances for TLC | |

### State and actions

`VirtualTree`.  `nodes`, `path_to_inode` and `next_inode` are the fields of
`VirtualTree`.  Each operation holds the write lock throughout and checks before
it changes, so it is one action, and an error return is no step.  `RenameDirectory`
collects the paths to move by string prefix as the code does; the code visits
them in hash map order, which matters only where a new path is itself one of the
collected ones; the set `lost` stands for the entries that get lost that way.
That a directory is not moved below itself is the kernel's check
(`KernelAllowsMove`).

`Library`.  One variable per party: `fuse` is the request being served (the
session loop is one thread), `scan` the gRPC scan, `restore` the loop of
`process_pending_restores`, `second` another `mount` process, `purge` a
`trash empty` process; `rows` and `directories` are on disk, `ns`, `served`
(the fetcher's `file_map`) and `last_rowid` (SQLite's `last_insert_rowid()` of
the daemon's connection) in memory.  A handler is split exactly where it lets go
of the tree's lock or makes a second database call, e.g. `unlink` into `Unlink`
(id read under the read lock), `UnlinkTree`, `UnlinkPath`, `UnlinkMark`;
`rename` keeps the write lock across its first database calls, which `TreeFree`
says.  `Try` is a database call that may fail and be warned about.  `made` is a
history variable.  `rename_directory` of the database moves paths with `LIKE` and
`substr` (`Rebased`): it counts the prefix in bytes and cuts characters, so that a
directory with characters of several bytes (`Wide`) in its path takes as many more
off the start of each path below it.

`CasStore`.  `call[w]` is the place of each task in `put`, `get` or `delete`;
there is a step for each system call or await.  A chunk is two units long,
written by one or two writes at offsets 0 and 1, so that a file can be empty,
short, or have a hole after another task truncated it; `linked` says whether a
writer's file still has its name.  `adrift` holds what calls dropped by the read
timeout had asked of the disk (an open and its writes, a removal) and the
blocking pool still does.  `current_size` is modulo `Width`.  The sled index is
read by nothing but the statistics, so only the places where it is written are
kept, as steps that may fail or be interrupted.  `missed` is a history variable:
the puts since `open` that wrote and will never count.

`ReadPath`.  `task[w]` is the place of each task in `FileReader::read` and
`ContentFetcher::fetch_file`, over the calls of `CasStore`.  One worker is the
FUSE thread; the others are prefetches.  A file is one chunk, of `Bytes` bytes.
`scanned` is the version whose size the fetcher has from the mount's scan, and
`total_size` that size, which every manifest gets whatever was fetched
(`fetcher.rs:105`), so that a read goes no further (`Upto`).

`Overlay`.  One file; its bytes are tokens, so that every byte of an answer tells
which version and place of the origin file, or which tag, it is from.  `row` is
what the database holds of it, written by `Mount` (the upsert of the scan),
`UpdateMetadata` and `ClearOverlay`.  `OverlayReader::read` is split where it
lets go of the database and where it awaits: `GetFormatLayout`, `GetFileMetadataRow`
(with the synthesis and the arithmetic of `Splice`) and `CasRead`.  `FileReader`
is seen from above: it reads from the version it holds, up to the size of the scan (`Served`), and
whether it answers or fails it may have fetched the file anew for want of a chunk
(`reader.rs:128`, `:140`) and hold the newer version from then on.  `app` is a player and the kernel: it opens the file with the
size of `lookup` or of `getattr` and reads pieces of any of the sizes `Pieces`
from the start until it has that size or a short answer.  `seen`, `edits` and
`forgotten` are history: the rows that held during a read, what users have set
since the last clear, and whether a clear or a mount has come over it.  `app.steady`
says that no edit came between the pieces and that none of them came back with a newer version.

`OriginHealth`.  `registered`, `prioritised`, `timed`, `monitored` and `state`
are the maps of registry, router and monitor (the first four by their keys);
`Register` and `Unregister` have a step for each.  `check[t][o]` is a check of
`o` by the monitor's loop or by `check_now`: asked, answered, the previous
status read (`Peek`), the new one recorded (`Record`).  `NotHeld` is the guard
that `check_now` keeps on the map across its await (`health.rs:293`).  `read` is
a read with failover, its attempts and those of the origin inside each.
`published` is what a subscriber knows; `muddled` and `overtaken` are history:
checks that overlapped, and origins that went while a check or read was under way.

`Search`.  `written` and `committed` are the index's documents.  The watcher's
`debouncer` swallows a file's further events until 200 ms are over (`DebounceOver`).
A commit may fail before or after the documents are on the disk (`CommitFails`: the
reload comes last), from the timer, from `stop` or from a batch.  `index_batch`, which only
tests and whoever owns the indexer call, runs beside the task: `BatchBegin` takes the
files with the tags its caller has then, `BatchIndex` adds a document for each, whether or not it has one,
and then it commits, or breaks off at the first error with what it has written so far.
`missed` is history, the files whose event was lost in one of the ways
`IndexIsRight` names, and `unsaved` says that the last commit failed or a batch broke off after it.
The two calls of the index for a modified file are one step.
`post` is the webhook's attempt.  `result_cache` and `inode_to_result` are those of
`ops/search.rs`; `shown` is history, the hit that each link (a query and a number) stood for when the query
was first listed.  The links of all queries have the same inodes, so a listing takes over those of the one before.

`Prefetch`.  `loop` is where the engine's loop is; `in_flight`, `fetching` and
`landed` follow a prefetch from its entry to the return of its permit; `counts`
and `saved` are the counts in memory and in the table.  `Eviction`:
`access_times` and `hash_to_time` are the two maps, `evictor` the place in
`evict_to_target`, other tasks use the store freely.  `Supervisor`: `tasks` is
the table, `spawn[s]` a call with its task and monitor: the task stops (`TaskStops`), the
monitor sees it (`SeesReturn`, `SeesPanic`) and writes, while the caller may not have made
the entry yet (`InsertEntry`).  `Plugins`: the manager
is borrowed mutably by each call, so that nothing overlaps; the choices are those
of libraries and of plugins, and `reload_all` and `shutdown` go plugin by plugin.

`TagService`.  A row is a map from columns to values; a conversion of `Tags` is
the set of fields it carries, so that a field that one side has and the other
lacks is seen to get lost.  Each database call is a step.  `due` is history: what
edits have asked for and nothing has undone; `did` is how far each item of a
batch or import was applied, `got` the reports the client has.

## 3. Runs

Passing runs:

| Run | Shows |
|---|---|
| `tree_plain` | `PathsAreExact`, `ViewsAgree`, `InodeKeepsMeaning`; `ImplementsNamespace`: the tree refines `Namespace` under the mapping `Resolved` where no name is a string prefix of a sibling's and files and directories have different names |
| `library_mount` | `FilesSurvive`, `UserDirsSurvive` with two files, requests of every kind, remounts, and crashes between tree and database |
| `library_trash` | `NoFileLost` while restores, `trash empty` and requests interleave, and a file may have taken the place of a trashed one |
| `library_rescan` | `Readable` with the gRPC scan, a second daemon, new files, failing database calls, crashes during scans |
| `cas_races` | `SizeCoversDisk`, `OvershootBounded`, for two tasks, three chunks and a limit of one chunk, with kills, power losses, timeouts and failing disk |
| `read` | `ReadsAreRight` for a reader and a prefetcher, one file that changes three times between a long and a short version, a store that is full, and everything that may go wrong; `UnchangedReadsSucceed`, `FailsAtMostTwice` in calm: since the start no answer said that disk, store, clock or origin failed, and no prefetch ran.  Two failures in a row do happen in it, three do not |
| `overlay_splice` | `ReadsAreWhole`, `FileReadIsWhole`, `EditsShowTillForgotten` for a FLAC file in four versions (two analysed, one not, one cut off inside its header), with edits, clears, failing calls, remounts and changes at the origin at any moment, and reads that fetch the file anew |
| `origins` | `RegisteredIsMonitored`, `EventsTellTheStatus`, `NothingLeftBehind`, `ReadsFindTheirOrigin`; `DownIsNoticed`, `ReadsEnd`, for an NFS origin that comes and goes while it is checked from two sides and read |
| `search` | `IndexIsRight`, `NothingUncommitted`, `LinksKeepTheirHit`; `ItSettles`: two files change twice, beside a batch of both, with lag, and an index error, a failed commit, a batch that breaks off, a stop or a crash |
| `background` | five parts that share no state, one per behaviour (`part`): of the metadata service `EditsShow`, `ReportsAreTrue`, `WorkFollowsTheClient`, `HeaderSaysTheRow`; of the prefetch engine `CountsAreEarned`, `FlightsLand`, `StopEnds`; of eviction `PolicyIsRight`, `EvictionEnds`; of the supervisor `StatusIsTrue`; of the plugins `LoadedOnce`, `RegistryIsTrue`, `ShutdownLeavesNothing` |

Runs that TLC finds violated; each is a sentence of the documentation that the
code does not keep (PROJECT.json quotes it):

| Run | Shows |
|---|---|
| `tree_siblings` | renaming `/a` also moves what is below its sibling `/ab` |
| `tags_json` | `metadata set --json` with a year, the example of the README, reports an update and sets no year (`EditsShow`) |

### What else the models show

Further sentences the code does not keep, and limits of the properties above, for
which no configuration is kept.  To see one, change the configuration named:

- `library_mount` with `"new_file"` or `"crash_in_scan"` in `Events` (and `Present <- OneFile`
  for the first): after a row is inserted, the upserts of known files return the
  new row's id (`db.rs:250`), and `FilesSurvive` fails;
- `library_mount` with `"rescan"`: the scanner stores real paths without the
  leading `/` that the mount writes (`scanner.rs:98`, `main.rs:923`) and inserts known files a second time;
  with `"second_daemon"`: a second mount writes stale paths before it asks for
  the lock (`main.rs:394`); with `"restore"` and `RestoreFileKnown = TRUE`: a
  restore writes its row after a rename of the same file did (`main.rs:794`);
  all three violate `FilesSurvive`;
- `library_mount` with `MovePaths` containing a directory that users make, or
  `DirPaths` one below a directory that only files imply: `UserDirsSurvive`
  fails for what is made below it, as the parent has no row (`main.rs:358`);
- `library_mount` with `Wide = {"a"}`, the letter of the artist's directory taken for one
  with an accent: after that directory is renamed the database has the path of its
  file without its first letter (`db.rs:468` passes the length in bytes to `substr`,
  which counts characters), and `FilesSurvive` fails;
- `library_mount` with `NoStaleDirs`, `MovePaths <- MoveOwn` and `DirPaths <- DirOfOwn`: the own row of a
  renamed directory keeps the old path (`filesystem.rs:781`), so the next mount
  brings the old directory back;
- `library_trash` with `OlderThanSparesNew`, `Ages = {1}` and `MaxTime = 3`:
  `trash empty --older-than` deletes the newer items (`db.rs:941`);
- `library_trash` with `SPECIFICATION FairSpec`, the property `RestoresHappen`, `MaxId = 1`,
  `FilePaths <- XPaths`, `DirPaths <- DirOfOwn`, `MovePaths <- MoveOwn`, `Files <- OneFile`,
  `Present <- OneFile` and `Events = {"restore", "crash"}`: the
  daemon looks for a pending restore in its own environment (`main.rs:726`), which
  `trash restore` sets in another process (`main.rs:644`), and never processes it;
- `trash empty` lists rows and then deletes by id (`db.rs:991`): a row that left
  the trash in between is deleted; a directory moved out of the trash leaves the
  `trashed` flags of its files set (`filesystem.rs:776`);
- `cas_races` with `DiskWithinLimit` in place of `OvershootBounded` fails: two
  puts both pass the check of the limit (`store.rs:116`); and the bytes of a
  dropped or failed `put` are not counted until the next open, for which both
  `SizeCoversDisk` and `OvershootBounded` make allowance;
- a file that has grown at the origin since the mount scanned it is read up to its old size
  until the next mount, without an error (`fetcher.rs:105`, `reader.rs:110`); `ReadsAreRight` says so (`upto`), and
  `read` with `answer.upto` compared to the length of the version alone fails;
- `read` with `ReadsSucceed` fails for a file that changed, and where the store
  is full: `fetch_file` drops what it could not store and the read fails
  (`fetcher.rs:92`), where the plans speak of passing data through.  A chunk that
  a prefetch is still writing is read as corrupt, twice, which is why calm
  excludes prefetches (`main.rs` does not start the engine at present);
- `overlay_splice` with `NoneRefused`, `Extension = "mp3"`, `Versions <- Mp3Versions` and
  `Edits <- TitleOnly`: every read of an MP3 file is refused, since its handler is
  registered as `id3v2` and looked up as `mp3` (`overlay.rs:85`, `id3v2.rs:318`);
- `overlay_splice` with `EditsShow` and `Edits <- TitleOnly`: tags set after a clear
  do not show, since the clear took the layout away (`db.rs:865`); without a
  clear, the upsert of the next mount's scan replaces edited tags by the file's
  (`db.rs:160`).  With `Edits` that set a year: where the file has a date, the
  header shows the date of before (`flac.rs:97`);
- `overlay_splice` with `FileReadIsWhole` asking for all of `Virtual(row, Held)`:
  the end of the audio is cut off where the new header is longer than the
  old and the size is that of `lookup` (`filesystem.rs:256`), or longer than the
  estimate of `getattr` (8192 bytes for FLAC, `flac.rs:448`: long lyrics are enough), and so
  is that of a file that has grown since the scan.  With a version that lacks no more than the length of the new header
  (`File(3, 5, 3, TRUE, NoTags)` and two tags set), `audio_end - audio_start`
  wraps to a small sum (or panics in a debug build) and the header is cut off.

- `overlay_splice` with `ReadsAreOfOneRow` in place of `ReadsAreWhole`: a clear between the two questions
  of `OverlayReader::read` (`overlay.rs:66`, `:81`) makes a header of no tags before the audio of the
  layout that is gone, a virtual file that no row described.  `ReadsAreWhole` admits
  that pair (`Mixed`) and nothing else;
- `overlay_splice` with `steady == app.steady` in `Answer`, so that a newer version does not
  end what `FileReadIsWhole` is about: once a piece had to fetch the file anew, those after
  it are of the newer version (`reader.rs:128`), behind bytes of the older one;
- `tags_json` with `EnrichmentStays` in place of `EditsShow`, `Edits <- MCEdits` and two
  users: label, album type and cover undo each other (see below).  `EditsShow` is about the other fields;
- `background` with `AnswersAreExact` in place of `StatusIsTrue`: a task that is through before
  `spawn_critical` has entered it is called running by the entry (`supervisor.rs:140`), over
  the `Stopped` that found no entry to go to, until its monitor has ended and the answer is `Failed`;
  with one name for two spawns, each monitor writes to the other's entry;
- `search` with `NothingUncommitted` without `unsaved`: after a failed commit, or a batch that broke off,
  what is written waits for the next event, however long (`indexer.rs:58`, `:115`).

Other places where code and documents part, met while reading for the models:

- `src/README.md:538` and `docs/v2/features/metadata-overlay.md:318` say that an edit moves
  the file in the tree and re-indexes it; `MetadataService` does neither and publishes no event;
- `metadata-overlay.md:311` speaks of merging; `update_enrichment` (`db.rs:793`) writes all of
  label, album type and cover, `NULL` where the request has none, so one edit
  clears what another set (`Enriched` in `TagService`); no call ever shows them;
- a clear sets the columns to `NULL`; the original tags come back only with the next scan;
- an edit that sets nothing is a success, even of an id that does not exist;
- `metadata diff` prints the current tags only, and `metadata export` does nothing;
- a `lookup` of a name listed in `.search` asks for the inode of another query
  (`filesystem.rs:242`) and finds nothing, where `docs/api/search.md:22` shows the links
  in use; links are known by the inodes that `readdir` gave, by position, so
  `LinksKeepTheirHit` holds only while the results are kept, and until another query is
  listed: the first link of any query is the same inode, and then leads to the hit of the last listing (`ops/search.rs:129`);
- `indexer.rs:112`: `index_batch` adds a second document for a file that has one, which no event but a
  modification or a removal takes away;
- `remove_by_path` (`index.rs:171`) queries a field that is stored and not indexed, and removes nothing
  (it answers with an error);
- a plugin that was discovered or reloaded is never initialised, where
  `musicfs-plugins/src/traits.rs:69` says `init` is "Called once after loading"; `RegistryIsTrue`
  speaks of `ready` for configured plugins only;
- a lagging bus ends the prefetch engine (`prefetch.rs:113`), where the indexer goes on;
- the supervisor's limit of restarts is never reset (`supervisor.rs:99`), so that
  a task that fails rarely is given up in the end;
- a router made by `Router::new()` has no bus and never publishes `AllOriginsUnhealthy`.

### Bounds

- `MaxInode` 6 (`tree_plain`): inodes are never reused, so this bounds the number
  of nodes ever made.  Six leave room for a directory with a nested one, files in each, and
  an operation after each of them; the proofs have no such bound.
- `MaxId` 2 (4 with new files and the second spelling of real paths, two rows for each of two files): enough
  that no upsert is ever refused.  `MaxTime` 2 or 3: an item and a later moment.
- Two files, so that one can take the place or the id of the other; one gRPC
  scan at a time (nothing in `server.rs` keeps two from running, which is left out); `trash restore` restores all.
- In `library_mount` directories that users make (`D`, `D/E`) are not renamed;
  the directory the tags imply is, within and into the trash.  What happens
  otherwise is above.  Names in `Library` are never prefixes of each other, so
  the tree may be taken for `Namespace`.
- `Wide` holds a letter of the name of a file and of no directory that is renamed: what happens
  otherwise is above.
- `read`: versions of two and one bytes in turn, four in all, so that a file grows, shrinks and comes back;
  `QuietLater`: from the third version on only states are gone on from where no write was dropped or failed (all
  of it happens with the first two).  An empty file has no chunk and is left out, as is a
  gRPC scan that tells the fetcher another size during the mount.
- `Width` 32: far more than any sum the instances reach, so that a counter in
  the upper half is one that went below zero (a chunk that was never counted is
  deleted), as `SizeCoversDisk` reads it.  `MaxMissed` 1: one put that is never
  counted between two opens.  `MaxSize` 2 is one chunk, so that the limit matters.
- `overlay_splice`: pieces of 1, 2 and 5 tokens for headers of 1 to 3 and audio of up
  to 4 begin and end a read on either side of the boundary, on it, and past the
  end; `Estimate` 4 is above each header, and `tree_size` below some virtual sizes.
  `Width` 64 is far above all sizes, so that a negative length is a huge one, as in the code.
  Two edits of different tags, one of which the date hides.
- Two workers: every race in the store is between two calls; a third adds one
  more chunk to the overshoot, as `OvershootBounded` is stated.
- `origins`: one origin, of the kind that retries by itself, with threshold 2 and two
  attempts of each kind; reads name their origin by their path, so a second origin
  would only interleave.  register and unregister of one origin do not overlap
  (their caller's business).
- `search`: two files, two changes, one fault, a channel of one event (1024 in the code), one
  webhook with one retry, two queries and hits (`Limit` 1; 1000 in the code) of one link
  each, which both queries use; a batch of both files while the writer has at most one
  document (`MaxDocuments` 3, which bounds batches only).  `LinksApart`: links are listed and
  followed while no delivery and no batch is under way, with which they share nothing but
  what is committed.  Two faults pass as well, and so does `Limit` 2 (each with `MaxDocuments` 2).
- `background`: prefetch with two files, five plays, a channel of two and one permit;
  two chunks, two tasks, two puts and a clock of two moments for eviction;
  two spawns, two names and two restarts; two libraries of which one has a second
  name, two native ids and one WASM plugin; one user, a batch of four and an import of three
  beside a scan, with a channel of one (32 in the code) and an id that has no row.
  A clock of three moments, three ids, and two users pass as well.

### Fairness

`Spec` has none.  Weak fairness is assumed of what the runtime schedules and of
nothing that users, origins or other processes decide:

- `Library.FairSpec`: `MainTask` and `FuseThread`, the daemon's main task and the
  thread that serves requests; used for `RestoresHappen` alone;
- `OriginHealth.FairSpec`: the monitor's timer ticks (`CheckAll`), a check goes on
  (`health()` is cut off after a timeout), a read goes on when its origin answers
  or fails (`ReadStep` is not enabled at an origin that hangs: a read has no timeout of its own,
  and `ReadsEnd` says so);
- `Search.FairSpec`: the tasks of watcher and indexer, the commit timer, the
  webhook's task and its client's timeout;
- `PrefetchFairness`: the loop (its `recv` has a timeout of a second), and fetches, which are taken to end;
  `EvictionFairness`: the evicting task.

`EvictionEnds` excludes a victim that others deleted or spoilt, for which
`evict_to_target` asks for ever (`eviction.rs:34`).

`CHECK_DEADLOCK FALSE` is said where the models stop at their bounds
(inodes used up) or when nobody asks for anything; `origins` has no such end and is
checked for deadlock.

## 4. Proofs

All theorems hold for every value of the constants under the module's named
assumptions (`FragmentsAssumption`, `ReadPathAssumption`, ...), and each is about
the specification that the runs check.  Where a theorem has a hypothesis of its own
(`PlainNames`, `WholeFiles`, `Roomy`, `NamesApart`, `PlainMoves`, `EditsFit`, `MaxSize # 0`), the text
says what it leaves out and what happens there.

`VirtualTreeProofs`, for every set of paths and file ids
(operations are given paths other than `/`) and any `MaxInode`:

- `Invariance`: `TreeInv == TypeOK /\ PathsAreExact /\ RootIsFixed` is invariant;
- `TypeCorrect`, `PathsStayExact`, `RootStays`: its three parts;
- `InodesAreNotReused`: the action property `InodeKeepsMeaning`, which also says that the counter never
  goes back.

None of the three parts is inductive alone: that a new inode is new needs that
all are below `next_inode` (`TypeOK`), which is preserved only because paths
lead to existing nodes (`PathsAreExact`); that a removed directory is not the
root needs `RootIsFixed`, and that `rename_directory` does not make two paths
lead to one node needs that none did before and that `Substitute` is injective
on paths with the same string prefix.  The lemmas follow the code's helpers: a
predicate `Good(nodes, paths, next)` is shown to be kept by adding a node under
a fresh inode, by removing paths with their nodes, by the walk of `mkdir_p`, by
moving one path, and by the substitution of `rename_directory`; each
operation is then a composition.  `Fine` adds what `InodeKeepsMeaning` needs, that `next_inode` only
grows included.  The proofs cover names that are prefixes of each other, which `tree_plain`
leaves out: even where `rename_directory` moves too much, paths stay exact.

The other two need names that the string prefix tells apart.  `PlainNames(DN, FN)`:
directories have names of `DN`, files of `FN`, the two have none in common, and no
name in use starts with another that is a directory's.  `DN` and `FN` are any such
sets; those of `tree_plain` are such, with `{A, B, TrashName}` and `{F}`.

- `ViewsStayAgreed`: `ViewsAgree`, that `lookup`, which walks `children`, and the operations, which
  start from `path_to_inode`, see one tree.  The invariant is `TreeInv` with `Views`: what is known has its
  ancestors known (`Closed`), nodes are of the kind their names say (`NamedWell`), each is in the directory
  its path says, under its name (`Nested`), and the children of a directory are exactly what is known in
  it (`Listed`).  `Closed` needs that the prefix of `remove_directory_recursive` and
  `rename_directory` takes descendants only (`PrefixIsAncestor`), else a directory goes and
  leaves what is in it; `NamedWell` is what keeps `insert_file` from putting a file where a
  directory is, which would leave its children behind.  That is what the two conditions are for;
- `TreeIsNamespace`: `ImplementsNamespace`, step by step: `AddViews`, `DropViews`, `MoveViews` and
  `WalkViews` say what each change of the two maps does to `Resolved`, and each operation of the tree is the
  operation of `Namespace` of its name, or a stutter (`refresh_file`).  For `rename_directory` it has to be shown that no entry
  gets lost (`RenamedPathsAre`): a path that is collected is never a new path of another, as
  directories are not moved below themselves.

`ReadPathProofs`, for any files, chunks, tasks and limit (`MaxSize # 0`: a store
with no limit does not verify):

- `ReadInvariance`, `ReadsStayRight`: a read that answers with data answers with
  one version that its file has had since the scan, up to the size of the scanned one,
  `ReadsAreRight`.  That is not inductive: the answer
  is what the last `get` brought, which is verified, so whole, but verified against the hash
  that the task asked for, and that came from a manifest.  `ReadInv` says of every manifest and of
  every chunk that a task holds that its file has had that version since the scan
  (`ManifestsOK`, `TaskOK`), and of every `get` that it is the reader's and of the chunk it
  wants (`GetOK`).  Of the store the proof needs only that others' steps leave a
  `get` alone and that nobody but `get` replies with data (`StoreGoesOn`): what
  tears files on disk does not matter, as the verification stands between.
- `UnchangedReadsGoOn` and `FailuresEnd`: in calm, no read fails of a file that did not change since the scan, and no third one in
  a row of any file that did not change in between.  `SteadyInv` adds to `ReadInv` what calm means: the reader is alone with
  the store (`OnlyReader`: no other call is under way, and of what dropped calls left nothing), and
  for a file that is to be read next without failing, the chunk of its manifest is whole or the
  read has its one refetch left, after which manifest and chunk are those of the origin
  (`Mended`, `ReaderOK`).  The first failure may come of a manifest from before a change, the second of a
  torn chunk of an earlier run, which the first fetch met, and another change; the second fetch has mended both.

About `CasStore` (`Spec`, and so any callers), under `Roomy`: tasks and chunks are finitely many, there is a limit,
and the counter is wide enough for all that can be counted (so for the instance of
`cas_races`; a u64 is in any store that a disk can hold):

- `CounterCoversDisk`, `SizeCoversDisk`, and `OvershootIsBounded`, the action property `OvershootBounded`.
  Neither is inductive: between two system calls of a `put` its bytes are on disk and not in the counter.
  `SizeInv` keeps the books (`Balanced`): the units on disk that somebody answers for, two for each
  open that a dropped call may still do, and what was removed and is still
  counted, are at most the counter, two for each put that was missed, and two for each writer.
  `Limited` keeps them for the limit: while somebody is past its check (`Underway`), the counter, with two for each
  task in that position, is at most the limit and two for each other task, as the check adds the
  size to the counter; at other times the counter is at most the limit with what `open` may have found and what was in hand,
  which is what `Roomy` wants room for.  `MaxSize = 0`, a store without a limit, is left out of `CounterCoversDisk` too: there
  racing puts and deletes of one chunk can count and uncount without bound, and a counter modulo
  `Width` means nothing.

`OverlayProofs`, for any versions, rows, edits, sizes of a piece and failures, under
`WholeFiles`: a version for which the handler finds a layout is not cut off inside its
header, and none is as long as a `u64` can tell:

- `ReadsStayWhole`: `WholeInv` says what a read under way may still rely on after each call it has made
  (`CallGoesOn`): the layout is that of a row it has seen, the front is the piece of the
  header of one, and offset and length left for `FileReader` are those of the audio in the same virtual
  file, whichever version `FileReader` then has.  The row seen first and the one seen second make one virtual file
  if no clear came between, as an edit leaves the layout; with a clear they make one of `Rows`.  The lemmas on
  `Slice` (`SliceIs` and those after it) do the arithmetic of `Splice` for all lengths;
- `FilesReadWhole`: `GotIsWhole`, that what a steady player has so far is the beginning of the virtual file
  of every version that `FileReader` may turn out to hold (`Reachable`: the one it holds, or, before the first
  read, any to come);
- `EditsShowOnRead`: `EditsKept` and `AnswerKept` add that `edits` is in the row unless it was forgotten.

Without `WholeFiles` the sum that `OverlayReader::read` makes of both lengths is not the length of the virtual file, and
may wrap.  The file of `overlay_splice` that is cut off far inside its header is therefore checked
by TLC only, where the wrapped sum is so large that nothing goes wrong.

`OriginHealthProofs`, for any origins, kinds, priorities and thresholds:

- `HealthInvariance`: `HealthInv` ties how far a `register` or `unregister` has come
  (`admin`) to which maps have the origin (`AdminOK`), and says of an origin that
  is gone, or has gone so far, that nothing checks or reads it (`LeftOK`) unless it was overtaken;
- `RegisteredStaysMonitored` and `NothingStaysBehind` follow from it.

- `EventsTold`: the last event tells the status of every origin that is not `muddled`.
  Inductive with it: of such an origin at most one check is under way, and what
  that check peeked at is the status that its answer will be compared with;
- `RegisteredOriginIsTried`: a read is told that there is no origin only if its
  origin was unregistered, as `route_with_fallback` asks for routes a second time without health.

`BackgroundProofs`, for any chunks, files, tasks and bounds:

- `PolicyStaysRight`, with the invariant strengthened by `SameInstantIsTie`: two
  chunks can have the same time only at a tie, so that taking one chunk's time
  away takes no other chunk's;
- `CountsStayEarned`: `counts[p] <= followed[p] + gaps` is not inductive, as a play
  is counted when the engine hears of it and not when it is made.  `Earned` counts as well
  what still waits in the bus (`Successions`); `AppendSuccessions` and `TailSuccessions` say what
  a publication and a receipt do to that number, and `Connected` says that the next play
  falls in with the one heard or waiting last, or a gap is left for it;
- `AnswersAreTrue`: of a task that is alone with its name and was entered in time, the table says what its
  monitor last saw (`LastWord`), and whoever has entered a call, or found it alone, finds it so later
  (`CallsGoOn`, `WasAlone`);
- `PluginsInvariance`, and from it `LibrariesLoadOnce`,
  `RegistryStaysTrue`, `NothingIsLeft`; `IdsKeepTheirLibrary` is an action property that no run checks.  The
  invariant adds that whatever is registered was given out before (`ListedIsOld`), so
  that a new id is in no list, and what is left of a call of several steps
  (`CallOK`): a shutdown ends with nothing loaded because what is loaded is always in what it has left.

`SearchProofs`, for any files, queries, limit, batches, capacity of the bus, retries and bounds:

- `IndexInvariance`, `IndexStaysRight`: `Kept(f)` splits the property in two: if nothing of
  the file is on its way (`Settled`) the writer has the origin's version in one document, and if no commit is pending
  and no batch under way the committed index has what the writer has.  That a file that is opened is settled again only after its write was
  heard needs `WritesFollow`.  What the writer has of a file is defined through the
  places of its documents (`At`), so that adding and deleting one leaves the others' alone;
- `NothingStaysUncommitted`, and `LinksStayTrue`, whose invariant (`LinksInv`) says that what stood for
  a link of a listing is still among the results kept of its query, at its place.

`TagServiceProofs`, for any rows, edits, batches, imports and channel size:

- `TaskInvariance`: reports, channel and items are in step (what was done is what
  was received, then what is in the channel, then at most the item at hand);
  `WorkStopsWithTheClient` and `ReportsTellTheTruth` follow;
- `EditsThatFitShow`: of every field but label, album type and cover, under `EditsFit`, that each edit's form has room for the
  fields it asks for, what was asked shows.  Without it the property is
  false, which `tags_json` shows; `DueInv` relates what is due to the row, through what each conversion carries;
- `HeadersSayTheRow`: of the conversions alone, for every row there can be.

`LibraryProofs`, for any files, tags, directories, requests and events (bar those named):

- `FilesAreReadable`: whatever ids the database gives out (the wrong ones that `db.rs:250`
  returns, those of purged rows, the running count of a failed upsert), the node and the fetcher get the same;
- `FilesDoNotVanish`: `NoFileLost`, assuming that the names of files are told from those of
  directories (`NamesApart`: say by an extension), that the directories renamed have no
  wide characters in their paths (`PlainMoves`), and without the gRPC scan, which inserts
  a file where its tags place it whatever is there.  `rename_directory` does not look whether its
  targets are free; that they are needs `Hierarchy`, that whatever is in the tree is below
  directories of the tree, so that nothing is below a new path where nothing is.  And `Hierarchy` is kept
  only if no file is where `mkdir_p` wants a directory, hence `NamesApart`;
- `FilesSurviveRemounts`: `FilesSurvive` under `NamesApart`; `Undisturbed`, that nothing but
  requests, mounts, crashes of a mounted daemon and restores that the daemon does not see
  happens; that no two files have the same derived path; and `PlainMoves`, without which
  the database puts files elsewhere than the tree does (section 3).  Most of the events left out make the property false (section 3): a crash in the
  middle of a scan is enough.  The inductive invariant is `Calm`, of which the parts that say most are:
  `Holds(ns, At)`, the files of the tree are those numbered, each where its row says, or where
  `unlink` has put it and not yet written (`fuse.pc = "path"`); `RequestOK`, the id a handler has looked up is
  still the file's when it takes the lock; and `Numbered`, either all files have
  rows and the connection has inserted none, or the files still to come have
  none.  That is what makes the upsert of a scan return the right id.
- `UserDirsSurviveRemounts`: `UserDirsSurvive` if moreover what users make is not below a directory
  that only files imply nor below one that is renamed (`DirsApart`; section 3 tells what happens otherwise).
  `Promised` says that all that is above a directory made is in the table, and `Recorded`
  that whatever of users' directories is in the tree, or above the path of a row, is in the table;
  between the two steps of `rmdir` nothing made is below what it removes.

All of them rest on `Shape(F, D)`: every path in the tree, the rows, the directories and
the requests under way is in `F` if a file's and in `D` if a directory's, for any
two sets that the operations do not lead out of (`Closed`); `FilesAreReadable` takes all
paths, the others those that `NamesApart` gives.  The lemmas on `Upto` and `Rebase` say what becomes of ancestors in a move.
The constants of `library_mount` satisfy the hypotheses of all four.  What `Rebased` does to a path, whatever its characters, is
a path again (`RebasedIsPath`), which is all that `FilesAreReadable` needs.

Only model-checked: what the hypotheses of the theorems leave out.

Out of the prover's reach, so left to TLC: the liveness properties (`DownIsNoticed`, `ReadsEnd`,
`ItSettles`, `FlightsLand`, `StopEnds`, `EvictionEnds`, `RestoresHappen`), and what a
recursive definition computes for all inputs (none is used).

## 5. Not modelled

PROJECT.json lists every component.  Left out for good: the input and output of
origin connectors, the byte formats of the handlers, query
parsing, collections (single statements on a table), configuration, metrics and path templates (pure functions or text), the delta
detector (it compares two listings, and nothing calls it), and
the test utilities.  Left out of what is modelled:

- reading operations of the tree and the filesystem change nothing;
- the SQL wildcards `%` and `_` and the case-insensitivity of `LIKE` in names;
- custom tags (nothing but tests writes them) and pictures;
- the values of tags: they are tokens, a date is as good as its year, and
  numbers parse; that ids change hands between a lookup and an edit of the command
  line (`cli/src/metadata.rs:357`), as `TagService` keeps files in their places;
- the streams of gRPC behind the service's own channel: a client is who reads from that;
- the trailing ID3v1 tag of an MP3 file but for where its audio ends, and the slice of three bytes that
  `has_id3v1_tag` takes at the end of the 64 kB it is given;
- several chunks per file, ranges, and the panic on a short chunk when
  verification is off;
- latencies of origins (which of equals is chosen is any), watch handles, S3 and SFTP;
- scores and fields of documents; the watcher's filters of paths;
- the prefetch engine's time patterns, `enabled` and `update_config`; the status files of `.prefetch`,
  whose hints `readdir` lists under other inodes than they are read by (`ops/prefetch.rs:113`, `:207`);
  that the range of inodes of `.search` begins below and includes that of `.prefetch`;
- back-off and cooldown times, and calls into plugins.

Nothing in `src` but tests calls the eviction policy, the task supervisor or the
delta detector, nor starts the prefetch engine: their models take the callers to
be any, and their properties are what a caller may rely on.

## 6. Plan

Every safety property of a passing run is stated by a theorem.  What could be proved beyond them is
`FilesSurvive` with restores that the daemon sees, while no other request renames the file.

Models that could still be added: several chunks per file in `ReadPath`, two gRPC
scans at once in `Library`, and ids that are reused under `TagService`.
