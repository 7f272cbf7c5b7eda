# A TLA+ model of postg-rs

`postg-rs` embeds PostgreSQL in a Rust program: it downloads a portable binary
into a cache, initialises a data directory, spawns `postgres` as a child
process, and stops it again. A CLI and a test macro are built on that, and a
crate that dumps a query to Parquet and restores a Parquet file through binary
`COPY`. This directory holds TLA+ models of those parts, the TLC runs that
check them on small instances, and proofs, checked by TLAPS, of what matters
most for instances of any size. Paths below are relative to the repository.

## 1. The system

| component | state it keeps | operations | interacts through |
|---|---|---|---|
| binary cache, `src/payload.rs` | the archive, the install directory and its marker, private `.extract-*` directories | `is_extracted`, `extract_payload` | the cache directory, shared by threads and processes without a lock |
| engine, `src/engine.rs` | `Postg { config, child }`, the data directory, the child process | `start` (`run_initdb`, `write_postgresql_conf`, `write_pg_hba_conf`, `spawn_postgres`, `wait_for_ready`), `stop`, `Drop` | the cache, the data directory (`PG_VERSION`, `postmaster.pid`), the TCP port, `pg_ctl`, `pg_isready` |
| config, `src/config.rs` | process id and counter in the temporary directory's name | `Default`, paths | everything |
| export, `postg-arrow/src/export.rs` and `dump` in `main.rs` | the buffer, the column builders, the row count, the Parquet file | `query_to_arrow`, the stream it returns | a PostgreSQL connection, the file |
| import, `postg-arrow/src/import.rs` and `restore` in `main.rs` | the buffer, the COPY in progress | `generate_create_table_ddl`, `arrow_to_table` | a PostgreSQL connection, the table |
| configuration file, `write_postgresql_conf` in `engine.rs` | `postgresql.conf`: a managed section between two mark lines, the user's lines around it | read, cut apart, written in place at each start | the data directory, shared with the user's editor and other starts |
| types, `postg-arrow/src/types.rs` | none | `pg_oid_to_arrow`, `arrow_to_pg_type` | export, import |
| CLI, `src/bin/postg/{main,cli}.rs` | none of its own | start, stop, status, query, serve, shell, dump, restore | a `Postg` per command |
| CLI, `sync` in `main.rs` | Spock's catalog in the database: extension, node, replication set, subscription | `init`, `publish`, `subscribe`, `status` | the database, the other nodes of the replication |
| HTTP API, `src/bin/postg/api.rs` | a connection pool | `get_tables`, `execute_query` | PostgreSQL |
| test macro, `postg-macros` | none | expands to a temporary `start`, the body, a drop | the engine |
| scripts, workflows | none at run time | build the archives | |

What is hard to test, and what would make each part correct:

* **Cache.** Every test of a binary calls `extract_payload` from its own
  thread, CLI commands from their own processes. Calls look for the marker,
  then act; truncate the archive another one reads; remove the directory
  another one published. Any step may fail, or be the last. Correct would be:
  an `Ok` means the binaries are there and stay there, the marker means a whole
  directory, an interrupted call harms no later one, somebody gets through.
* **Engine.** A server is reached by directory (`pg_ctl`) and by port
  (`pg_isready`), not by the child handle; directories and ports can be shared,
  by mistake or by reuse. Correct would be: `start` returns, and `Ok` means the
  own server answers; stopping returns, and ends the own server; a value that is
  gone leaves no server and no temporary directory; persistent data is never
  lost; a start works on an initialised directory, whatever was cut off before.
* **Configuration file.** Every start rewrites a file that the user edits too,
  in place and without a lock. Correct would be: one managed section, the
  user's lines kept in their order, the port of this start in force unless the
  user has set one below.
* **Cache and engine together.** Tests start at once on a cold cache; a
  directory that one call published and another removes takes `initdb`,
  `postgres` or `pg_ctl` away from an instance that is already past its
  extraction. Correct would be: every `start` returns, the engine is installed
  in the end, and whatever fails fails because of such a race and nothing else.
* **Export.** The stream is cut anywhere, the columns are described by another
  statement than the one that copies, text columns may hold bytes that are no
  text, and any await may fail. Correct would be: each row once, in order, in
  its own column, in full batches; a dump that can be read is whole.
* **Import.** Rows are sent in pieces, errors turn up late, the answer to the
  last message may be lost, and the user runs the command again. Correct would
  be: all rows or none, bounded memory, one copy per success; and what a dump
  wrote, a restore can read.
* **Sync.** A command is several statements without a transaction; one result is
  dropped, a run can end between any two, and other sessions go on meanwhile.
  Correct would be: success means done, a command left half done can be
  repeated, and `status` claims nothing that was not so.

`PROJECT.json` lists each hazard at its line with the properties that cover it.

## 2. Modules

| module | models | notes |
|---|---|---|
| `Payload` | `extract_payload`, one action per file-system step | `PayloadPromise` is its abstract specification, `MCPayload` its instances, `PayloadProofs` its theorems |
| `PayloadPromise` | what a caller counts on: each call ends, a success installs, nothing uninstalls | |
| `Engine` | `start`, `stop`, `Drop` of any number of instances, with the servers, ports and directories they share | `MCEngine`, `EngineProofs` |
| `ArrowTypes` | the type mappings, as functions | used by `Export` and `Import` |
| `System` | test binaries: `Payload` and `Engine` composed | `MCSystem`, `SystemProofs` |
| `ManagedConf` | `write_postgresql_conf`, several starts and the user on one file | `MCManagedConf`, `ManagedConfProofs` |
| `Export` | `query_to_arrow` and the writing of the Parquet file | `MCExport`; its theorems are in `RoundTripProofs` |
| `Import` | `arrow_to_table` and repeated restores | `MCImport`, `ImportProofs` |
| `Transfer` | abstract specification of a dump and its restore: rows read at one moment arrive at one moment | |
| `RoundTrip` | `Export`, then `Import` of the file it wrote; implements `Transfer` | `MCRoundTrip`, `RoundTripProofs` |
| `Sync` | the `sync` commands over Spock's catalog | `MCSync`, `SyncProofs` |
| `SequenceFacts` | | lemmas about the operators on sequences that the proofs share |

Definitions that begin with the comment `Wrong variant` are plausible bugs of
the definition after them. No specification uses them; each shows that a
property would notice the bug (`mutants` in `PROJECT.json`).

### Payload

`pc[c]` is the place of call `c` in `extract_payload`: `idle`, then `task` after
the first look at the marker (`Begin`), `probe`/`create`/`download` for the
archive (`Probe`, `Create`, `WriteBlock`, `Downloaded`), `tempdir`/`unpack`/
`mark` for the private directory, `swap`/`open`/`remove`/`rename` for putting it
in place, and `ok`, `err` or `crashed`. The archive is `NumBlocks` blocks, the
unit of one `read`/`write_all`; a writer keeps its own offset, so after another
`File::create` truncated the file its next write leaves a hole. Unpacking block
`b` makes file `b`; file 0 is the marker. Directories are named by the call that
made them, because `rename` and an opened `remove_dir_all` act on the directory
and not on the name. `remove_dir_all` is `OpenVictim`, one `Unlink` per entry in
any order, and `Removed`; its result is dropped, so `RemoveGivesUp` goes on to
the rename, which replaces nothing but an empty directory. Every error return
after `MakeTemp` drops the `TempDir` (`Abort`). `Fail` and `Crash` strike at any
step. Left out: the file name and URL of the archive, the progress bar, and
several engines (they share nothing).

### Engine

`pc[i]` is the place of instance `i` in `start`, `stop` or `Drop`; `srv[i]` its
child, from `boot` (spawned) over `locked` (holds `postmaster.pid`), `up`
(listens), `closing` (told to stop) to `exited` and `reaped`. `data[d]` says what
is in a directory: `partial` while initdb works on it, `cut` or `debris` what an
initdb that was killed, or a removal that stopped half way, leaves with and
without `PG_VERSION`, `ready` a whole cluster. `conf[d]` is the port its
configuration names. `pg_ctl` is `PgCtlSignals` (it signals whoever holds the
directory), then `PgCtlDone` or `PgCtlFails`; `target[i]` remembers whom it
signalled. `ResolvePort` takes any port nobody is bound to at that moment.
`Ready` is `pg_isready`, which anybody on the port answers; `GiveUp` is the
deadline, or the dropping of the future: the `?` of `start` then drops the
instance before it returns, so that the places of that `Drop` (`Undoing`:
`undo_ctl`, `undo_reap`, `undo_clean`) belong to `start`. An error return of `start` before the
`Postg` value exists (`StartFails`, `InitdbRefuses`, `DirLost`) cleans up
nothing, as there is nothing to drop. `InitdbFails` is a status that is no
success: of an initdb that has cleaned up after itself, or of one that was
killed and has not. `Clean` drops the error of `remove_dir_all`, which may stop
at any file (`Remains`), and `StopClean` clears `temporary` all the same;
`undeleted` remembers, for `GoneIsClean` only, whose removal failed. `Crash`
ends the program that holds the value, between any two steps. postgres and its tools are external:
`Lock`, `Bind`, `Exit` and `ServerDies` say how they behave. Left out: the other
settings of the configuration, `status`, the connections to the server.

### System

`System` declares the variables of both parts and instantiates them: Payload's
`pc` is `call` here, its calls are Engine's instances. A step of `System` is a
step of one part, or of both at once where they meet: `CallStep` is a step of
`extract_payload` while the instance is in it, `Extracted` needs the call's
`Ok`, `ExtractFails` its `Err`. Each step that runs a program needs its file
under the installed name (`Has`); without it `Command::new` fails (`NotFound`),
and `pg_ctl` reports failure (`PgCtl`). Which program comes out of which block
of the archive is a constant (`PartOf`). An `initdb` or a starting server also
needs the rest of the installation.

### ManagedConf

A file is a sequence of lines; the settings of start `w` are one line,
`Managed(w)`. `Read`, `Truncate`, `Write` are the steps of the function
(`NewContent` is the text it composes), `Interrupted` an error or a start that
ends inside the write; the user saves the file between and during starts. `mishaps` remembers
what the properties have to exclude: overlapping writers, a write that was cut,
a text that is not UTF-8 (read as empty by `unwrap_or_default`). `EffectivePort`
is the last port setting of the file, as PostgreSQL reads it.

### Export and Import

`wire` is the COPY stream, byte by byte, with the protocol's sizes; `Chunk`
delivers any number of bytes, and `Scan` follows the lengths in the buffer as
the code does, without looking past its end. `DecodeRow` appends to the
builders, `WriteBatch` and `WriteLastBatch` hand the arrays to `RecordBatch`
(whose checks are `ValidBatch`) and to the file. `Panic` stands for every index
and slice that could be out of range. A value is known by its row and column;
`Garbage` is a value decoded as something else. `Copy` may find other columns
than `Describe` did. In `Import`, `buf` and `sent` hold the numbers of rows;
`Commit` and `Reply` are the two halves of `finish()`, between which the answer
can be lost. `RoundTrip` gives `Import` the file that `Export` has written, with
the schema and the sizes of the values in it, and only if the footer was
written.

### Sync

One command runs at a time on a data directory (the second one's server cannot
lock it, and its `stop()` then finds the first one's: see `Engine`), so `pc` is its next statement. Statements are atomic,
as PostgreSQL runs each in a transaction of its own; between them `CreateTable`,
`OthersCommit`, `LinkChanges`, `Confirms` and `SubChanges` are the other
sessions and nodes. `RepsetCreate` drops its result, as the code does. A client
that streams from this node has a `position` in the log `wal`, and its lag is
`NULL` until it has confirmed one (`link = "null"`). The Spock functions and
catalogs, `pg_stat_subscription` among them, are external and behave as
`main.rs` uses them. When the command ends, its server goes, and with it every
connection (`Ends`).

## 3. Runs

Passing runs:

| run | instance | shows |
|---|---|---|
| `payload_concurrent` | 3 calls on the cache and 1 with its own archive, 2 blocks, all faults | `PublishesWhole`: a directory appears whole. `DamageNeedsRemoval`, `OkLasts`: only the removal of an old directory harms. `NoTempLeft`: errors leave no private directory |
| `payload_serial` | the same calls, one after another | `MarkerMeansWhole` and the refinement `ImplementsPromise`, through errors and crashes |
| `engine_isolated` | 2 temporary instances, own directories, shared ports, all faults and crashes, removals that fail | `GoneIsClean`, `ServedDirIsThere`; `Returns`: `start`, with the `Drop` in it, `stop` and `Drop` return |
| `engine_restart` | 3 instances in turn, one persistent directory, errors, killed initdbs and programs, `postg stop` from outside | `InitialisedBeforeSpawn`, `ReadyIsOwn`, `DataKept` |
| `engine_shared` | 2 temporary instances at once on one directory | `ReturnsOrWaitsInVain`: though each may initialise, lock or remove the directory under the other, `start`, `stop` and `Drop` return, or a `Drop` waits for a child nobody told to stop; `VainWaitNeedsAnother`: the latter only if `pg_ctl` stopped the other's server instead |
| `system` | 2 tests on a cold cache, with or without an older installation, no faults | `FailureNeedsRace`, `KilledNeedsRace`: the tests fail only by racing for the cache. `CachedArchiveIsWhole`. `StartReturns`, `EventuallyInstalled` |
| `conf` | 3 starts with a port each, 2 edits by the user, cuts and overlaps | `OneSection`, `UserTextKept`, `OwnPortCounts` |
| `import_retries` | 4 files, up to 4 runs, failures | `RowsComeWhole`, `OncePerSuccess`, `BufBounded` |
| `roundtrip` | tables of 0 to 2 columns and up to 3 rows, reshaped between describe and COPY, values that are no text, failures of both halves | `ImplementsTransfer`, `RowsInOrder` for the columns that stayed, `WholeOrUnreadable`, `PanicNeedsAlter`, `DumpIsRestorable`, `DumpEnds` |
| `sync` | 4 commands in any order, 2 tables, 2 clients, 2 commits, failures | `OkMeansDone`, `SyncedReport`, and `RefusedInitWasDone`: an init cut off between its statements can be run again until it is done |

Runs whose property, taken from a document or a comment, the code does not keep
(quoted in `findings`): `payload_poisoned` (a truncated archive stays in the
cache and every later call uses it), `export_uuid` (the dump reads sixteen raw
bytes as UTF-8).

Outside the instances of the passing runs more of these properties are false,
and TLC says so when the constants are changed: `MarkerMeansWhole` with
`Serial = FALSE` (one call removes what another published); `ReadyIsOwn` with
two temporary instances at once (both are given one ephemeral port, as
`resolve_port` lets go of it before `postgres` binds it, and the second takes
the first one's server for its own), or after a crash on the directory, whose
server may answer for the next one (`LeftBehind`); with `SharedDir` and two
instances at once `Returns` (the `pg_ctl` of the one whose
server could not lock the directory stops the other's, its own server takes the
lock that is free now, and `Drop`, also the one inside `start`, waits for it) and
`GoneIsClean` (`stop()` does not wait, and leaves that server running).
`InitialisedBeforeSpawn` and `GoneIsClean` name their exceptions: a directory
whose initdb was killed passes the look at `PG_VERSION`, and a removal that
failed is not repeated. In `ManagedConf` the user's lines do get lost
when a write is cut or overlaps another, or the file is not UTF-8: the
properties say that nothing else loses them.

`SyncedReport` says what the report does mean. It is weaker than its wording:
with no subscription and nobody connected `sync status` prints that everything
is synced, and a client whose lag is not known yet counts as one without a lag.

**Bounds.** Two blocks make a half-written, a half-unpacked and a half-removed
state different from both ends, and allow a hole. Three calls are needed for
the longest interference met (one removes what a second published while a third
returns `Ok`). Two instances are enough for every way to share a port or a
directory; three in a row let a start find what two others left behind.
Batches of two with up to three rows give an empty, a full, a full and a partial
batch; chunks of every length from one byte on give every cut. The shapes of
`roundtrip` are pairs to be altered into each other: a column more, a column
less, none, another type, one that cannot be dumped. `FlushAt = 25` makes one
row fit, two rows overflow, and one row overflow alone. Two tests race in every
way the cache allows: one looks, the other publishes, the first removes. Three
starts let a section be replaced, replaced again after an edit, and overlap.
Four commands are one of each kind, or a command repeated after a failure and a
success; two commits put a client behind, at, and past what a report looks at. All bounds are
constants; nothing else in the models is cut, except the number of runs of
`restore` and of commands (`MaxTries`, `MaxRuns`), the edits and commits
(`MaxEdits`, `MaxCommits`) and the sizes of values of variable length
(`SentSizes`).

**Deadlock** checking is off: all calls, instances and commands come to an end.

**Fairness.** `Engine!FairSpec`: the code's own steps and the servers' happen,
among them `GiveUp`, as `wait_for_ready` compares the clock in each turn of its
loop; what the user does, and faults, may never come. `System!FairSpec`: the
same of each instance, its extraction among its steps, as its thread is
scheduled by the operating system and no step of `extract_payload` waits for
another call. `RoundTripFairSpec`: the only thread of a dump goes on, and the
server sends what it has; a restore need never be tried.

## 4. Proofs

For every value of the constants that the modules' assumptions allow, TLAPS
checks:

* `PayloadProofs`, any interleaving and any faults: `TypeOK`,
  `DamageNeedsRemoval`, `OkLasts`, `NoTempLeft`, `PublishesWhole`. With `Serial`
  as an assumption also `MarkerMeansWhole`, `OkMeansUsable` and that `Payload`
  implements `PayloadPromise`; without it TLC refutes the first two. Without
  faults (`~Faults`) also `CachedArchiveIsWhole`, which a fault breaks
  (`payload_poisoned`), and `OnlyCallSucceeds`.
* `EngineProofs`: `TypeOK`, `DataKept` and `VainWaitNeedsAnother` without further
  assumptions, however directories and ports are shared;
  `GoneIsClean`, `ServedDirIsThere` and `CtlStoppedTheChild`
  under the assumption that instances have directories of their own (`OwnDirs`),
  without which TLC refutes them; `InitialisedBeforeSpawn` when no two starts are
  at one directory together (`OneAtATime`); `ReadyIsOwn`
  when each instance has its own directory and its own fixed port.
* `SystemProofs`: every behaviour of `System` is one of `Payload` and one of
  `Engine`, with the substitutions of its two `INSTANCE`s, in which each instance has a
  directory of its own. The theorems of the two modules are instantiated
  (`Cache`, `Servers`) and hold of the composition; with them `TypeOK`,
  `FailureNeedsRace`, `KilledNeedsRace` and `CachedArchiveIsWhole`, for any
  number of tests.
* `ManagedConfProofs`: `TypeOK`, `OneSection`, `UserTextKept` and
  `OwnPortCounts`, for any number of starts and edits and anything they
  leave in the file.
* `ImportProofs`: `TypeOK`, `SentInOrder`, `RowsComeWhole`, `OncePerSuccess`,
  `BufBounded`, for any files, sizes and number of runs.
* `RoundTripProofs`: of `Export`, for any shapes of the table, sizes of values,
  batches and chunks, `TypeOK`, `RowsInOrder`, `WholeOrUnreadable` and
  `PanicNeedsAlter`; of `RoundTrip`, that its dump is one of `Export`,
  `DumpIsRestorable`, and that it implements `Transfer` (`ImplementsTransfer`).
* `SyncProofs`: `TypeOK`, `OkMeansDone`, `RefusedInitWasDone`, `SyncedReport`,
  for any tables, clients, runs and commits.

The argument for the cache: none of the safety properties is inductive. The
invariant `IInv` adds what each place of the code knows: a call between
`unpack` and `rename` still has its private directory, which holds exactly the
files up to its position, and all of them from `mark` on, with the marker from
`swap` on; nobody else unlinks from it unless it was published. A directory is
damaged by its victim's remover only, so it is whole until somebody sets out to
remove it. When calls do not overlap, a call past `Recheck` knows that there was
no marker and nobody has put one there since. The refinement follows from the
serial invariant: the only steps that change `Usable` are `Publish`, which makes
it true, and removals, which find it false already.

The argument for the engine: with directories of their own, the holder of a
directory's lock is the instance's own child; a child lives only between `Spawn`
and the end of `pg_ctl` or `kill`; so at `stop_clean`, `drop_clean` and `undo_clean` the child
has ended before the directory goes, and a directory with a live child is whole
(`DirStays`). `DataKept` needs only that the directory
of a persistent instance is never one to remove, and that initdb refuses what is
not empty. `VainWaitNeedsAnother` needs that a server that was told to stop never
comes up again, and that `Drop` waits only after `pg_ctl` has found one (`Told`).

`InitialisedBeforeSpawn` needs to know, of an instance between `CheckVersion`
and `Spawn`, that its directory stays what it found or made (`Prepared`), which
only another start could change (`Exclusive`), and that `partial` is a directory
some initdb works on: whatever ends that initdb turns it into something else. `ReadyIsOwn` rests on the
configuration an instance wrote naming its own port until its server is gone,
so that nobody else's server ever binds it.

The argument for the import: `sent` followed by `buf` is always the sequence of
the rows before `next`, without a gap (`OrderInv`), so that a `Commit`, which
needs everything sent, adds exactly the file's rows; and the copies in the
table are at least the successes reported and at most the runs made
(`CountInv`). For `sync`: that a command has passed a statement implies what
the statement made, and nothing in the model takes it back (`DoneInv`); an
`init` is refused by `node_create` only, and there is no node without the
extension (`RefusalInv`); and while the report is being made, the
clients known to have no lag had confirmed a position not before `since`, which
positions, as they only grow, never fall behind (`SyncInv`).

The argument for the composition: `OnlyCallSucceeds` of `Payload` names the
other call when one fails (its invariant `Undisturbed` says what a call that is
alone still finds). An instance runs programs only after its own call returned
`Ok` (`Coupled`), so a program it does not find has been taken away since, and
only a call whose victim was published by another one does that (`Raced`). A
server that is up is killed only when `pg_ctl` was not found. `SInv` joins
these to the invariants of the two parts.

The argument for the configuration file: `OneSection` says nothing of what a
start has read and not written yet. `Sound` does, of any text: at most one begin
mark, an end mark only two lines behind it. What a start composes from a sound
text is sound and has its section, what a cut leaves of a sound text is sound,
and an edit keeps it so (`Orderly`, as long as no two starts overlap). For the
user's lines the file must also be closed, a begin mark having its end, which
only a mishap undoes (`Kept`); and the port is that of the section's line, as
whatever names a port behind it is the user's.

The argument for the export: the code trusts the bytes it finds behind the last
row it took, and the invariant says why it may. `Progress(n)`: `n` rows have
been decoded, what was consumed ends exactly where row `n` ends in the stream
(`Position`), each column holds the values of those `n` rows (`Values`), the
batch counter is what waits in the builders (`Counted`), and what was written
has the described columns (`Batches`). `ScanFinds` is the lemma it rests on: at
such a place the scan finds the end of each value if the buffer has it, and
`Short` otherwise, wherever the stream was cut, so that a row is taken whole or
not at all. Where a value's bytes are in the stream follows from lemmas on
concatenation (`OffsetNext`, `SequenceFacts`). A row is refused by a full batch
or by the decoder only if the columns are not those described.

The argument for the refinement: `FileIsSnapshot`: if the file can be read, all
rows were decoded and written, and value `r` of a faithful column is that of
row `r` of the snapshot. `Restored` says that a restore begins when the dump is
over, and that what it has sent, buffered and stored are the file's first rows.
So the snapshot is taken by `Copy`, `Commit` delivers all of it, `Reply` reports
it, and every other step of either part maps to a stutter.

What FlattenSeq and the scan compute for every sequence goes by induction. The
library's induction theorems take an operator as a parameter, which the provers
here cannot instantiate; `SequenceFacts` draws an induction over *sets* of
numbers (`InductionOnSet`) from the well-founded order of the numbers instead.

Only model-checked: the liveness properties `Returns`,
`ReturnsOrWaitsInVain`, `StartReturns`, `EventuallyInstalled` and `DumpEnds`, as TLAPS has no support for fairness here.
Of the two properties that runs refute (`CachedArchiveIsWhole` of `Payload` with
faults, `TextIsText`) there is nothing to prove.

## 5. What is not modelled

* The HTTP API: two handlers that keep no state and hand one statement to the
  pool each. What can go wrong between requests (a `BEGIN` left open on a
  pooled connection) is in the pool and the server, which are external.
* Argument parsing, logging, error texts, the connection string, `shell`,
  `query` and `status` beyond their start and stop, the build scripts and
  workflows, which keep no state at run time.
* Of `postgresql.conf` in `Engine` only the port (`ManagedConf` has the rest);
  of the archive only its blocks; of Spock only what the commands read and
  write.
* `stop()` leaves a child that `pg_ctl` ended unreaped. The models tell `exited`
  from `reaped`, but no property is about it: nothing in the code depends on it.
* What PostgreSQL does on a directory whose initdb was cut off: `Lock` and `Exit`
  let such a server come up or not.
* A process killed without `Drop` leaves its server behind, and its directory's
  name returns when its process id does. The models know crashes, not the reuse
  of process ids.
* A column that changes its type between describe and COPY gets values of the
  wrong type in `Export` (`Garbage`); the properties speak of the columns that
  kept theirs.
