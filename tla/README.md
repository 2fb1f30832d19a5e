# A TLA+ model of sqld

sqld serves SQLite databases over HTTP, WebSocket and gRPC, and replicates each of
them from one *primary* to any number of *replicas*. This project models the part
of sqld on which the durability and the consistency of the data depend: the log
the primary writes next to SQLite's own WAL, its compaction into snapshots, its
recovery, the replica that follows it, the backup of both to an object store, the
connections and protocols through which clients run transactions, and the store of
namespaces that ties a server together.

All paths below are relative to `src/sqld/src/` unless they start with `src/`.

## 1. Inventory

| Component | State it keeps | Operations | Status |
|---|---|---|---|
| Replication log of the primary, `replication/primary/logger.rs` | log header and frames on disk; uncommitted count; generation; notifier | `on_frames`, `on_undo`, `commit`, `rollback`, `maybe_compact`, `recover` | modelled, except checksums |
| Compactor and merger, `replication/snapshot.rs` | two threads, a rendezvous channel, a queue, the snapshots directory | compact a log, register and merge snapshots, unlink | modelled |
| Periodic compaction, `namespace/mod.rs` | none | `run_periodic_compactions` | modelled |
| Sentinel, shutdown and recovery, `lib.rs`, `logger.rs` | the `.sentinel` file | start, shutdown, recover | modelled |
| Replication service, `rpc/replication_log.rs`, `primary/frame_stream.rs` | `replicas_with_hello`; a stream per replica | `hello`, `log_entries`, `snapshot` | modelled, except `batch_log_entries` |
| Replicator task, `replication/replica/replicator.rs`, `meta.rs` | meta file, last applied frame, receive buffer | handshake, stream, snapshot download | modelled, except exhausted retries |
| Injector, `replication/replica/hook.rs`, `injector.rs` | the batch being injected, uncommitted pages | inject, pre and post commit | modelled, except failing injections |
| Namespace store, `namespace/mod.rs`, `fork.rs`, `admin_api.rs` | map of namespaces under one lock, a directory and a backup per namespace, deletions in the background | `with`, create, reset, destroy, fork | modelled, except restores of an old generation or a point in time |
| Connections, `connection/libsql.rs`, `program.rs` | a thread per connection, a transaction deadline | run a program, time out, roll back | modelled, except `describe`, `checkpoint`, memory pressure |
| Write proxy, `connection/write_proxy.rs`, `rpc/proxy.rs` | last written frame, state of the remote transaction | delegate a write, wait for replication, drop | modelled, except `describe`, `checkpoint` |
| hrana over HTTP, `hrana/http/`, `hrana/cursor.rs` | stream handles, batons, expiration and cleanup queues, a cursor's task and channel | acquire, release, drop, expire; the requests of a pipeline; stream a cursor | modelled, except the stateless v1 endpoints |
| hrana over WebSocket, `hrana/ws/` | streams, cursors and stored SQL of a session, a job queue per stream | handshake, hello, every request, responses, close | modelled |
| Bottomless backup, `src/bottomless/src/` | generation, frame counters, files to upload, the bucket | submit, copy and upload frames, checkpoint, snapshot, boot, compare, restore | modelled, except the C interface, compression and restores to an earlier point |
| Idle shutdown, `utils/services/idle_shutdown.rs` | counter and timer | kick, shut down | not modelled: ends the process, which other modules do at any step |
| HTTP and admin API, authentication, statistics | configuration and counters | translate requests | not modelled: no protocol of their own |
| Dump, migration, wire formats, bindings, command line | none | formatting, FFI, one-off file moves | not modelled: no state that outlives a call |

How they interact. A connection (a blocking thread) holds SQLite's write lock and
runs the hook of the log inside `on_frames`; it shares the log file, under an
`RwLock`, with the periodic compaction task and with every reader of the log. A
compaction hands the old log to the compactor thread over a channel of capacity 0
while the lock is held; the compactor hands the resulting snapshot to the merger
thread. Readers of the log (frame streams, forks) wait on a `watch` channel, the
notifier. On a replica the Replicator task feeds the injector thread over a channel
of capacity 1, and both write the meta file. A client of a replica talks to a
`WriteProxyConnection`: it reads on a connection of its own to the replica's database,
after waiting on the replicator's `watch` channel of applied frames, and calls
`ProxyService` on the primary for the rest, which keeps a throttled connection per
client in a map under one lock. hrana clients reach these connections through streams: over
HTTP a stream is parked between requests and found again by a single-use baton, and a task
expires it; over WebSocket each stream is a task with a queue of jobs. The hooks of the log
also drive the backup: a commit tells the copier task of new WAL frames, which become local
files and then objects in a bucket; a checkpoint starts a new generation. The namespace
store creates all of the above for a database, holding one lock, and a replica's
replication task calls back into the store to have its namespace reset.

What is hard here:

- SQLite's commit and the log's commit are two steps, and the notifier a third;
- a compaction exchanges two directory entries, and the compactor later removes one
  of them by its *name*;
- frames leave the log before the snapshot that is to hold them exists;
- a transaction may be rolled back after part of it was written to the log;
- the process may be killed at any of these points, and threads may die alone;
- a replica replays frames over a database that already has them, receives frames
  twice, and mixes a stream with snapshots;
- the state of one transaction is kept at four places (SQLite, the connection thread's
  deadline, `ProxyService.clients`, the replica's `state`), with timeouts, lost answers
  and dropped calls between them, and three locks are waited for on the way;
- a backup is objects that arrive in any order, of a WAL that is truncated and written
  anew while it is copied, and a boot has to find out which of disk and bucket is newer;
- clients of hrana leave in the middle of anything, use batons twice, and race the
  expiration of their streams; queues of capacity 1 and 8 couple tasks to each other;
- operations on namespaces fail half way, race deletions in the background, and call
  back into the lock they hold.

`PROJECT.json` lists these as hazards, each at its line.

Correctness, per component:

- *log*: it serves exactly what was committed, describes the database SQLite has,
  and never has a gap towards the snapshots;
- *compactor and merger*: a snapshot is the newest frame of every page for its
  range, whatever file is being reused meanwhile; a waiting writer is released;
- *recovery*: a new database id whenever the log does not continue the old one;
- *replica*: its database is the primary's at the frame it reports; what a reader
  sees was committed together; it catches up;
- *connections*: a statement runs in the transaction its client believes in or not at
  all; what failed is rolled back; the write lock is always given back;
- *write proxy*: a client's reads on the replica see its own writes; calls return;
- *hrana*: a baton is used once and the requests of a stream are serial; a cursor's body is
  complete; streams end and connections are given back, also those of clients that leave in the
  middle of anything, but not those of clients that stay and stop reading;
- *backup*: a restore yields a committed state, the last one once uploads are done; a snapshot
  can be restored with what follows it; everything is backed up in the end;
- *namespaces*: no operation loses or revives data, a fork is a state its source had, and
  every operation gives the store back.

## 2. Modules

```
Frames            frames, histories, databases
  FrameLog        what a primary promises to the readers of its log (abstract)
    Replication   a replica running against FrameLog
      ReplicationProofs  theorems about it
  Primary         the code that has to keep the promise (detailed);
                  INSTANCEs FrameLog as Promise
    PrimaryProofs the inductive invariant of Primary: types, the log is the history,
                  the log describes the database, snapshots are what their names say
      FrameLogProofs     no frame is lost, and Primary implements FrameLog
Extremes          sets of naturals have a least, and bounded ones a greatest element
Programs          programs of SQL statements, conditions, authorization
  Connections     connection threads and the SQLite they use
    WriteProxy    clients of a replica, the proxy service of the primary
      WriteProxyProofs   theorems about transactions, the write lock and reading
                         one's own writes
  Hrana           conversions, errors and cursors that both hrana transports share
    HranaHttp     streams, batons, expiration, the pipeline and cursor endpoints
      HranaHttpProofs theorems about it
    HranaWs       one WebSocket: session, streams, jobs, cursors
      HranaWsProofs theorems about it
Bottomless        the backup of a primary, and what a restore makes of it
Namespaces        the namespace store of a server (extends Frames)
  NamespacesProofs theorems about it
MCPrimary, MCReplication, MCWriteProxy, MCBottomless, MCHranaHttp, MCHranaWs,
MCNamespaces      the modules TLC runs
```

**Frames.** A frame is `[no, page, size, data]` as in `replication/frame.rs`. Page
contents are *versions*, naturals that grow with each page write: enough to see that
a content is stale, foreign or missing. `DbAt(h, n)` is the reference definition of
replaying a history, `Newest` of compacting one, `Dump` of what `recover` writes.

**FrameLog** is the abstract specification: a growing history, a notifier, a live
log holding the tail, a queue of logs that were swapped out, and snapshot ranges. It
is the environment of Replication, and what Primary is shown to implement, so that
the two halves of the system are joined by a checked interface.

**Primary** has one action per step at which other threads, or a kill, can come in
between. `wr` is the program counter of the connection inside `on_frames`
(`idle`, `txn`, `flushed`, `orig`, `committed`, `notified`, `sending`, `undo`), `pr`
of the periodic task, `cs` of the compactor, `ms` of the merger, `lock` the holder
of the write lock where it is held across steps. Disk state (`wallog`, `tempLog`,
`hdr`, `file`, `snaps`, `db`, `sentinel`) survives `Die`; the rest does not. Files
are inodes, because the code opens `temp_log` by name without truncating it and
exchanges it with `wallog`. SQLite is external: `txn` are its uncommitted pages,
`db` its committed database, and it admits one writer.

| Action | Code |
|---|---|
| `OnFramesSpill`, `OnFramesFlush`, `OnFramesFlushFails` | `on_frames`, `write_frame`, `flush`, `push_page` |
| `OrigFrames`, `OrigFramesFails` | the call of `orig` in `on_frames` |
| `LogCommit`, `Notify` | `ReplicationLoggerHookCtx::commit`, `ReplicationLogger::commit` |
| `OnUndo` | `on_undo`, `LogFile::rollback` |
| `WriterCompact`, `WriterNoCompact`, `PeriodicCompact` | `maybe_compact`, `do_compaction`, `run_periodic_compactions` |
| `Receive`, `PerformCompaction`, `RegisterSnapshot`, `RemoveLog`, `CompactorFails` | `LogCompactor::new`, `perform_compaction` |
| `MergerInit`, `MergerReceive`, `MergeSnapshots`, `UnlinkMerged` | `SnapshotMerger` |
| `SendFails` | the abort in `on_frames`; the error ending the periodic task |
| `BeginShutdown`, `EndShutdown`, `Start`, `RecoverLog`, `Kill` | `Server::start`, `init_sentinel_file`, `from_log_file`, `recover` |

**Replication** follows the same scheme: `rp` is the program counter of
`Replicator::run`, `st` the state of the primary's `FrameStream`, `inj` of the
injector. The primary's actions are those of FrameLog. The meta of the running
process and the meta on disk are different variables (`meta`, `mfile`): they differ
after a handshake, until the first commit writes them.

**Programs** has the pure part of the connections: what kind a statement is, which
programs only read, when a condition holds. A statement is what it does to a
transaction; SQL text, parameters and results are left out.

**Connections** models the thread behind a `LibSqlConnection`. `conn[k]` holds the
fields of the Rust `Connection` and the thread's progress, `inbox[k]` the callbacks in
its channel, `out[k]` the result in the oneshot. A step of a program is a step of the
model. SQLite is external: `snapshot`, `wrote` and `writer` are its read snapshot, the
transaction that has written and the holder of its write lock; every committed
transaction is one frame of `log`.

**WriteProxy** adds the client's side, the service and what they do to each other.
`pc[c]` is where the call of client `c` is. `Inject` and `OtherWrite` stand for
Replication and for the other clients of the primary. `acked` is a history variable.

| Action | Code |
|---|---|
| `Receive`, `ReceiveTimedOut`, `Timeout`, `Disconnected` | the loop in `LibSqlConnection::new` |
| `StepSkipped`, `StepRuns`, `StepFails`, `StepTooLarge`, `Finish` | `Connection::run`, `execute_step`, `execute_query` |
| `Execute`, `SyncDone`, `SyncFails`, `LocalDone`, `LocalUndone` | `WriteProxyConnection::execute_program`, `wait_replication_sync` |
| `ReplyOk`, `ReplyTooLarge`, `ReplyError`, `Break` | `execute_remote` |
| `RpcKnown`, `RpcNew`, `Create`, `CreateTimeout`, `RpcDone` | `ProxyService::execute`, `MakeThrottledConnection::create` |
| `Drop`, `Disconnect`, `DisconnectLost` | `Drop for WriteProxyConnection`, `ProxyService::disconnect` |
| `Store` | `DatabaseConfigStore::store` |

**Bottomless** keeps SQLite's main file and WAL as files of frames (`db`, `wal`, `mx`, `cm`),
the fields of the `Replicator` (`rep`), its copier task (`cop`), what waits to be put
(`files`, `deps`, `snaps`) and the bucket (`obj`). A page is the number of the transaction
that wrote it, a checksum the frame it is chained to. `Restored` is the whole restore as a
function of the bucket: the newest generation, the stack of generations it depends on, the
listing of batches in the order of their keys, the checksum chain, the pages of a
transaction applied when its commit frame is met. The properties compare it with `hist`,
the committed transactions.

| Action | Code |
|---|---|
| `Spill`, `WriteFrames`, `SubmitFrames`, `on_undo`, `on_savepoint_undo` | the hooks of `logger.rs`; `submit_frames`, `register_last_valid_frame` |
| `CopierLoad`, `CopierSwap`, `CopierOpen`, `CopierCopy` | the copier task of `with_options`, `WalCopier::flush` |
| `UploadFile`, `store_dependency` | the upload task, `store_dependency` |
| `CopySnapshot`, `PutSnapshot`, `PutChangeCounter` | the task of `snapshot_main_db_file`: the main file is copied page by page, while checkpoints may write to it |
| `on_checkpoint`, `CheckpointCommitted`, `CheckpointSnapshot` | `on_checkpoint`, `wait_until_committed`, `wait_until_snapshotted`, `new_generation` |
| `Boot`, `BootEnds`, `Crash` | `init_bottomless_replicator`, `restore`, `compare_with_local`, `upload_remaining_files`, `maybe_replicate_wal`, with their errors (`BootFails`): a restore that fails has taken the local files away |

**Hrana** has what `hrana/stmt.rs`, `batch.rs` and `cursor.rs` do for both transports: which
requests convert, which errors of the database become answers and which end the stream,
and a cursor as a record (its task, its channel of capacity 1, what is left to emit).

**HranaHttp**. `handles`, `expire_queue`, `cleanup_queue`, `expire_sleep` and `expire_waker`
are the fields of `ServerStreamState`; `call[c]` is the handler of one HTTP request, `conn[s]`
the connection thread behind a stream. `batons` are those clients were given: any of them
may be sent at any time, also twice at once.

| Action | Code |
|---|---|
| `Request`, `RequestNew`, `CreateStream`, `CreateFails` | `handle_request`, `stream::acquire` |
| `Close`, `Unknown`, `StoreSql`, `CloseSql`, `Submit`, `RunProgram` | `request::handle`, `LibSqlConnection::execute_program` |
| `Respond` | the end of `handle_pipeline`, `Guard::release`, `encode_baton` |
| `OpenCursorStream`, `RunCursor`, `EmitEntry`, `EndProgram`, `EmitError`, `PollNext` | `handle_cursor`, `run_cursor`, `CursorStream::poll_next` |
| `Disconnect` | hyper drops the handler or the body: `Drop for Guard` |
| `Tick`, `pump_expire` | the clock, `run_expire` |

**HranaWs**. `streams`, `cursors` and `sqls` are the maps of `Session`, changed when a request is
received; `task[k]` is the task of a stream with its queue, `sending` the job the connection's
task cannot queue yet (nothing else happens on the connection meanwhile), `cur` the tasks
of cursors, `resp` the response of each request. A client that leaves (`ws = "left"`) is noticed by
`handle_ws` only at its `select!`.

| Action | Code |
|---|---|
| `Handshake`, `Hello`, `RequestBeforeHello`, `BadMessage`, `SendResponse` | `handshake.rs`, `conn.rs` |
| `Leave`, `Disconnect` | the client goes; `ws.recv` or `send_msg` fails in `handle_ws` |
| `Refuse` | every early return of `handle_request` |
| `OpenStream`, `CloseStream`, `Execute`, `StoreSql`, `CloseSql`, `OpenCursorOn`, `CloseCursor`, `FetchCursor`, `Unblock` | the arms of `handle_request`, `stream_respond` |
| `TakeJob`, `CreateConnection`, `AnswerClose`, `SendProgram`, `StartCursor`, `StopCursor`, `FetchEntry`, `EndTask` | `stream_spawn` and the closures of the jobs |
| `RunCursor`, `EmitEntry`, `EndProgram`, `EmitError`, `RunProgram`, `ThreadEnds` | `run_cursor`, the connection thread |

**Namespaces**. Every operation holds the lock of the store, so there is one `op` with a program
counter; a server is a primary with or without backups or a replica (`config`). A directory
is the database, its log and snapshots. `want[n]` is a history variable: what clients may
find in `n`. Change counters and frame counts are not kept here: which of the two `compare_with_local`
prefers, the database on disk or the backup, is the choice `Keeps`, open if `Overrules`.

| Action | Code |
|---|---|
| `With`, `WithLoad`, `Create`, `Destroy`, `Reset`, `ForkFrom` | the operations of `NamespaceStore`, asked for by `admin_api.rs` and by every request of a client |
| `PutTombstone`, `RemoveDir`, `CommitDeletion` | `PrimaryNamespaceMaker::destroy`, `delete_all`, `DeleteAll::commit` |
| `CreatePrimary`, `LoadDump` | `new_primary`, `init_bottomless_replicator`, `ReplicationLogger::open`, `load_dump` |
| `BeginFork`, `CopyLoop`, `ReadFrame`, `ReadSnapshot`, `Rename`, `Cleanup` | `ForkTask` |
| `CreateReplica`, `ReplicatorTask` | `new_replica`, `Replicator::new`, `run`, `handle_replication_error` and the reset callback |
| `Fault`, `Crash` | a failing file or S3 call, a kill |
| `Commit`, `Compact`, `Persist`, `Upload`, `PrimaryChanges` | clients, the compactor, the backup, the primary: external, or as in their own modules |

Operators whose names start with `Mut` are mutated forms of definitions; nothing
uses them in the specifications. Each property has one that breaks it.

## 3. Runs

Passing runs:

| Run | Question | Checked |
|---|---|---|
| `primary_core` | is the promise to readers kept, with one kill or failing I/O call anywhere and a recovery, and is a writer that waits for the compactor always released? | `TypeOK`, `ServedFramesAreHistory`, `LogMatchesDatabase`, `SnapshotsFaithful`, `NoGap`, `ImplementsFrameLog`, `HandoverReturns` |
| `primary_restarts` | does a start pick up the log a shutdown left, with shrinking transactions and compaction by age? | `ServedFramesAreHistory`, `LogMatchesDatabase` |
| `replication_crash` | streaming, a compaction, a snapshot, and the replica killed at any step | `TypeOK`, `CaughtUpIsExact`, `ReadsAreCommittedStates`, `Converges` |
| `replication_faults` | two disruptions (a broken connection, a killed replica, a primary that restarts or rebuilds its log), with merges and full buffers | `PagesAreHistory` |
| `proxy_core` | one client whose transactions span programs, with other writers, timeouts, results that are too large and one disruption (a broken connection, a lost disconnect, a restart of the primary, a replicator that stops, a changed configuration) | `TxnStaysWhole`, `NoTxnBehindReads`, `BatchRollsBack`, `ReadYourWrites` |
| `proxy_live` | two clients, with programs that write and read, and the three things they wait for: the lock on `clients`, a permit, SQLite's write lock | `WriterIsLive`, `CallsReturn`, `TxnsEnd` |
| `bottomless_core` | objects put in any order, one put that fails, a kill at any step, with or without the disk: is a restore a committed state, complete when uploads are done, and is everything backed up in the end? | `TypeOK`, `RestoresCommittedState`, `QuietBackupIsComplete`, `EventuallyBackedUp` |
| `bottomless_checkpoint` | a checkpoint against the copier, the snapshot task of the boot before it and a transaction that spilled: does the newest generation restore to a committed state no older than its snapshot's main file? | `SnapshotIsRestorable` |
| `hrana_http` | three HTTP requests, two at a time, on two streams: batons used twice, clients that leave or stop reading, cursors, expiration | `TypeOK`, `HandlesMatch`, `CursorIsComplete`, `RequestsAreSerial`, `StreamsEnd` |
| `hrana_ws` | five requests of any kind on one WebSocket, job queues of one, clients that leave | `SessionMatches`, `InOrder`, `Answered`, `Released` |
| `namespaces` | three operations on two namespaces of a primary or a replica, with commits, compactions, uploads, deletions in the background and one failing call or kill | `NamespacesAsAsked`, `ForkIsCommitted`, `OperationsReturn` |

One run must be found violated, `namespaces_replica`: on a replica `ReplicaOperationsReturn`
does not hold. The handshake of a new `Replicator` runs inside `create` or `with`, under the
lock of the store, and calls back into `NamespaceStore::reset` or `destroy`, which waits for
that lock. `PROJECT.json` quotes the lines.

The passing runs are bounded so that the following does not happen; what they show is
therefore exactly: *outside these cases the property holds*. Each case is a
disagreement between the code and what it, or a document, says, and shows when the named
bounds are changed.

*The log of the primary.*

- `CompactorAlive` is violated with `MaxLogFrames = 0`, `MaxFaults = 0`: two compactions in
  quick succession share `temp_log` (`logger.rs:581`), and the compactor thread ends although
  nothing failed, against the "backpressure" of `snapshot.rs:175`;
- `NoGap` is violated with `Shrinks = TRUE`, `MaxLogFrames = 0`, `MaxFaults = 0`: a database that
  shrinks makes the merger merge a single snapshot, whose result has the name of its input
  and is removed with it (`snapshot.rs:332`);
- `primary_core` with a clean shutdown allowed (`MaxShutdowns = 1`) violates
  `LogMatchesDatabase`: the sentinel goes while a connection still commits, and after a
  kill in that window nothing recovers the log. With `MaxLogFrames = 0`, and no kill, it
  violates `SnapshotsFaithful`: the log in the compactor is lost at the shutdown, and a
  later merge claims its range;
- `primary_core` with `HasDuration = TRUE`, `MaxLogFrames = 0`, `MaxFaults = 0`
  violates `NoGap`: the periodic task compacts between a transaction's log commit and
  its own `maybe_compact`, which does not check for an empty log; the snapshot is named
  `u64::MAX` to 0, and a merge with it gets a range that ends at 0.

*Replication.*

- `MonotonicReads`, which no run checks, is violated without any fault with the bounds of `replication_crash`,
  `MaxCrashes = 0` and `MaxFiles = 2`: `load_snapshot` (`replicator.rs:271`) asks for the frame after the last *applied*
  one while received batches are queued; the snapshot holds older pages, is injected after
  them and takes these pages back for good. `src/docs/CONSISTENCY_MODEL.md:15`: "reads on a
  replica are monotonical". It is also violated by a replica that restarts and replays the log
  from its beginning;
- `CaughtUpIsExact` holds with one disruption of any kind and no compaction (`MaxFiles = 0`,
  `MaxVer = 5`, `MaxRestarts`, `MaxRecoveries`, `MaxCrashes` and `MaxBreaks = 1`, `MaxDisruptions = 1`); with
  `MaxFiles = 1` it does not, for the same reason, and with `MaxDisruptions = 2` it does not
  because frames are sent again after a first reconnection, and a second one computes
  its offset before the repeated batch takes the last applied frame number back;
- `replication_crash` with `MinFirst = 1` violates `Converges`: a transaction of frame
  0 alone is never committed on the replica;
- a replica that has committed nothing yet is rejected as `Lagging` when the primary
  restarts, because the meta of a first handshake holds `FrameNo::MAX`.
  (`post_commit_frame_no`, of which a comment in `meta.rs` says that it is checked on
  startup, is never read.)

*Connections and the write proxy.*

- `ReadsReturn` is violated (`proxy_core`'s bounds, `MaxCalls = 2`, no events, no other writes,
  `FairSpec`): the primary answers with the number of the *next* frame, the replica
  announces the *last* it applied (`write_proxy.rs:257`), so a read after one's own write waits
  for somebody else's write, not "for the replicator to have caught up" (line 246);
- `OnlyOpenTxnsTimeOut` is violated (same bounds, `Spec`): nothing clears a transaction's
  deadline (`libsql.rs:301`), the connection times out in autocommit mode and refuses
  everything from then on;
- a program of a begin, a write and a read, which `proxy_live` has, may keep the write lock for as long as
  its client says nothing: a result that is too large leaves `run` (`libsql.rs:297`) before the deadline is
  set, and no later program of the transaction sets it. `TxnsEnd` names this
  case (a client in state `Invalid`, a transaction without deadline) and does not hold without it;
- `proxy_core` with `FreshReplica = TRUE` violates `ReadYourWrites`: until a replica
  has applied its first frame it announces `FrameNo::MAX`, which no write is ahead of;
- `TxnStaysWhole` without `~restarted` does not hold: a primary that restarted gives a
  client it does not know a new connection, so the next statement of its transaction
  is committed on its own.

*The backup.* `BaseUploaded`, `Undisturbed` and `cnt.checkpoints = 0` in the properties name
exactly what the code does not cover:

- after a restart a generation is a `.dep` on the one before until its snapshot is uploaded.
  A second restart in that window violates `BootsCommittedState` (`MaxRestarts = 2`): the batches of
  the two generations are applied as one;
- `BootKeepsCommits`, which no run checks, is violated with `NPages = 2`, `MaxTxns = 3`, `MaxCheckpoints = 2`,
  `MaxRestarts = 1`, `MaxFailures = 0`, `LosesDisk = FALSE`, `BatchLen = 4`: a kill while the copier writes a batch
  leaves a file without content for frames 1 to 2 of the newest generation; the boot uploads it, finds equal change
  counters and a shorter WAL on the disk than the bucket claims to have (`src/bottomless/src/replicator.rs:1127`),
  and restores the bucket over a transaction that only the disk had;
- a snapshot task copies the main file while the next checkpoint may write to it
  (`src/bottomless/src/replicator.rs:688`), which only waits for the task after its own writing: the snapshot is then
  a mixture. `SnapshotIsRestorable` is stated up to that write;
- a restore that fails has renamed the database and removed the WAL before (`src/bottomless/src/replicator.rs:994`): the next
  boot finds the part of the database that was restored;
- a batch can be in the bucket before its `.meta`; if the disk is lost then, the next boot
  restores nothing and may write the same keys again;
- a checkpoint truncates the WAL before the copier has read it: `wait_until_committed` is called
  after `xCheckpoint` (`logger.rs:206`, `239`). The frames are then read from the new WAL, or not
  at all. `last_committed_frame_no` is a `watch` that keeps its value across generations,
  so the wait may also return for an older generation's frames;
- the copier loads `next_frame_no` and swaps `last_sent_frame_no` in two steps (`replicator.rs:323`); a
  `reset_frames` in between leaves the old count in place;
- `WalCopier` caches the header of the WAL: the `.meta` of a generation after a checkpoint can
  hold the checksum of the WAL before it;
- a rollback to a savepoint after a spill, and `maybe_replicate_wal` at a boot, submit frames of a
  transaction that has not committed (`cnt.early`); the latter subtracts 1 from a frame count that
  may be 0;
- a snapshot reads the main file later than the change counter that is put with it;
- a fresh generation without data never announces a snapshot, so the first checkpoint's
  `wait_until_snapshotted` waits for good if a snapshot is due;
- a kill while a batch is written leaves a file without content that the next boot uploads;
- with `ListLimit = 2`, `BatchLen = 1` `QuietBackupIsComplete` is violated: the cache of pending pages
  and the last frame number are made anew for each page of the listing
  (`replicator.rs:1197`), so a transaction that spans two pages of it is not restored.

*hrana.*

- `ProcessedInOrder` is violated, for clients that wait for nothing too: the program of a cursor
  is sent by the cursor's task when it gets to run, and a later request of the stream may be
  first. `src/docs/HRANA_3_SPEC.md:577`: "the server must process requests related to a single
  stream id" in order. `InOrder` therefore leaves the batches of cursors out, and over HTTP
  `RequestsAreSerial` does: the cursor endpoint releases the stream before its batch runs;
- `FailedCursorIsKnown` is violated: a cursor id that `open_cursor` could not open is not kept,
  and `fetch_cursor` or `close_cursor` for it closes the connection (`HRANA_3_SPEC.md:437`);
- over HTTP, a batch whose SQL does not parse ends the stream with an internal error, where
  over WebSocket it is an answer; after expiry and cleanup a client that did everything
  right is told that its baton is invalid; a client that leaves in the middle of a
  cursor's body ends the connection's thread while the stream stays available;
- over WebSocket, protocol errors of requests and a connection that cannot be opened end the
  socket without a close frame or an answer; a request on a stream with an open cursor
  waits until the socket closes if nobody fetches (`rude` in `Answered`), and once the stream's
  queue is full the whole connection waits with it. A client that leaves then is never noticed, because
  the socket is not polled while `job_tx.send` is awaited (`hrana/ws/conn.rs:121`, `hrana/ws/session.rs:427`): its database
  connection is leaked. `Released` names this case as `Stuck` and does not hold without it;
- over HTTP, a client that keeps the body of a cursor open and does not read it holds the thread of the
  connection, and through it the stream, for good (`hrana/cursor.rs:112`): nothing times out. `StreamsEnd` names this case as
  `UnreadBody`, and does not hold without it.

*Namespaces.*

- `ForksOver = TRUE` violates `NamespacesAsAsked`: only loaded namespaces are looked at before
  a fork (`namespace/mod.rs:307`), so a fork onto one that exists but is not loaded replaces or,
  if it fails, deletes it;
- `Strays = TRUE` violates it too: with backups, naming an unknown namespace creates it, because
  the directory is made before `try_exists` is asked (`namespace/mod.rs:555`: "There wasn't any
  database to recover from bottomless, and we are not allowed to create a new database");
- `Overrules = TRUE` violates `NamespacesAsAsked`: `compare_with_local` may prefer the backup to a newer database on
  disk (`src/bottomless/src/replicator.rs:1127`, `1134`; the case of `BootKeepsCommits` above), and opening a namespace after a
  kill then loses what was committed in it;
- `Zombies = TRUE` violates `ForkIsCommitted`: a connection whose namespace was unloaded and loaded
  again writes to the database but to a log nobody reads;
- a reset of a primary without backups leaves an empty namespace; a failed dump leaves a part
  of it, which the next `with` loads; a destroy that fails at the tombstone leaves a
  namespace that is out of the store with its files in place, and what then
  opens it again writes next to connections that still use the old log;
- `DeleteAll::commit` leaves the tombstone behind when it lists no generation, and lists
  by a prefix that other names may share;
- two deletions of one name that overlap violate `NamespacesAsAsked`, from four operations on (the runs
  have three): a namespace is destroyed, created again, written, uploaded and destroyed again
  while the first `DeleteAll` is still removing what it listed. When that one is done it removes the
  tombstone of its name (`src/bottomless/src/replicator.rs:1577`), which is now that of the second destroy; until the second
  task has removed the generation, a create restores the data that was destroyed.
  `delete_all` promises otherwise (`src/bottomless/src/replicator.rs:1452`: "Marks current replicator database
  as deleted, invalidating all generations"). TLC showed it, in the search for the invariant of section 4.

Bounds, and why they are enough:

- two pages in Primary and Replication: one that a transaction writes and one it does not, which is what a
  snapshot, an overlay or a rollback can mix up; one page in `replication_faults`,
  whose property is about single pages;
- `MaxTxnLen = 2`: a first and a last frame, so a transaction can be cut;
- `MaxVer` bounds all page writes, three to five (frames of two or three
  transactions): two transactions and a rolled back one, or a transaction before, during and after a compaction;
- `Slots` bounds a log file at what these transactions can write;
- `Inodes = 1..3`: the live log, the one in the compactor, the one waiting for it.
  The lock is held while one waits, so there is no fourth;
- in `proxy_core`, one client, four calls (a transaction in three, and a read), one
  write of somebody else (a stale snapshot, and the frame a read waits for), and
  `MaxEvents = 1` (with 2 the run passes too: 8.9 million states, some minutes);
- in `proxy_live`, two clients and four calls: one who holds the write lock, one who
  holds the lock on `clients` and fails on the write lock, and the first one's next
  call behind it; a permit may be taken by a third party. Programs write, and read with a result that
  may be too large, in a transaction that the next program commits;
- in `bottomless_core`, two pages and two transactions in batches of two frames (a batch of
  two transactions, a transaction in two batches), three generations (before and after a
  restart, and one more for a restore), one failing put; `bottomless_checkpoint` starts with a database
  that has content (`Seeded`), so that the boot has a snapshot to make and the checkpoint meets its task; two pages,
  so that a copy can be torn, one spilled frame, one transaction, and batches that hold all of it;
- in `hrana_http`, two concurrent requests on two streams: a baton used twice at once, a request
  against the expiration, a cursor next to a pipeline. `EXPIRATION` and `CLEANUP` are 0: they are
  rounded up to the next second, and only the order of instants matters. `SeqWrap = 3` lets
  sequence numbers wrap. A cursor has two entries, so that the second finds the channel full;
- in `hrana_ws`, five requests: a stream, a cursor on it, and three that meet it; a queue of one
  instead of eight, so that one request is with the stream's task, one in the queue, and the third one waits;
- in `namespaces`, two names (a source and a destination), three operations (destroy, create again,
  and one that meets the deletion in the background), one compaction, three page
  versions;
- one fault in the runs that check the strongest properties: the code's recovery
  does not remember earlier faults, except through the disk;
  `replication_faults` covers two disruptions.

Deadlock is checked in the runs of Primary, Replication and WriteProxy, where `Idle` names the
states in which the system may rest; everything else must be able to move. In the other
runs the system stops when clients have used up their bounds, so deadlock checking is
off, and liveness properties (`EventuallyBackedUp`, `StreamsEnd`, `Answered`, `Released`,
`OperationsReturn`) say what must have happened by then. `bottomless_checkpoint` is the
exception: it has no liveness property, because of the waits listed above.

Fairness. `primary_core` assumes weak fairness of the compactor thread's own steps
and of a send to a thread that is gone returning: threads of the operating system
run, and a channel whose receiver was dropped reports it. The writer, the clients,
kills and restarts are not fair. `replication_crash` assumes weak fairness of the
replicator task, of the injector thread and of the two steps by which the primary
makes committed data available (`Publish`, `Persist`), and nothing of commits,
compactions and restarts. The runs of WriteProxy assume weak fairness of connection
threads (so that deadlines and SQLite's busy timeout elapse), of the tasks of a call on
both sides and of the replicator. Clients may stop at any point: no call, no drop, no
write of anybody is assumed. Bottomless assumes weak fairness of the copier, of each kind of
put (a put may fail, but it ends), of a commit's and a checkpoint's own steps and of the end
of a boot, not of transactions, checkpoints, crashes or starts. HranaHttp assumes that time
passes, that a woken task is polled, and that handlers, tasks and threads of the server
go on as long as any of them can; clients need neither read a body (`PollNext`) nor leave
(`Disconnect`). HranaWs assumes weak fairness of the server's tasks and threads together, among
them that `handle_ws` notices at its `select!` that a client has gone, and none of the client. Namespaces assumes that the operation that holds
the lock goes on and that the compactor writes its snapshots.

## 4. Theorems

Every theorem is proved for all values of the constants that the named assumptions of the
modules allow: databases, transactions, logs, buffers and queues of every size, any number of
clients, requests, restarts and failures. TLC evaluates the assumptions in the runs. The maxima of the types of frame
numbers are not constants: `U64Max` and `FrameNoMax` are 999, standing for 2^64 - 1, and where a theorem has a hypothesis or
an assumption on them, sizes are those whose frame numbers stay below.

| Module | Theorem | States |
|---|---|---|
| `PrimaryProofs` | `TypeCorrect` | `Spec => []TypeOK` |
| | `LogServesHistory` | `Spec => []ServedFramesAreHistory` |
| | `LogDescribesDatabase` | `Spec /\ [][~LostCommit]_vars => []LogMatchesDatabase` |
| | `SnapshotsAreFaithful` | `Setting /\ Spec /\ [](next <= U64Max) => []SnapshotsFaithful` |
| `FrameLogProofs` | `NothingIsLost` | `Policy /\ Spec /\ [](next <= U64Max) => []NoGap` |
| | `PrimaryImplementsFrameLog` | `Policy /\ Spec /\ [](next <= U64Max) => ImplementsFrameLog` |
| `ReplicationProofs` | `ReplicaTypes` | `Spec => []TypeOK` |
| | `ReplicasNeverMixDatabases` | `Spec => []PagesAreHistory` |
| `WriteProxyProofs` | `LockIsLive` | `Spec => []WriterIsLive` |
| | `TransactionsStayWhole` | `Spec => []TxnStaysWhole` |
| | `ReadsAreOutsideTransactions` | `Spec => []NoTxnBehindReads` |
| | `FailedBatchesRollBack` | `Spec => []BatchRollsBack` |
| | `ReadsSeeOwnWrites` | `~FreshReplica /\ Spec /\ [](Len(log) < FrameNoMax) => ReadYourWrites` |
| `HranaWsProofs` | `SessionAgrees` | `Spec => []SessionMatches` |
| | `RequestsRunInOrder` | `Spec => InOrder` |
| `HranaHttpProofs` | `HttpTypes` | `Spec => []TypeOK` |
| | `StreamsAgree` | `Spec => []HandlesMatch` |
| | `BodiesAreComplete` | `Spec => []CursorIsComplete` |
| | `RequestsSerial` | `MaxCalls <= SeqWrap /\ Spec => RequestsAreSerial` |
| `NamespacesProofs` | `ForksAreCommitted` | `~Zombies /\ Spec => []ForkIsCommitted` |
| | `NamespacesAreAsAsked` | `~ForksOver /\ ~Strays /\ ~Zombies /\ Spec /\ []OneDeletion /\ []LocalWins => []NamespacesAsAsked` |

None of these properties is inductive. Each proof has its inductive invariant, a lemma per action
(actions that touch nothing the invariant is about share one), and lemmas about the operators
the model is built from.

**The log of the primary** (`Inv`, from `PrimaryAssumption` and `FramesAssumption`).
`ServedFramesAreHistory` speaks of a running process only, and a start reads the log back from
the disk; a compaction resets the log while a transaction might be under way; the file the new log
goes to may hold old frames. The invariant adds

- `Bounded`: committed and uncommitted frames fit the file, and a process that is down has no
  uncommitted ones;
- `OnDisk`: the header of the file behind `wallog` and its first `count` slots are the live log,
  and equal the history, also while the process is down;
- `Handover`: a log is on its way to the compactor only while its sender holds the lock;
- `Flushed`: a commit that was flushed has frames in the log.

It rests on no assumption about SQLite other than the guards of the writer's actions.

**The log and the database** (`DInv`). SQLite and the log commit in separate steps. What carries
the agreement through a transaction is that the frames behind the committed ones hold exactly the
pages SQLite is going to commit (`Buffered`), that they and the database cover the new size
(`Covered`), and that between the two commits the database is what the log describes
together with these frames (`Pending`); `Phases` says at which program counters there are such
frames. `LostCommit` is a kill between the two commits while the process shuts down, when the
sentinel is gone already: the code does not cover it (section 3), and it is the only step the
theorem excludes. Kills elsewhere, recoveries, failing calls, rollbacks and databases that shrink
are covered. `Describes` is `DbAt` page by page; `DescribesDbAt` shows that they agree.

**Snapshots** (`SInv`). The compactor reads a file by its inode while the writer may have been given
the same file for its new log: the log it reads must still be there (`Closed`). The merger gives
its result the range from the first name of its list to the last, so the list must have no holes,
also when it was read from the directory while the compactor was writing to it and the same names
arrive a second time (`Linked`, `Directory`, `Reaches`). `NewestOfNewest` shows that compacting
compactions of overlapping or adjacent stretches is compacting what they make up. `Setting` (no
compaction by age, no clean shutdown) and `next <= U64Max` exclude cases for which section 3 has
counterexamples or that wrap; kills and failures of every step are covered.

**The promise to readers** (`VInv` and `GInv` next to the three above). A merge removes its inputs by their names, so
`NoGap` rests on the merger never removing what it has just written: a list that is merged has two names
or more (`LongEnough`), a name that is in it twice dooms the merge instead (`Listing`), and while inputs are removed the
result, which has none of their names, is there (`Unlinking`). A single snapshot is not merged because it has no more
frames than the database had pages (`Sizes`, `Registered`): that is where `Policy` comes in, which adds to `Setting` that
databases do not shrink (section 3 has the counterexample) and that the amplification is at least 2 and at least one
snapshot is kept (2 and 32 in the code). `ImplementsFrameLog` is proved in full: the initial state maps to one of FrameLog, and each action of
Primary, kills and recoveries included, to a step of FrameLog or a stutter under the mapping of `Promise`. A
commit of the log is one `Commit` there because the frames behind the committed ones are those of one transaction
with consecutive versions (`Transaction`, `Versions`); a recovery that finds SQLite one transaction ahead
of the log is one `Recover` because the database is what the log describes with just that transaction more
(`Recoverable`). Replication, which is checked and proved against FrameLog, thus stands on the detailed primary.

**A replica** (`PInv`, from `ReplicationAssumption` and `FrameLogAssumption`). Frames are on their way in four places (buffer,
channel, batch, uncommitted pages) while the primary may rebuild its log. An id of a database
is never given twice (`Ids`); the replica keeps it for as long as it has anything of that database
(`OneDatabase`, `Started`); it is on file before the first page is committed (`Recorded`); what is on its
way, and what is committed, is in the log with that id (`Follows`, `Committed`). The assumption
`MaxPage + MaxVer < FrameNoMax` keeps frame numbers below `FrameNo::MAX`, which the code uses for "none".

**Transactions through the proxy** (`Inv` of `WriteProxyProofs`, from `ProgramsAssumption`: programs are
sequences of statements). What a client believes of its transaction travels: the thread puts it into `out`,
`execute` into `reply`, `execute_remote` into `state`. Agreement holds at each of the three places
and nothing is left in the inbox that would change the connection meanwhile; a callback
whose caller has gone may be left there, but then the thread ends before it gets to a later one. The
theorems cover any number of clients, other writers, timeouts, lost disconnects, broken calls;
`TxnStaysWhole` itself leaves out clients of a primary that restarted (section 3).

**Read your writes** (`RInv` next to `Inv`). A frame number takes four hands: the answer bounds the client's
newest frame (`AnswerIsNewest`), `last_write_frame_no` bounds the answer (`WaitsForWrites`), the announcement of
the replicator bounds that (`Announced`), and the snapshot of a read, taken after the announcement, bounds them all
(`LocalReads`). `~FreshReplica` is the case of section 3; `Len(log) < FrameNoMax` says that numbers do not
reach the maximum of their type.

**A WebSocket** (`HInv`, from `HranaWsAssumption`: the bounds are naturals, and an id that a client sends differs from
`NoId`, the `None` of the code). The job a task has, its queue and the job that the connection's task cannot queue yet form one
first-in first-out queue: requests are appended as they are received, and the task drops the first when
it answers. For `InOrder`, `OrderOK` says that this queue is in order and later than all that its connection
has begun, but for the program the task waits for, and that requests of cursors have tasks of their own.
For `SessionMatches`, what the session has of a stream is what its task will hold once it has
done the queue (`CursorAfter`), provided it has a connection or is about to get one (`Fresh`); streams do not
share tasks (`OwnTasks`) and only a stream's first job opens it (`OpensOnce`).

**Streams over HTTP** (`HInv` of `HranaHttpProofs`, from `HttpAssumption` and `TimesAssumption`: the bounds are naturals, sequence
numbers are below `SeqWrap`, the entries of a cursor have one of the six kinds, and the expiration task sleeps
longer when nothing waits than a stream takes to expire, 60 s and 10 s in the code). The state of a stream is in five places.
`Held`, `Parked`, `Cleaned` and `Awake` say how four of them agree: the handle, the guard of a call, the expiration
queue and the cleanup queue. The fifth is the inbox of the connection's thread, which a handler that its client
dropped leaves a program in: `Inboxes` says that a pipeline's program there is that of the call that has the stream, or
that the stream is gone, so that it never runs after a later one's. That a baton is accepted once is `Fresh`: the
sequence number that is expected is ahead of every one that was accepted by at least 1 and, as a stream has had fewer
turns than there were calls (`Arrivals`), by less than `SeqWrap`. `MaxCalls <= SeqWrap` says that there are no more
calls than the 2^64 sequence numbers of the code; beyond that numbers would come round. For the bodies of cursors, `Bodied` says
that what was read, what is in the channel and what the task owes (`Owed`) make up the whole body, or that
an error is on its way that ends it (`Broken`). `QueueAfter`, `DueIs` and `SleepIs` are what the operators of
`pump_expire` compute.

**Forks** (`CInv`, from `NamespacesAssumption`, `FramesAssumption` and `FirstTxnAssumption`: transactions write one page or more, and some
transaction can be the first of a database). The copy reads frame by frame, from the log or from snapshots, while the source is
written and compacted. `Copied` says that what was copied is what the log said at the frame that was reached, and that
for each end of a transaction in the log since the fork began there is the database of that moment among the states
that were seen; the copy ends at the end of a transaction because the log does (`LogOK`) and because
what a compaction takes from it does (`RangeOK`). `SnapshotIs` is the step from a snapshot's frames to the state they lead to, `OneState` says
that a history describes one database, `LoggedIs`, `OpenLogIs` and `DumpIs` what the operators on logs
do. `~Zombies` excludes the connections of section 3 that write next to the log.

**What clients find in a namespace** (`AInv`, `CInv` with three parts more). A directory that is missing or holds an empty database is filled
from the backup when it is opened, so the danger is in the backup. `Covered` says of such a name that there is no backup,
or that it is what the name may hold, or that a tombstone is on it that will not go before it (`Entombed`). `Kept` has that of
every name, whatever is destroyed, uploaded and deleted in the background. An operation is many steps, with kills,
failures and deletions between them: `Promised` says for each kind and program counter what it can still rely on
when it goes on, such as that the destination of a fork may be without a database, or that a name which is reset and has no backup may be
empty. `Deletions` has the types, and that a name whose backup is being deleted has a tombstone. The hypotheses are those of
section 3: `ForksOver`, `Strays`, `Zombies`, as `OneDeletion` that at most one deletion of a name is going on, and as `LocalWins`
that on a server with backups none of them wins over a database on disk (`Overrules`). The property
does not hold without them.

Only model-checked:

- liveness (`HandoverReturns`, `Converges`, `CallsReturn`, `TxnsEnd`, `EventuallyBackedUp`, `StreamsEnd`, `Answered`,
  `Released`, `OperationsReturn`): it needs fairness and ENABLED, which the prover does not handle;
- `CaughtUpIsExact` and `ReadsAreCommittedStates`: they hold within the bounds
  of their run and are false beyond them (section 3), so there is no theorem without a hypothesis that
  restates the bounds;
- all of Bottomless, whose restore is recursive in the listing of the bucket.

## 5. What is left out

- *Checksums.* The rolling checksum is not modelled (a new log file starts it at 0);
  torn writes within a frame are therefore not either.
- *Savepoints and checkpoints in Primary*: what these hooks do for the backup is in Bottomless;
  `on_savepoint_undo` leaves the replication log alone, as the code does.
- *A kill inside `do_compaction`*: its steps up to the exchange leave a `temp_log`
  that only the next compaction looks at. The builder's unfinished temporary file.
- *`batch_log_entries`*, authentication of the service, the idle guard of a stream.
- *Exhausted handshake attempts* and a primary that is unreachable for long.
- *An injection that fails*, after which the injector thread ends.
- *The reset of a replica* after `Lagging` or an incompatible database: Replication
  ends there (`lagging`, `incompatible`); Namespaces has what follows.
- *Prefetch*: a frame the primary's stream yields is received in the same step, so
  the buffers of gRPC are not visible.
- *Statements that open a write transaction at once* (`BEGIN IMMEDIATE`), `describe`,
  `is_autocommit` and `checkpoint` of a connection, memory pressure in the semaphore of
  `MakeThrottledConnection`. Only reads produce results that are too large.
- *A call that outlives its broken connection*: `Break` drops the handler on the
  primary in the same step as the client learns of it.
- *Backup*: `src/bottomless/src/lib.rs`, the same calls behind a C interface for other programs
  than sqld; compression; restores to a generation or a point in time; retries inside
  the S3 client; `last_frame` timestamps other than their order. Of the calls to the bucket puts may fail; a get or a
  listing that fails is not told from an object that is not there.
- *hrana*: the stateless v1 endpoints, encodings, result contents, authentication. `pump_expire`
  ignores what polling its timer returns; the model takes the timer to be armed.
- *Namespaces*: the default namespace made at the start, configuration stores of namespaces,
  `list_generations`. A server's role does not change.
- *Not modelled at all*: idle shutdown, the HTTP front end, authentication, statistics, dump
  export, migration, result builders, wire formats, FFI bindings, command line. They keep no
  state that outlives a call, or none that a property here could be about.

## 6. Plan

The components that carry the system's protocols are modelled, and every invariant that holds for all values of the
constants, perhaps under a hypothesis that section 3 accounts for, has its theorem. Restores of Bottomless are recursive in the listing
and stay with TLC, and so does liveness. What is left is breadth: restores to a generation or a
point in time, the stateless endpoints of hrana, injections that fail, exhausted handshakes.
