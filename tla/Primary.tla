------------------------------- MODULE Primary -------------------------------
(***************************************************************************)
(* The write side of replication on a primary, for one database:           *)
(*   - ReplicationLoggerHook and LogFile (replication/primary/logger.rs):  *)
(*     the SQLite connection that holds the write lock appends the pages   *)
(*     of its transaction to the shadow log, commits them and announces    *)
(*     them;                                                               *)
(*   - the periodic compaction task (namespace/mod.rs);                    *)
(*   - the compactor and the merger threads (replication/snapshot.rs);     *)
(*   - kill, clean shutdown, start and recovery (lib.rs, logger.rs).       *)
(*                                                                         *)
(* Files are inodes behind the two directory entries `wallog' and          *)
(* `temp_log', because a compaction exchanges the entries and the          *)
(* compactor removes one of them by name.                                  *)
(***************************************************************************)
EXTENDS Frames, Sequences, SequencesExt

CONSTANTS
    MaxTxnLen,       \* frames a transaction may write
    MaxVer,          \* bound on the page versions ever written
    MaxRestarts,     \* bound on the starts of the process
    MaxLogFrames,    \* LogFile.max_log_frame_count
    HasDuration,     \* whether max_log_duration is configured
    Amplification,   \* SNAPHOT_SPACE_AMPLIFICATION_FACTOR
    MaxSnapshots,    \* MAX_SNAPSHOT_NUMBER
    Slots,           \* bound on the frames of one log file
    Shrinks,         \* whether a transaction may shrink the database
    MaxShutdowns,    \* bound on clean shutdowns
    MaxFaults        \* bound on kills and failing I/O calls

Inodes == 1..3      \* live log, log in the compactor, log waiting for it
NoInode == 0
NoFrame == [no |-> -1, page |-> 0, size |-> 0, data |-> 0]
U64Max == 999       \* u64::MAX, larger than every frame number

ASSUME PrimaryAssumption ==
    /\ MaxTxnLen \in Nat \ {0}
    /\ {MaxVer, MaxRestarts} \subseteq Nat
    /\ {MaxLogFrames, Amplification, MaxSnapshots, Slots} \subseteq Nat
    /\ {MaxShutdowns, MaxFaults} \subseteq Nat
    /\ {HasDuration, Shrinks} \subseteq BOOLEAN
    /\ Slots < U64Max

VARIABLES
    \* what readers of the log see
    dbid,                \* LogFileHeader.db_id: a new one each time the log is rebuilt
    gen, genStart,       \* Generation: id (a new one per start), start_index
    first,               \* LogFileHeader.start_frame_no of the live log
    top,                 \* new_frame_notifier
    hist, next, ver,     \* history: the frames ever committed, their number,
                         \* the newest page version among them
    \* the disk
    wallog, tempLog,     \* directory entries of the namespace
    hdr,                 \* hdr[i]: header of file i, [start, count]
    file,                \* file[i][k]: the frame in slot k of file i
    snaps,               \* the snapshots directory: [s, e, frames]
    db,                  \* the database SQLite has committed
    sentinel,            \* the .sentinel file exists
    \* the process
    up,
    ino, count, unc,     \* the live LogFile: file, header.frame_count,
                         \* uncommitted_frame_count (start_frame_no is `first')
    lock,                \* who holds log_file for writing across steps
    wr,                  \* the connection inside on_frames
    pr,                  \* the periodic compaction task
    sending,             \* the log a blocked LogCompactor::compact hands over
    cs, job,             \* the compactor thread and the log it works on
    ms, mqueue, mlist,   \* the merger thread, its channel, its list
    mleft,               \* the files it still has to remove after a merge
    txn,                 \* the pages SQLite has written and not committed
    pushed,              \* the newest page version ever written to a log
    \* bounds
    faults, shutdowns

readVars == <<dbid, gen, genStart, first, top, hist, next, ver>>
diskVars == <<wallog, tempLog, hdr, file, snaps, db, sentinel>>
fileVars == <<ino, count, unc>>
compVars == <<cs, job>>
mergeVars == <<ms, mqueue, mlist, mleft>>
pageVars == <<txn, pushed>>
boundVars == <<faults, shutdowns>>
primVars == <<diskVars, up, fileVars, lock, wr, pr, sending, compVars,
              mergeVars, pageVars, boundVars>>
vars == <<readVars, primVars>>

\* A log on its way to the compactor: an owned LogFile (with its own copy of the
\* header), the database size, and the snapshot made from it.
NoName == [s |-> 0, e |-> 0, n |-> 0]
Job(i, s, c, p, n) ==
    [ino |-> i, start |-> s, count |-> c, pages |-> p, name |-> n]
NoJob == Job(NoInode, 0, 0, 0, NoName)

-----------------------------------------------------------------------------
(* LogFile *)

\* next_frame_no(): also the slot after the last one written.
next_frame_no == first + count + unc

\* LogFile::frame, for the outcomes a reader distinguishes.
SnapshotRequired(f) == f < first
Ahead(f) == f >= first + count
frame(f) == file[ino][f - first]

\* push_page for every page of a buffer: frames go after the committed and the
\* uncommitted ones. Only the last page of a commit carries a size.
push_pages(pages, size) ==
    LET n == Len(pages)
        at == count + unc
    IN  /\ at + n <= Slots
        /\ pushed + n <= MaxVer
        /\ file' = [file EXCEPT ![ino] =
               [k \in DOMAIN @ |->
                   IF k \in at..(at + n - 1)
                   THEN Frame(first + k, pages[k - at + 1],
                              IF k = at + n - 1 THEN size ELSE 0,
                              pushed + (k - at) + 1)
                   ELSE @[k]]]
        /\ unc' = unc + n
        /\ pushed' = pushed + n

\* The pages a transaction writes in one call, in page order.
PageLists ==
    {s \in UNION {[1..n -> Pages] : n \in 1..MaxPage} :
        \A i, j \in DOMAIN s : i < j => s[i] < s[j]}

NoPages == [p \in {} |-> 0]

\* SQLite's side of the transaction: the versions of the pages it hands to
\* on_frames.
DirtyPages(pages) ==
    [p \in DOMAIN txn \cup Range(pages) |->
        IF p \in Range(pages)
        THEN pushed + (CHOOSE i \in DOMAIN pages : pages[i] = p)
        ELSE txn[p]]

should_compact(elapsed) ==
    /\ count > MaxLogFrames \/ elapsed
    /\ unc = 0

\* The database once SQLite has committed the transaction.
Apply(d, size) ==
    [p \in 1..size |-> IF p \in DOMAIN txn THEN txn[p] ELSE d[p]]

-----------------------------------------------------------------------------
(* The hook of the writing connection. SQLite admits one writer.           *)

\* on_frames without commit: the page cache spills a page.
OnFramesSpill ==
    /\ up /\ lock = "free" /\ wr \in {"idle", "txn"}
    /\ unc < MaxTxnLen - 1
    /\ \E p \in Pages :
        /\ push_pages(<<p>>, 0)
        /\ txn' = DirtyPages(<<p>>)
    /\ wr' = "txn"
    /\ UNCHANGED readVars
    /\ UNCHANGED <<wallog, tempLog, hdr, snaps, db, sentinel, up, ino, count, lock,
                   pr, sending, compVars, mergeVars, boundVars>>

\* on_frames with commit: flush(ntruncate) writes the pages to the log.
OnFramesFlush ==
    /\ up /\ lock = "free" /\ wr \in {"idle", "txn"}
    /\ \E pages \in PageLists, size \in Pages :
        /\ Range(pages) \subseteq 1..size
        /\ unc + Len(pages) <= MaxTxnLen
        /\ Shrinks \/ /\ size >= Cardinality(DOMAIN db)
                      /\ \A p \in DOMAIN txn : p <= size
        /\ \A p \in (Cardinality(DOMAIN db) + 1)..size :
              p \in Range(pages) \cup DOMAIN txn
        /\ push_pages(pages, size)
        /\ txn' = DirtyPages(pages)
    /\ wr' = "flushed"
    /\ UNCHANGED readVars
    /\ UNCHANGED <<wallog, tempLog, hdr, snaps, db, sentinel, up, ino, count, lock,
                   pr, sending, compVars, mergeVars, boundVars>>

\* The log cannot be written: SQLITE_IOERR, after some of the pages.
OnFramesFlushFails ==
    /\ up /\ lock = "free" /\ wr \in {"idle", "txn"} /\ faults < MaxFaults
    /\ \E pages \in PageLists, n \in 0..1 :
        /\ n < Len(pages)
        /\ unc + n <= MaxTxnLen
        /\ push_pages(SubSeq(pages, 1, n), 0)
    /\ wr' = "undo"
    /\ faults' = faults + 1
    /\ UNCHANGED readVars
    /\ UNCHANGED <<wallog, tempLog, hdr, snaps, db, sentinel, up, ino, count, lock,
                   pr, sending, compVars, mergeVars, txn, shutdowns>>

\* orig(): SQLite commits the transaction to its own WAL.
OrigFrames ==
    /\ up /\ wr = "flushed"
    /\ db' = Apply(db, file[ino][count + unc - 1].size)
    /\ txn' = NoPages
    /\ wr' = "orig"
    /\ UNCHANGED <<readVars, wallog, tempLog, hdr, file, snaps, sentinel, up,
                   fileVars, lock, pr, sending, compVars, mergeVars, boundVars, pushed>>

\* Mutant: the result of orig() is not looked at.
MutIgnoreError ==
    /\ up /\ wr = "flushed" /\ faults < MaxFaults
    /\ wr' = "orig"
    /\ faults' = faults + 1
    /\ UNCHANGED <<readVars, diskVars, up, fileVars, lock, pr, sending,
                   compVars, mergeVars, shutdowns, pageVars>>

\* orig() returns an error.
OrigFramesFails ==
    /\ up /\ wr = "flushed" /\ faults < MaxFaults
    /\ wr' = "undo"
    /\ faults' = faults + 1
    /\ UNCHANGED <<readVars, diskVars, up, fileVars, lock, pr, sending,
                   compVars, mergeVars, shutdowns, pageVars>>

\* Mutant: the header on disk counts one frame too many.
MutCommitOneMore ==
    /\ count' = count + unc
    /\ unc' = 0
    /\ hdr' = [hdr EXCEPT ![ino] = [start |-> first, count |-> count' + 1]]

\* Mutant: the header is not written.
MutCommitInMemory ==
    /\ count' = count + unc
    /\ unc' = 0
    /\ UNCHANGED hdr

\* LogFile::commit: the frames become part of the log, on disk too.
commit ==
    /\ count' = count + unc
    /\ unc' = 0
    /\ hdr' = [hdr EXCEPT ![ino] = [start |-> first, count |-> count']]

\* ReplicationLogger::commit, under the lock.
LogCommit ==
    /\ up /\ lock = "free" /\ wr = "orig"
    /\ commit
    /\ hist' = [f \in 0..(first + count' - 1) |->
                   IF f < next THEN hist[f] ELSE file[ino][f - first]]
    /\ next' = first + count'
    /\ ver' = file[ino][count' - 1].data
    /\ wr' = "committed"
    /\ UNCHANGED <<dbid, gen, genStart, first, top, wallog,
                   tempLog, file, snaps, db, sentinel, up, ino, lock, pr, sending,
                   compVars, mergeVars, pageVars, boundVars>>

\* Mutant: the number of the last frame is announced, not of the next one.
MutNotifyLast ==
    /\ up /\ wr = "committed"
    /\ top' = first + count - 1
    /\ wr' = "notified"
    /\ UNCHANGED <<dbid, gen, genStart, hist, next, first, ver,
                   diskVars, up, fileVars, lock, pr, sending, compVars,
                   mergeVars, boundVars, pageVars>>

\* new_frame_notifier.send_replace(last_frame_no()), after the lock is released.
Notify ==
    /\ up /\ wr = "committed"
    /\ top' = first + count
    /\ wr' = "notified"
    /\ UNCHANGED <<dbid, gen, genStart, hist, next, first, ver,
                   diskVars, up, fileVars, lock, pr, sending, compVars,
                   mergeVars, boundVars, pageVars>>

\* Mutant: the frames of the rolled back transaction stay.
MutKeepUncommitted == UNCHANGED unc

\* LogFile::rollback
rollback == unc' = 0

\* on_undo: SQLite rolls the transaction back.
OnUndo ==
    /\ up /\ lock = "free" /\ wr \in {"undo", "txn"}
    /\ rollback
    /\ txn' = NoPages
    /\ wr' = "idle"
    /\ UNCHANGED <<readVars, diskVars, up, ino, count, lock, pr, sending,
                   compVars, mergeVars, boundVars, pushed>>

-----------------------------------------------------------------------------
(* Compaction: the live log is swapped for an empty one.                   *)

\* A file that no directory entry and no open LogFile refers to.
FreeInode ==
    CHOOSE i \in Inodes : i \notin {wallog, tempLog, ino, job.ino, sending.ino}

\* Mutant: the new log inherits the frame count of the old one.
MutKeepCount(pages, who) ==
    LET new == IF tempLog = NoInode THEN FreeInode ELSE tempLog
        end == first + count
    IN  /\ UNCHANGED <<file, count>>
        /\ hdr' = [hdr EXCEPT ![new] = [start |-> end, count |-> count]]
        /\ wallog' = new
        /\ tempLog' = wallog
        /\ ino' = new
        /\ first' = end
        /\ sending' = Job(ino, first, count, pages, NoName)
        /\ lock' = who

\* do_compaction: temp_log is opened (and created only if it is not there), gets
\* a header that continues this log, and is exchanged with wallog. The old log is
\* offered to the compactor thread; the caller keeps the lock until it takes it.
do_compaction(pages, who) ==
    LET new == IF tempLog = NoInode THEN FreeInode ELSE tempLog
        end == first + count
    IN  /\ file' = IF tempLog = NoInode
                   THEN [file EXCEPT ![new] = [k \in DOMAIN @ |-> NoFrame]]
                   ELSE file
        /\ hdr' = [hdr EXCEPT ![new] = [start |-> end, count |-> 0]]
        /\ wallog' = new
        /\ tempLog' = wallog
        /\ ino' = new
        /\ first' = end
        /\ count' = 0
        /\ sending' = Job(ino, first, count, pages, NoName)
        /\ lock' = who

Elapsed == IF HasDuration THEN BOOLEAN ELSE {FALSE}

\* The end of on_frames: log_file.write().maybe_compact(.., ntruncate, ..).
WriterCompact ==
    /\ up /\ lock = "free" /\ wr = "notified"
    /\ \E elapsed \in Elapsed :
        /\ should_compact(elapsed)
        /\ do_compaction(Cardinality(DOMAIN db), "writer")
    /\ wr' = "sending"
    /\ UNCHANGED <<dbid, gen, genStart, hist, next, top, ver, snaps, db,
                   sentinel, up, unc, pr, compVars, mergeVars, boundVars, pageVars>>

WriterNoCompact ==
    /\ up /\ lock = "free" /\ wr = "notified"
    /\ \E elapsed \in Elapsed : ~should_compact(elapsed)
    /\ wr' = "idle"
    /\ UNCHANGED <<readVars, diskVars, up, fileVars, lock, pr, sending, compVars,
                   mergeVars, boundVars, pageVars>>

\* ReplicationLogger::maybe_compact, polled by run_periodic_compactions.
PeriodicCompact ==
    /\ up /\ lock = "free" /\ pr = "idle"
    /\ \E elapsed \in Elapsed : should_compact(elapsed)
    /\ count > 0
    /\ do_compaction(file[ino][count - 1].size, "periodic")
    /\ pr' = "sending"
    /\ UNCHANGED <<dbid, gen, genStart, hist, next, top, ver, snaps, db,
                   sentinel, up, unc, wr, compVars, mergeVars, boundVars, pageVars>>

\* The compactor thread takes the offered log (a channel of capacity 0): the
\* sender goes on and releases the lock.
Receive ==
    /\ up /\ cs = "recv" /\ sending # NoJob
    /\ job' = sending
    /\ sending' = NoJob
    /\ cs' = "compact"
    /\ lock' = "free"
    /\ wr' = IF lock = "writer" THEN "idle" ELSE wr
    /\ pr' = IF lock = "periodic" THEN "idle" ELSE pr
    /\ UNCHANGED <<readVars, diskVars, up, fileVars, mergeVars, boundVars, pageVars>>

-----------------------------------------------------------------------------
(* LogCompactor and SnapshotMerger threads.                                *)

\* SnapshotBuilder::append_frames asserts that the files it is given hold
\* frames in strictly decreasing order.
Descending(files) ==
    \A i, j \in DOMAIN files :
        i < j => \A f \in files[i], g \in files[j] : f.no < g.no

\* Mutant: the first version of a page wins, not the last.
MutPersistOldest(s, e, frames) ==
    snaps' = {x \in snaps : ~(x.s = s /\ x.e = e)}
                \cup {[s |-> s, e |-> e,
                       frames |-> {f \in frames : \A g \in frames :
                                      g.page = f.page => g.no >= f.no}]}

\* SnapshotBuilder::finish: a file of that name is replaced.
PersistSnapshot(s, e, frames) ==
    snaps' = {x \in snaps : ~(x.s = s /\ x.e = e)}
                \cup {[s |-> s, e |-> e, frames |-> Newest(frames)]}

\* Mutant: the last frame of the log is not read.
MutShortIter(j) == [k \in 1..(j.count - 1) |-> {file[j.ino][k - 1]}]

\* LogFile::rev_frames_iter over a closed log: its committed frames, as one file
\* per slot.
rev_frames_iter(j) == [k \in 1..j.count |-> {file[j.ino][k - 1]}]

\* perform_compaction: the log is read back from the end; the name of the
\* snapshot comes from the frames, and the LogFile is closed.
PerformCompaction ==
    /\ up /\ cs = "compact"
    /\ LET slots == rev_frames_iter(job)
           F == UNION {slots[k] : k \in DOMAIN slots}
           s == Min({f.no : f \in F} \cup {U64Max})
           e == Max({f.no : f \in F} \cup {0})
       IN  IF Descending(slots)
           THEN /\ PersistSnapshot(s, e, F)
                /\ job' = Job(NoInode, job.start, job.count, job.pages,
                              [s |-> s, e |-> e, n |-> Cardinality(Newest(F))])
                /\ cs' = "callback"
           ELSE /\ cs' = "dead"
                /\ UNCHANGED <<snaps, job>>
    /\ UNCHANGED <<dbid, gen, genStart, hist, next, first, top, ver,
                   wallog, tempLog, hdr, file, db, sentinel, up, fileVars, lock,
                   wr, pr, sending, mergeVars, boundVars, pageVars>>

\* The snapshot cannot be written, or the snapshot callback (an external
\* command) fails: the thread leaves its loop.
CompactorFails ==
    /\ up /\ cs \in {"compact", "callback"} /\ faults < MaxFaults
    /\ cs' = "dead"
    /\ job' = NoJob
    /\ faults' = faults + 1
    /\ UNCHANGED <<readVars, diskVars, up, fileVars, lock, wr, pr, sending,
                   mergeVars, shutdowns, pageVars>>

\* The callback succeeds and the snapshot is registered with the merger, unless
\* the merger thread has exited.
RegisterSnapshot ==
    /\ up /\ cs = "callback"
    /\ IF ms = "dead"
       THEN cs' = "dead" /\ UNCHANGED mqueue
       ELSE /\ mqueue' = Append(mqueue, [name |-> job.name, pages |-> job.pages])
            /\ cs' = "remove"
    /\ UNCHANGED <<readVars, diskVars, up, fileVars, lock, wr, pr, sending, job,
                   ms, mlist, mleft, boundVars, pageVars>>

\* remove_file(temp_log), whatever file has that name by now.
RemoveLog ==
    /\ up /\ cs = "remove"
    /\ IF tempLog = NoInode
       THEN cs' = "dead" /\ UNCHANGED tempLog
       ELSE cs' = "recv" /\ tempLog' = NoInode
    /\ job' = NoJob
    /\ UNCHANGED <<readVars, wallog, hdr, file, snaps, db, sentinel, up, fileVars,
                   lock, wr, pr, sending, mergeVars, boundVars, pageVars>>

\* init_snapshot_info_list: the files found, by start_frame_no.
SnapshotLists ==
    {q \in SetToSeqs({[s |-> x.s, e |-> x.e, n |-> Cardinality(x.frames)] : x \in snaps}) :
        \A i, j \in DOMAIN q : i < j => q[i].s <= q[j].s}

\* The merger thread starts: it lists the directory, whatever the compactor has
\* put there in the meantime.
MergerInit ==
    /\ up /\ ms = "init"
    /\ mlist' \in SnapshotLists
    /\ ms' = "recv"
    /\ UNCHANGED <<readVars, diskVars, up, fileVars, lock, wr, pr, sending,
                   compVars, mqueue, mleft, boundVars, pageVars>>

\* SnapshotMerger::should_compact
should_merge(list, pages) ==
    \/ FoldLeft(LAMBDA acc, x : acc + x.n, 0, list) >= Amplification * pages
    \/ Len(list) > MaxSnapshots

\* One turn of run_snapshot_merger_loop.
MergerReceive ==
    /\ up /\ ms = "recv" /\ mqueue # <<>>
    /\ mqueue' = Tail(mqueue)
    /\ mlist' = Append(mlist, Head(mqueue).name)
    /\ ms' = IF should_merge(mlist', Head(mqueue).pages) THEN "merge" ELSE "recv"
    /\ UNCHANGED <<readVars, diskVars, up, fileVars, lock, wr, pr, sending,
                   compVars, mleft, boundVars, pageVars>>

\* The snapshot file of that name.
Files(x) == {y \in snaps : y.s = x.s /\ y.e = x.e}

\* merge_snapshots up to builder.finish(): the new file has the range from the
\* start of the first name to the end of the last. A file that is missing or
\* frames out of order end the thread.
MergeSnapshots ==
    /\ up /\ ms = "merge"
    /\ LET frames == [i \in DOMAIN mlist |->
                         UNION {y.frames : y \in Files(mlist[i])}]
           F == UNION {frames[i] : i \in DOMAIN frames}
           s == mlist[1].s
           e == mlist[Len(mlist)].e
       IN  IF (\A i \in DOMAIN mlist : Files(mlist[i]) # {}) /\ Descending(frames)
           THEN /\ PersistSnapshot(s, e, F)
                /\ mlist' = <<[s |-> s, e |-> e, n |-> Cardinality(Newest(F))]>>
                /\ mleft' = mlist
                /\ ms' = "unlink"
           ELSE /\ ms' = "dead"
                /\ UNCHANGED <<snaps, mlist, mleft>>
    /\ UNCHANGED <<readVars, wallog, tempLog, hdr, file, db, sentinel, up,
                   fileVars, lock, wr, pr, sending, compVars, mqueue, boundVars, pageVars>>

\* merge_snapshots: the inputs are removed one by one, by name.
UnlinkMerged ==
    /\ up /\ ms = "unlink"
    /\ snaps' = snaps \ Files(Head(mleft))
    /\ mleft' = Tail(mleft)
    /\ ms' = IF Files(Head(mleft)) = {} THEN "dead"
             ELSE IF Tail(mleft) = <<>> THEN "recv" ELSE "unlink"
    /\ UNCHANGED <<readVars, wallog, tempLog, hdr, file, db, sentinel, up,
                   fileVars, lock, wr, pr, sending, compVars, mqueue, mlist,
                   boundVars, pageVars>>

-----------------------------------------------------------------------------
(* The life of the process.                                                *)

\* Everything that is not on disk is gone.
Die ==
    /\ up' = FALSE
    /\ unc' = 0 /\ lock' = "free" /\ wr' = "idle" /\ pr' = "idle"
    /\ sending' = NoJob /\ cs' = "recv" /\ job' = NoJob
    /\ ms' = "init" /\ mqueue' = <<>> /\ mlist' = <<>> /\ mleft' = <<>>
    /\ txn' = NoPages
    /\ UNCHANGED <<readVars, wallog, tempLog, hdr, file, snaps, db, ino, count, pushed>>

\* The process is killed.
Kill ==
    /\ up /\ faults < MaxFaults
    /\ faults' = faults + 1
    /\ Die
    /\ UNCHANGED <<sentinel, shutdowns>>

\* Mutant: a send to a thread that is gone does not return.
MutSendBlocks ==
    /\ up /\ cs = "dead" /\ sending # NoJob
    /\ UNCHANGED vars

\* compact() fails because the compactor thread is gone: on_frames aborts the
\* process, the periodic task ends with an error that nobody reads.
SendFails ==
    /\ up /\ cs = "dead" /\ sending # NoJob
    /\ \/ /\ lock = "writer"
          /\ Die
          /\ UNCHANGED sentinel
       \/ /\ lock = "periodic"
          /\ pr' = "dead"
          /\ lock' = "free"
          /\ sending' = NoJob
          /\ UNCHANGED <<readVars, diskVars, up, fileVars, wr, compVars, mergeVars,
                         pageVars>>
    /\ UNCHANGED boundVars

\* Server::start on shutdown: the tasks are aborted and the sentinel file goes.
\* Connections are blocking threads: they finish what they were doing.
BeginShutdown ==
    /\ up /\ sentinel /\ shutdowns < MaxShutdowns
    /\ sentinel' = FALSE
    /\ shutdowns' = shutdowns + 1
    /\ UNCHANGED <<readVars, wallog, tempLog, hdr, file, snaps, db, up, fileVars,
                   lock, wr, pr, sending, compVars, mergeVars, pageVars, faults>>

\* The runtime waits for the connections, and the process ends. The compactor and
\* merger threads are not waited for.
EndShutdown ==
    /\ up /\ ~sentinel /\ wr = "idle" /\ lock = "free"
    /\ Die
    /\ UNCHANGED <<sentinel, boundVars>>

\* The start of a process leaves the sentinel file behind.
init_sentinel_file == sentinel' = TRUE

\* ReplicationLogger::from_log_file on a log that was shut down cleanly.
Start ==
    /\ ~up /\ ~sentinel /\ gen < MaxRestarts
    /\ up' = TRUE /\ init_sentinel_file
    /\ gen' = gen + 1
    /\ ino' = wallog
    /\ first' = hdr[wallog].start
    /\ count' = hdr[wallog].count
    /\ genStart' = first' + count'
    /\ top' = first' + count'
    /\ UNCHANGED <<dbid, hist, next, ver, wallog, tempLog, hdr, file, snaps, db,
                   unc, lock, wr, pr, sending, compVars, mergeVars, boundVars, pageVars>>

\* ReplicationLogger::recover: the sentinel was found, or the log is from another
\* version of sqld. The log is truncated and rebuilt from the database, the
\* snapshots go; a temp_log stays where it is.
RecoverLog ==
    /\ ~up /\ gen < MaxRestarts
    /\ LET size == Cardinality(DOMAIN db)
       IN  /\ size <= Slots
           /\ hist' = Dump(db)
           /\ file' = [file EXCEPT ![wallog] =
                  [k \in DOMAIN @ |-> IF k < size THEN Dump(db)[k] ELSE NoFrame]]
           /\ hdr' = [hdr EXCEPT ![wallog] = [start |-> 0, count |-> size]]
           /\ count' = size
           /\ next' = size /\ genStart' = size /\ top' = size
    /\ up' = TRUE /\ init_sentinel_file
    /\ dbid' = dbid + 1 /\ gen' = gen + 1
    /\ ino' = wallog
    /\ first' = 0
    /\ ver' = Max({0} \cup {db[q] : q \in DOMAIN db})
    /\ snaps' = {}
    /\ UNCHANGED <<wallog, tempLog, db, unc, lock, wr, pr, sending,
                   compVars, mergeVars, boundVars, pageVars>>

\* Nothing to do until a client writes (or, stopped, until an operator starts it).
Idle ==
    /\ \/ /\ up /\ sentinel /\ wr = "idle" /\ lock = "free"
          /\ cs \in {"recv", "dead"} /\ ms \in {"recv", "dead"}
       \/ ~up /\ gen = MaxRestarts
    /\ UNCHANGED vars

-----------------------------------------------------------------------------
Init ==
    /\ dbid = 0 /\ gen = 0 /\ genStart = 0 /\ first = 0 /\ top = 0
    /\ hist = [f \in {} |-> 0] /\ next = 0 /\ ver = 0
    /\ wallog = 1 /\ tempLog = NoInode
    /\ hdr = [i \in Inodes |-> [start |-> 0, count |-> 0]]
    /\ file = [i \in Inodes |-> [k \in 0..(Slots - 1) |-> NoFrame]]
    /\ snaps = {} /\ db = [p \in {} |-> 0] /\ sentinel = TRUE
    /\ up = TRUE /\ ino = 1 /\ count = 0 /\ unc = 0
    /\ lock = "free" /\ wr = "idle" /\ pr = "idle" /\ sending = NoJob
    /\ cs = "recv" /\ job = NoJob
    /\ ms = "init" /\ mqueue = <<>> /\ mlist = <<>> /\ mleft = <<>>
    /\ txn = NoPages /\ pushed = 0 /\ faults = 0 /\ shutdowns = 0

Writer ==
    \/ OnFramesSpill \/ OnFramesFlush \/ OnFramesFlushFails
    \/ OrigFrames \/ OrigFramesFails \/ LogCommit \/ Notify \/ OnUndo
    \/ WriterCompact \/ WriterNoCompact

Compactor ==
    Receive \/ PerformCompaction \/ RegisterSnapshot \/ RemoveLog \/ CompactorFails

Merger == MergerInit \/ MergerReceive \/ MergeSnapshots \/ UnlinkMerged

Process == Kill \/ BeginShutdown \/ EndShutdown \/ Start \/ RecoverLog \/ Idle

Next == Writer \/ PeriodicCompact \/ SendFails \/ Compactor \/ Merger \/ Process

Spec == Init /\ [][Next]_vars

\* The compactor thread keeps running, and a send to a thread that is gone
\* returns; nothing else has to happen.
Fairness ==
    /\ WF_vars(Receive \/ PerformCompaction \/ RegisterSnapshot \/ RemoveLog)
    /\ WF_vars(SendFails)

FairSpec == Spec /\ Fairness

-----------------------------------------------------------------------------
(* Properties.                                                             *)

FrameOK(f) == f.no \in Int /\ f.page \in 0..MaxPage /\ f.size \in 0..MaxPage
JobOK(j) ==
    /\ j.ino \in Inodes \cup {NoInode}
    /\ j.start \in Nat /\ j.count \in 0..Slots /\ j.pages \in Nat
FilesOK ==
    /\ DOMAIN file = Inodes
    /\ \A i \in Inodes :
          /\ DOMAIN file[i] = 0..(Slots - 1)
          /\ \A k \in 0..(Slots - 1) : FrameOK(file[i][k])

\* Type invariant of the disk and of the process; page contents are opaque.
TypeOK ==
    /\ wallog \in Inodes /\ tempLog \in Inodes \cup {NoInode} /\ ino \in Inodes
    /\ hdr \in [Inodes -> [start : Nat, count : 0..Slots]]
    /\ FilesOK
    /\ \E n \in 0..MaxPage : DOMAIN db = 1..n
    /\ sentinel \in BOOLEAN /\ up \in BOOLEAN
    /\ first \in Nat /\ count \in 0..Slots /\ unc \in 0..Slots
    /\ next \in Nat /\ top \in Nat
    /\ lock \in {"free", "writer", "periodic"}
    /\ wr \in {"idle", "txn", "flushed", "orig", "committed", "notified",
               "sending", "undo"}
    /\ pr \in {"idle", "sending", "dead"}
    /\ JobOK(sending) /\ JobOK(job)
    /\ cs \in {"recv", "compact", "callback", "remove", "dead"}
    /\ ms \in {"init", "recv", "merge", "unlink", "dead"}

\* Every frame the live log serves is the frame that was committed under that
\* number, and the log ends where the history ends: whatever was rolled back,
\* compacted, or left in a file that is used a second time.
ServedFramesAreHistory ==
    up => /\ next = first + count
          /\ \A f \in first..(next - 1) : frame(f) = hist[f]

\* Outside the window between SQLite's commit and the log's, a running primary's
\* log describes exactly the database: replaying it gives the database.
LogMatchesDatabase ==
    up /\ wr # "orig" => db = DbAt(hist, next)

\* A snapshot file holds, for the range of frames in its name, the newest frame
\* of every page, although the compactor and the merger read files that the
\* writer may reuse.
SnapshotsFaithful ==
    \A x \in snaps :
        x.s <= x.e => /\ x.e < next
                      /\ x.frames = Newest({hist[f] : f \in x.s..x.e})

\* A frame that has left the live log is in a snapshot file or on its way to one,
\* as long as the compactor thread runs: a replica that is told to load a
\* snapshot can eventually load one.
InFlight(j, f) == j.ino # NoInode /\ f \in j.start..(j.start + j.count - 1)
NoGap ==
    up /\ cs # "dead" =>
        \A f \in 0..(first - 1) :
            \/ \E x \in snaps : x.s <= f /\ f <= x.e
            \/ InFlight(sending, f) \/ InFlight(job, f)

\* The logs that were swapped out, from the one being compacted on.
Queue ==
    (IF cs = "compact" THEN <<<<job.start, job.start + job.count>>>> ELSE <<>>)
    \o (IF sending # NoJob THEN <<<<sending.start, sending.start + sending.count>>>>
                           ELSE <<>>)

Promise == INSTANCE FrameLog
               WITH MaxSkip <- MaxVer, queue <- Queue,
                    files <- {<<x.s, x.e + 1>> : x \in snaps}

\* The detailed primary implements the promise made to readers of the log: every
\* step of a connection, a thread, a crash or a restart is a step of FrameLog on
\* what readers see, or none.
ImplementsFrameLog == Promise!LogSpec

\* Backpressure ends: a transaction or a periodic task that waits, with the log
\* locked, for the compactor to take a log goes on, or the process ends; whatever
\* the compactor fails at.
HandoverReturns == (sending # NoJob) ~> (sending = NoJob)

\* Without an I/O fault the compactor thread keeps running.  The code does not keep to
\* this: two compactions in quick succession share the name temp_log (MaxLogFrames = 0).
CompactorAlive == up /\ faults = 0 => cs # "dead"

=============================================================================
