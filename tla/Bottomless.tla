----------------------------- MODULE Bottomless -----------------------------
(***************************************************************************)
(* Backup of a primary database to an object store, and restore from it    *)
(* (the bottomless crate, driven by the replication hooks of sqld).        *)
(*                                                                         *)
(* Committed transactions are in the WAL file of SQLite; its frames are    *)
(* numbered from 1.  A copier task copies ranges of frames into local      *)
(* files, an upload task puts the files into the bucket under the current  *)
(* generation.  A TRUNCATE checkpoint moves the WAL into the main file and *)
(* starts a new generation, whose base is a snapshot of the main file,     *)
(* uploaded in the background, or, while there is none, the generation     *)
(* named by its .dep object.  On boot the newest generation of the bucket  *)
(* is compared with the local files and may replace them.                  *)
(*                                                                         *)
(* A page is abstracted to the number of the transaction that wrote it and *)
(* a checksum to the frame it is chained to.  Generations are numbered in  *)
(* the order of their timestamps.  Each flush of the copier has a          *)
(* timestamp of its own.                                                   *)
(***************************************************************************)
EXTENDS Integers, FiniteSets, Sequences, SequencesExt

CONSTANTS
    NPages,          \* pages of the database
    MaxTxns,         \* bound: committed transactions
    MaxGens,         \* bound: generations
    MaxSpills,       \* bound: frames written before their transaction commits
    MaxCheckpoints,  \* bound: TRUNCATE checkpoints
    MaxRestarts,     \* bound: crashes
    MaxFailures,     \* bound: failed puts
    LosesDisk,       \* a crash may take the local files with it
    BatchLen,        \* max_frames_per_batch
    VerifyCrc,       \* verify_crc
    ListLimit,       \* batches in one page of a listing of the bucket
    Seeded           \* the database has content when its backup begins

ASSUME BottomlessAssumptions ==
    /\ {NPages, MaxTxns, MaxGens, BatchLen, ListLimit} \subseteq Nat \ {0}
    /\ {MaxSpills, MaxCheckpoints, MaxRestarts, MaxFailures} \subseteq Nat
    /\ {LosesDisk, VerifyCrc, Seeded} \subseteq BOOLEAN

VARIABLES
    hist,    \* every committed transaction: the database it made, its change counter, its parent
    tip,     \* the transaction the database is at
    db,      \* the main file: change counter (0: no content) and pages
    wal,     \* the WAL file: epoch (salt of its header) and frames
    mx,      \* wal.hdr.mxFrame: frames of the WAL file that are valid
    cm,      \* frames of the WAL file that are committed
    undone,  \* how often frames were undone
    files,   \* local files of the backup, queued for upload or left behind
    rep,     \* the Replicator: generation, next_frame_no, last_sent_frame_no, the two watches
    cop,     \* the copier task
    wr,      \* frames written and not yet submitted by the connection that wrote them
    ck,      \* the checkpoint hook
    deps,    \* puts of .dep objects under way
    snaps,   \* snapshot tasks under way
    obj,     \* the bucket
    born,    \* how each generation started, and the main file it started from
    up,      \* "down", "booting", "up", or "failed": the boot returned an error
    cnt      \* counters for the bounds

sqlite == <<hist, tip, db, wal, mx, cm, undone>>
vars == <<sqlite, files, rep, cop, wr, ck, deps, snaps, obj, born, up, cnt>>

Pages == 1..NPages
Gens == 1..MaxGens
Txns == 1..MaxTxns
Error == -1
Garbage == -1
NoPages == [p \in Pages |-> 0]

\* What a frame leaves in a file: the version of a transaction that committed it, or
\* garbage.  Page 1 carries the change counter.
Committed(f) == f.ver <= Len(hist) /\ f.undo \in hist[f.ver].undos
Put(file, f) ==
    [ctr |-> IF f.page = 1 /\ Committed(f) THEN hist[f.ver].ctr ELSE file.ctr,
     pages |-> [file.pages EXCEPT ![f.page] = IF Committed(f) THEN f.ver ELSE Garbage]]

EmptyFile == [ctr |-> 0, pages |-> NoPages]

Frame(e, p, v, last, pred) ==
    [epoch |-> e, page |-> p, ver |-> v, commit |-> last, undo |-> undone, pred |-> pred]

\* What a frame is chained to: the header of the WAL, or the frame before it.
Crc(e, f) == IF f = << >> THEN <<e, 0>> ELSE <<e, Last(f).undo + 1>>

-----------------------------------------------------------------------------
(* Objects of a generation. *)

NoObjects ==
    [snap |-> <<>>, ctr |-> 0, dep |-> 0, meta |-> << >>, batches |-> {}]

\* Keys sort by first frame, then last frame, then timestamp.
KeyBefore(a, b) ==
    \/ a.first < b.first
    \/ a.first = b.first /\ a.last < b.last
    \/ a.first = b.first /\ a.last = b.last /\ a.ts < b.ts

Listing(o, g) == SetToSortSeq(o[g].batches, KeyBefore)

\* The newest generation that has any object; 0 when there is none.
latest_generation(o) ==
    LET S == {g \in Gens : o[g] # NoObjects}
    IN IF S = {} THEN 0 ELSE CHOOSE g \in S : \A h \in S : h <= g

get_last_consistent_frame(o, g) ==
    LET L == Listing(o, g) IN IF L = << >> THEN 0 ELSE Last(L).last

-----------------------------------------------------------------------------
(* Restore: a function of the bucket. *)

\* A frame is chained to the one before it.
verify(f, crc) == VerifyCrc => f.pred = crc

\* TransactionPageCache: pages are held back until the commit frame.
insert(acc, f) == [acc EXCEPT !.pending = Append(@, f)]
flush(acc) == [acc EXCEPT !.file = FoldLeft(Put, @, acc.pending), !.pending = << >>]

MutApplyFrame(acc, f) ==
    IF acc.failed \/ ~verify(f, acc.crc) THEN [acc EXCEPT !.failed = TRUE]
    ELSE flush(insert([acc EXCEPT !.crc = <<f.epoch, f.undo + 1>>, !.last = @ + 1], f))

ApplyFrame(acc, f) ==
    IF acc.failed \/ ~verify(f, acc.crc) THEN [acc EXCEPT !.failed = TRUE]
    ELSE LET got == insert([acc EXCEPT !.crc = <<f.epoch, f.undo + 1>>, !.last = @ + 1], f)
         IN IF f.commit THEN flush(got) ELSE got

\* A page of the listing ends at the first batch that does not follow the last frame
\* received.  The next page starts over: it expects frame 1 and no pending page.
ApplyBatch(acc, b) ==
    LET page == IF acc.listed % ListLimit = 0
                THEN [acc EXCEPT !.listed = @ + 1, !.stop = FALSE, !.last = 0, !.pending = << >>]
                ELSE [acc EXCEPT !.listed = @ + 1]
    IN IF page.failed \/ page.stop THEN page
       ELSE IF b.first # page.last + 1 \/ b.last > page.bound THEN [page EXCEPT !.stop = TRUE]
       ELSE FoldLeft(ApplyFrame, page, b.frames)

get_metadata(o, g) == o[g].meta

restore_wal(res, o, g, bound) ==
    IF res.failed \/ get_metadata(o, g) = << >> THEN res
    ELSE LET acc == FoldLeft(ApplyBatch,
                       [file |-> res.file, failed |-> FALSE, stop |-> FALSE, last |-> 0,
                        listed |-> 0, bound |-> bound, crc |-> get_metadata(o, g),
                        pending |-> << >>],
                       Listing(o, g))
         IN [file |-> acc.file, failed |-> acc.failed, applied |-> TRUE]

get_dependency(o, g) == o[g].dep
restore_from_snapshot(o, g) == o[g].snap

\* The generations to replay: back to the first with a snapshot, along the .dep objects.
restore_stack(o) ==
    LET stack[g \in Gens] ==
            IF restore_from_snapshot(o, g) # << >> \/ get_dependency(o, g) = 0 THEN <<g>>
            ELSE Append(stack[get_dependency(o, g)], g)
    IN stack

Infinite == MaxTxns * NPages + MaxSpills + 1

restore_from(o, g) ==
    LET stack == restore_stack(o)[g]
        base == restore_from_snapshot(o, Head(stack))
        start == [file |-> IF base = << >> THEN EmptyFile ELSE base[1],
                  failed |-> FALSE, applied |-> FALSE]
    IN FoldLeft(LAMBDA res, h :
                    restore_wal(res, o, h, IF h = g THEN get_last_consistent_frame(o, g)
                                           ELSE Infinite),
                start, stack)

\* The database a restore on an empty disk yields.
Restored ==
    LET g == latest_generation(obj)
    IN IF g = 0 THEN [file |-> EmptyFile, failed |-> FALSE, applied |-> FALSE]
       ELSE restore_from(obj, g)

-----------------------------------------------------------------------------
(* The Replicator's counters. *)

MutResetFrames(r, n) == [r EXCEPT !.next = n, !.sent = IF r.sent < n THEN r.sent ELSE n]
reset_frames(r, n) ==
    [r EXCEPT !.next = n + 1, !.sent = IF r.sent < n THEN r.sent ELSE n]

register_last_valid_frame(r, n) == IF n # r.next - 1 THEN reset_frames(r, n) ELSE r

MutSubmitFrames(r, n) == [r EXCEPT !.next = r.next + n - 1]
submit_frames(r, n) == [r EXCEPT !.next = @ + n]

set_generation(r, g) == reset_frames([r EXCEPT !.gen = g], 0)

\* A new generation depends on the one before it; its .dep object is put in the background.
new_generation(r, g) == set_generation(r, g)
Depends(prev, g) == IF prev = 0 THEN {} ELSE {[gen |-> g, prev |-> prev]}

\* snapshot_main_db_file: an empty or missing main file has no snapshot.
SnapshotTask(g, file) ==
    IF file.ctr = 0 THEN {}
    ELSE {[gen |-> g, ctr |-> file.ctr, read |-> 0, file |-> EmptyFile, put |-> FALSE,
           heard |-> TRUE]}
skip_snapshot_for_current_generation(r) == [r EXCEPT !.snapshotted = r.gen]

\* with_options: counters and watches of a new Replicator.
NewReplicator == [gen |-> 0, next |-> 1, sent |-> 0, committed |-> 0, snapshotted |-> 0]

IdleCopier(hdr) == [pc |-> "idle", lo |-> 0, hi |-> 0, gen |-> 0, ts |-> 0, hdr |-> hdr]
IdleWriter == [valid |-> 0, n |-> 0]
IdleCheckpoint == [pc |-> "idle", known |-> 0, prev |-> 0]

-----------------------------------------------------------------------------
(* Connections: SQLite writes the WAL, the hooks tell the Replicator. *)

\* The database as the committed frames leave it.
Content ==
    FoldLeft(Put, db, SubSeq(wal.file, 1, cm))

\* SQLite writes frames after the valid ones, over whatever the file holds there.
Overwrite(fs) ==
    [wal EXCEPT !.file = SubSeq(@, 1, mx) \o fs \o SubSeq(@, mx + Len(fs) + 1, Len(@))]

\* A WAL file that is truncated, or made again, gets another salt.
EmptyWal == IF wal.file = << >> THEN wal ELSE [epoch |-> wal.epoch + 1, file |-> << >>]

\* A full page cache writes a frame of a transaction that is still open; nothing is
\* submitted (on_frames with is_commit = 0).
Spill(p) ==
    /\ up = "up" /\ wr = IdleWriter
    /\ cnt.spills < MaxSpills /\ Len(hist) < MaxTxns
    /\ wal' = Overwrite(<<Frame(wal.epoch, p, Len(hist) + 1, FALSE,
                                Crc(wal.epoch, SubSeq(wal.file, 1, mx)))>>)
    /\ mx' = mx + 1
    /\ cnt' = [cnt EXCEPT !.spills = @ + 1]
    /\ UNCHANGED <<hist, tip, db, cm, undone, files, rep, cop, wr, ck, deps, snaps, obj, born, up>>

\* ROLLBACK: on_undo leaves the Replicator alone.
on_undo ==
    /\ up = "up" /\ wr = IdleWriter /\ mx > cm
    /\ mx' = cm
    /\ undone' = undone + 1
    /\ UNCHANGED <<hist, tip, db, wal, cm, files, rep, cop, wr, ck, deps, snaps, obj, born, up, cnt>>

\* ROLLBACK TO a savepoint made when the WAL had f frames.
on_savepoint_undo(f) ==
    /\ up = "up" /\ wr = IdleWriter /\ ck.pc = "idle" /\ f \in cm..mx
    /\ mx' = f
    /\ undone' = IF f < mx THEN undone + 1 ELSE undone
    /\ rep' = reset_frames(rep, f)
    /\ cnt' = IF f > cm THEN [cnt EXCEPT !.early = 1] ELSE cnt
    /\ UNCHANGED <<hist, tip, db, wal, cm, files, cop, wr, ck, deps, snaps, obj, born, up>>

\* The frames of a transaction's last write: its pages in order, the last one commits.
CommitFrames(S) ==
    LET ps == SetToSortSeq(S, <)
        first == Crc(wal.epoch, SubSeq(wal.file, 1, mx))
    IN [i \in 1..Len(ps) |->
            Frame(wal.epoch, ps[i], Len(hist) + 1, i = Len(ps),
                  IF i = 1 THEN first ELSE <<wal.epoch, undone + 1>>)]

\* Every transaction that adds a page writes page 1, which holds the database size.
\* A transaction that spilled commits with what it spilled.
MayWrite(S) ==
    LET spilled == {wal.file[i].page : i \in (cm + 1)..mx}
        written == S \cup spilled
    IN 1 \in written \/ \A p \in written : Content.pages[p] # 0

\* on_frames of a commit: the WAL and the shadow log are written first ...
WriteFrames(S) ==
    /\ up = "up" /\ wr = IdleWriter /\ Len(hist) < MaxTxns
    /\ MayWrite(S)
    /\ LET v == Len(hist) + 1
           spilled == {wal.file[i].page : i \in (cm + 1)..mx}
           written == S \cup spilled
       IN /\ hist' = Append(hist,
                [pages |-> [p \in Pages |-> IF p \in written THEN v ELSE Content.pages[p]],
                 ctr |-> IF 1 \in written THEN Content.ctr + 1 ELSE Content.ctr,
                 undos |-> {wal.file[i].undo : i \in (cm + 1)..mx} \cup {undone},
                 parent |-> tip])
          /\ tip' = v
    /\ wal' = Overwrite(CommitFrames(S))
    /\ mx' = mx + Cardinality(S) /\ cm' = mx + Cardinality(S)
    /\ wr' = [valid |-> mx, n |-> Cardinality(S)]
    /\ UNCHANGED <<db, undone, files, rep, cop, ck, deps, snaps, obj, born, up, cnt>>

\* ... then, under the Replicator's mutex, the frames are submitted.
SubmitFrames ==
    /\ up = "up" /\ wr # IdleWriter /\ ck.pc = "idle"
    /\ rep' = submit_frames(register_last_valid_frame(rep, wr.valid), wr.n)
    /\ wr' = IdleWriter
    /\ UNCHANGED <<sqlite, files, cop, ck, deps, snaps, obj, born, up, cnt>>

-----------------------------------------------------------------------------
(* The copier task. *)

\* The task wakes up, on a request or after batch_interval, and reads next_frame_no.
CopierLoad ==
    /\ up \in {"up", "booting"} /\ cop.pc = "idle"
    /\ cop' = [cop EXCEPT !.pc = "swap", !.hi = rep.next - 1]
    /\ UNCHANGED <<sqlite, files, rep, wr, ck, deps, snaps, obj, born, up, cnt>>

\* It exchanges last_sent_frame_no; an empty range sends it back to sleep.
CopierSwap ==
    /\ cop.pc = "swap"
    /\ rep' = [rep EXCEPT !.sent = cop.hi]
    /\ cop' = IF rep.sent + 1 > cop.hi THEN IdleCopier(cop.hdr)
              ELSE [cop EXCEPT !.pc = "open", !.lo = rep.sent + 1]
    /\ UNCHANGED <<sqlite, files, wr, ck, deps, snaps, obj, born, up, cnt>>

\* The end of a flush: the result goes to the watch of wait_until_committed.
FlushEnds(result, hdr) ==
    /\ cop' = IdleCopier(hdr)
    /\ rep' = [rep EXCEPT !.committed = result]

\* flush opens the WAL once and keeps the header it read; a range that starts at frame 1
\* begins with the .meta file of the generation.
CopierOpen ==
    /\ cop.pc = "open"
    /\ LET hdr == IF cop.hdr = 0 /\ wal.file # << >> THEN wal.epoch ELSE cop.hdr
       IN IF hdr = 0 THEN FlushEnds(Error, 0) /\ UNCHANGED <<files, cnt>>
          ELSE /\ cop' = [cop EXCEPT !.pc = "copy", !.hdr = hdr, !.gen = rep.gen,
                                     !.ts = cnt.flushes]
               /\ cnt' = [cnt EXCEPT !.flushes = @ + 1]
               /\ files' = IF cop.lo = 1
                           THEN files \cup {[gen |-> rep.gen, kind |-> "meta", queued |-> TRUE,
                                             crc |-> <<hdr, 0>>]}
                           ELSE files
               /\ UNCHANGED rep
    /\ UNCHANGED <<sqlite, wr, ck, deps, snaps, obj, born, up>>

BatchEnd == IF cop.lo + BatchLen - 1 < cop.hi THEN cop.lo + BatchLen - 1 ELSE cop.hi

BatchFile(frames, queued) ==
    [gen |-> cop.gen, kind |-> "batch", queued |-> queued,
     first |-> cop.lo, last |-> BatchEnd, ts |-> cop.ts, frames |-> frames]

MutCopierCopy ==
    /\ cop.pc = "copy"
    /\ files' = files \cup {BatchFile(SubSeq(wal.file, cop.lo, BatchEnd), TRUE)}
    /\ FlushEnds(cop.hi, cop.hdr)
    /\ UNCHANGED <<sqlite, wr, ck, deps, snaps, obj, born, up, cnt>>

\* The file of the next batch is made, filled with what the WAL file holds there by now,
\* possibly less than the batch, and handed to the upload task.
CopierCopy ==
    /\ cop.pc = "copy"
    /\ files' = files \cup {BatchFile(SubSeq(wal.file, cop.lo,
                               IF BatchEnd < Len(wal.file) THEN BatchEnd ELSE Len(wal.file)),
                               TRUE)}
    /\ IF BatchEnd = cop.hi THEN FlushEnds(cop.hi, cop.hdr)
       ELSE cop' = [cop EXCEPT !.lo = BatchEnd + 1] /\ UNCHANGED rep
    /\ UNCHANGED <<sqlite, wr, ck, deps, snaps, obj, born, up, cnt>>

-----------------------------------------------------------------------------
(* Uploads: any order, each may fail; a failed one is only logged. *)

Running == up \in {"up", "booting"}
Fails == cnt.failures < MaxFailures /\ cnt' = [cnt EXCEPT !.failures = @ + 1]

PutFile(o, f) ==
    IF f.kind = "meta" THEN [o EXCEPT ![f.gen].meta = f.crc]
    ELSE [o EXCEPT ![f.gen].batches =
              @ \cup {[first |-> f.first, last |-> f.last, ts |-> f.ts, frames |-> f.frames]}]

\* The upload task removes the file it has put; the file of a failed put stays.
UploadFile(f) ==
    /\ Running /\ f \in files /\ f.queued
    /\ \/ obj' = PutFile(obj, f) /\ files' = files \ {f} /\ UNCHANGED cnt
       \/ /\ Fails
          /\ files' = (files \ {f}) \cup {[f EXCEPT !.queued = FALSE]}
          /\ UNCHANGED obj
    /\ UNCHANGED <<sqlite, rep, cop, wr, ck, deps, snaps, born, up>>

store_dependency(d) ==
    /\ up # "down" /\ d \in deps
    /\ deps' = deps \ {d}
    /\ \/ obj' = [obj EXCEPT ![d.gen].dep = d.prev] /\ UNCHANGED cnt
       \/ Fails /\ UNCHANGED obj
    /\ UNCHANGED <<sqlite, files, rep, cop, wr, ck, snaps, born, up>>

\* The snapshot task reads the main file page by page (tokio::io::copy), while checkpoints
\* may write to it.
CopySnapshot(t) ==
    /\ up # "down" /\ t \in snaps /\ t.read < NPages
    /\ LET p == t.read + 1
       IN  snaps' = (snaps \ {t}) \cup
                {[t EXCEPT !.read = p, !.file.pages[p] = db.pages[p],
                           !.file.ctr = IF p = 1 THEN db.ctr ELSE @]}
    /\ UNCHANGED <<sqlite, files, rep, cop, wr, ck, deps, obj, born, up, cnt>>

\* snapshot_notifier: the watch of the Replicator that started the task.
Announce(t, result) ==
    rep' = IF t.heard THEN [rep EXCEPT !.snapshotted = result] ELSE rep

PutSnapshot(t) ==
    /\ up # "down" /\ t \in snaps /\ t.read = NPages /\ ~t.put
    /\ \/ /\ obj' = [obj EXCEPT ![t.gen].snap = <<t.file>>]
          /\ snaps' = (snaps \ {t}) \cup {[t EXCEPT !.put = TRUE]}
          /\ UNCHANGED <<rep, cnt>>
       \/ /\ Fails
          /\ snaps' = snaps \ {t}
          /\ Announce(t, Error)
          /\ UNCHANGED obj
    /\ UNCHANGED <<sqlite, files, cop, wr, ck, deps, born, up>>

\* The change counter is the one read when the task was started.
PutChangeCounter(t) ==
    /\ up # "down" /\ t \in snaps /\ t.put
    /\ snaps' = snaps \ {t}
    /\ \/ /\ obj' = [obj EXCEPT ![t.gen].ctr = t.ctr]
          /\ Announce(t, t.gen)
          /\ UNCHANGED cnt
       \/ Fails /\ Announce(t, Error) /\ UNCHANGED obj
    /\ UNCHANGED <<sqlite, files, cop, wr, ck, deps, born, up>>

-----------------------------------------------------------------------------
(* A TRUNCATE checkpoint; the hook holds the Replicator's mutex from its second step on. *)

\* The copy of the WAL into the main file comes first; the WAL is then empty.  With no
\* frame submitted in this generation there is nothing to snapshot.
on_checkpoint ==
    /\ up = "up" /\ wr = IdleWriter /\ mx = cm /\ ck.pc = "idle"
    /\ cnt.checkpoints < MaxCheckpoints
    /\ cnt' = [cnt EXCEPT !.checkpoints = @ + 1]
    /\ db' = Content
    /\ wal' = EmptyWal
    /\ mx' = 0 /\ cm' = 0
    /\ IF rep.next = 1
       THEN rep' = skip_snapshot_for_current_generation(rep) /\ UNCHANGED ck
       ELSE ck' = [ck EXCEPT !.pc = "commit", !.known = rep.next - 1] /\ UNCHANGED rep
    /\ UNCHANGED <<hist, tip, undone, files, cop, wr, deps, snaps, obj, born, up>>

wait_until_committed(n) == rep.committed # Error /\ rep.committed >= n
wait_until_snapshotted(g) == rep.snapshotted = g

\* wait_until_committed, then new_generation.
CheckpointCommitted ==
    /\ up = "up" /\ ck.pc = "commit"
    /\ \/ /\ rep.committed = Error
          /\ ck' = IdleCheckpoint
          /\ UNCHANGED <<rep, deps, born>>
       \/ /\ wait_until_committed(ck.known)
          /\ Len(born) < MaxGens
          /\ rep' = new_generation(rep, Len(born) + 1)
          /\ born' = Append(born, [kind |-> "checkpoint", file |-> db])
          /\ deps' = deps \cup Depends(rep.gen, Len(born) + 1)
          /\ ck' = [ck EXCEPT !.pc = "snapshot", !.prev = rep.gen]
    /\ UNCHANGED <<sqlite, files, cop, wr, snaps, obj, up, cnt>>

\* snapshot_main_db_file: wait_until_snapshotted of the previous generation, then start
\* the snapshot task of this one.
CheckpointSnapshot ==
    /\ up = "up" /\ ck.pc = "snapshot"
    /\ \/ rep.snapshotted = Error /\ UNCHANGED snaps
       \/ /\ wait_until_snapshotted(ck.prev)
          /\ snaps' = snaps \cup SnapshotTask(rep.gen, db)
    /\ ck' = IdleCheckpoint
    /\ UNCHANGED <<sqlite, files, rep, cop, wr, deps, obj, born, up, cnt>>

-----------------------------------------------------------------------------
(* Crash and boot. *)

\* The process stops; the files stay, unless the disk is lost too.  The file the copier
\* is writing may be left without content.
Crash(lost, torn) ==
    /\ up # "down" /\ cnt.restarts < MaxRestarts
    /\ lost => LosesDisk /\ ~torn
    /\ torn => cop.pc = "copy"
    /\ up' = "down"
    /\ cnt' = [cnt EXCEPT !.restarts = @ + 1, !.losses = IF lost THEN @ + 1 ELSE @,
                        !.early = IF Len(wal.file) > cm THEN 1 ELSE @]
    /\ IF lost
       THEN /\ db' = EmptyFile /\ files' = {} /\ cm' = 0 /\ mx' = 0
            /\ wal' = EmptyWal
       ELSE /\ files' = {[f EXCEPT !.queued = FALSE] : f \in files}
                        \cup (IF torn THEN {BatchFile(<< >>, FALSE)} ELSE {})
            /\ mx' = cm
            /\ UNCHANGED <<db, wal, cm>>
    /\ undone' = undone + 1
    /\ rep' = NewReplicator /\ cop' = IdleCopier(0) /\ wr' = IdleWriter
    /\ ck' = IdleCheckpoint /\ deps' = {} /\ snaps' = {}
    /\ UNCHANGED <<hist, tip, obj, born>>

store_metadata(o, g) == [o EXCEPT ![g].meta = <<wal.epoch, 0>>]
get_remote_change_counter(o, g) == o[g].ctr
get_local_wal_page_count == Len(wal.file)

\* compare_with_local: local files against the newest generation.
compare_with_local(o, g) ==
    LET last == get_last_consistent_frame(o, g)
        remote == get_remote_change_counter(o, g)
        pages == get_local_wal_page_count
    IN IF db.ctr > remote \/ (db.ctr = remote /\ pages > last) THEN "snapshot"
       ELSE IF db.ctr = remote /\ pages = last THEN "reuse"
       ELSE "restore"

\* The transaction whose database a file holds, if there is one.
TxnOf(file) ==
    LET S == {v \in 1..Len(hist) : hist[v].pages = file.pages}
    IN IF S = {} THEN 0 ELSE CHOOSE v \in S : \A w \in S : w <= v

\* SQLite opens the database: setting the journal mode gives an empty file its first page.
Opened(file) == IF file.ctr = 0 THEN [file EXCEPT !.ctr = 1] ELSE file

upload_remaining_files(fs) == FoldLeft(PutFile, obj, SetToSeq(fs))

\* The boot returns an error: the Replicator and its tasks are gone, but for the puts
\* of .dep objects and snapshots, which nobody waits for any more.  The next use of the
\* database boots again.
BootFails ==
    /\ up' = "failed"
    /\ rep' = NewReplicator /\ cop' = IdleCopier(0)

\* maybe_replicate_wal: the frames of a WAL file found on disk are submitted at once, when
\* their .meta object is there.
maybe_replicate_wal(r, o, g, frames, refused) ==
    \/ /\ frames = << >> /\ ~refused
       /\ rep' = r /\ obj' = o /\ up' = "up" /\ UNCHANGED cop
    \/ /\ frames # << >> /\ ~refused
       /\ rep' = submit_frames(r, Len(frames))
       /\ obj' = store_metadata(o, g)
       /\ up' = "booting" /\ UNCHANGED cop
    \/ /\ frames # << >> /\ refused
       /\ obj' = o
       /\ BootFails

Unheard(S, failed) == {[t EXCEPT !.heard = @ /\ ~failed] : t \in S}

\* new_generation and snapshot_main_db_file(None), then maybe_replicate_wal.
BootSnapshot(file, frames, prev, o, kind, refused) ==
    LET g == Len(born) + 1
    IN /\ g <= MaxGens
       /\ born' = Append(born, [kind |-> kind, file |-> file])
       /\ deps' = deps \cup Depends(prev, g)
       /\ snaps' = Unheard(snaps \cup SnapshotTask(g, file), refused)
       /\ maybe_replicate_wal(new_generation(NewReplicator, g), o, g, frames, refused)

\* set_generation: the newest generation goes on.
BootReuses(g, o) ==
    /\ rep' = set_generation(NewReplicator, g)
    /\ obj' = o /\ up' = "up"
    /\ UNCHANGED <<cop, born, deps, snaps>>

\* init_bottomless_replicator: restore and what follows from its action.  The files of
\* the newest generation that were left behind are put first, each of which may fail.
\* A restore takes the local files away before it begins; one that fails leaves what it
\* has written up to then.
Boot ==
    /\ up \in {"down", "failed"}
    /\ \E bad \in SUBSET files, refused \in BOOLEAN :
         LET g == latest_generation(obj)
             left == {f \in files : f.gen = g}
             o == IF g = 0 THEN obj ELSE upload_remaining_files(left \ bad)
             act == IF g = 0 THEN "snapshot" ELSE compare_with_local(o, g)
             res == IF g = 0 THEN Restored ELSE restore_from(o, g)
             failures == Cardinality(bad) + IF refused THEN 1 ELSE 0
         IN /\ bad \subseteq left /\ cnt.failures + failures <= MaxFailures
            /\ refused => act = "snapshot"
            /\ files' = files \ (left \ bad)
            /\ cnt' = [cnt EXCEPT !.failures = @ + failures]
            /\ \/ /\ act = "reuse"
                  /\ BootReuses(g, o)
                  /\ db' = Opened(db)
                  /\ UNCHANGED <<tip, wal, mx, cm>>
               \/ /\ act = "snapshot"
                  /\ BootSnapshot(db, wal.file, g, o,
                         IF g = 0 /\ db.pages = NoPages THEN "fresh" ELSE "local", refused)
                  /\ db' = IF refused THEN db ELSE Opened(db)
                  /\ UNCHANGED <<tip, wal, mx, cm>>
               \/ /\ act = "restore"
                  /\ db' = IF res.failed THEN res.file ELSE Opened(res.file)
                  /\ tip' = TxnOf(res.file)
                  /\ wal' = EmptyWal
                  /\ mx' = 0 /\ cm' = 0
                  /\ \/ /\ res.failed
                        /\ BootFails /\ obj' = o
                        /\ UNCHANGED <<born, deps, snaps>>
                     \/ /\ ~res.failed /\ res.applied
                        /\ BootSnapshot(res.file, << >>, g, o, "restored", FALSE)
                     \/ /\ ~res.failed /\ ~res.applied
                        /\ BootReuses(g, o)
    /\ UNCHANGED <<hist, undone, wr, ck>>

\* maybe_replicate_wal returns once the copier has flushed the local WAL.
BootEnds ==
    /\ up = "booting"
    /\ \/ /\ rep.committed = Error
          /\ BootFails
          /\ files' = {[f EXCEPT !.queued = FALSE] : f \in files}
          /\ snaps' = Unheard(snaps, TRUE)
       \/ /\ wait_until_committed(rep.next - 2) /\ up' = "up"
          /\ UNCHANGED <<files, rep, cop, snaps>>
    /\ UNCHANGED <<sqlite, wr, ck, deps, obj, born, cnt>>

-----------------------------------------------------------------------------
\* The transaction that made the content a database has before its backup begins.
Seed == [pages |-> [p \in Pages |-> 1], ctr |-> 1, undos |-> {0}, parent |-> 0]

Init ==
    /\ hist = (IF Seeded THEN <<Seed>> ELSE << >>) /\ tip = Len(hist)
    /\ db = (IF Seeded THEN [ctr |-> Seed.ctr, pages |-> Seed.pages] ELSE EmptyFile)
    /\ wal = [epoch |-> 1, file |-> << >>]
    /\ mx = 0 /\ cm = 0 /\ undone = 0
    /\ files = {} /\ rep = NewReplicator /\ cop = IdleCopier(0)
    /\ wr = IdleWriter /\ ck = IdleCheckpoint
    /\ deps = {} /\ snaps = {}
    /\ obj = [g \in Gens |-> NoObjects]
    /\ born = << >> /\ up = "down"
    /\ cnt = [spills |-> 0, checkpoints |-> 0, restarts |-> 0, losses |-> 0,
              failures |-> 0, flushes |-> 0, early |-> 0]

Copier == CopierLoad \/ CopierSwap \/ CopierOpen \/ CopierCopy

Uploads ==
    \/ \E f \in files : UploadFile(f)
    \/ \E d \in deps : store_dependency(d)
    \/ \E t \in snaps : CopySnapshot(t) \/ PutSnapshot(t) \/ PutChangeCounter(t)

Checkpoint == CheckpointCommitted \/ CheckpointSnapshot

Next ==
    \/ \E p \in Pages : Spill(p)
    \/ on_undo
    \/ \E f \in cm..mx : on_savepoint_undo(f)
    \/ \E S \in SUBSET Pages \ {{}} : WriteFrames(S)
    \/ SubmitFrames
    \/ Copier
    \/ Uploads
    \/ on_checkpoint
    \/ Checkpoint
    \/ \E lost, torn \in BOOLEAN : Crash(lost, torn)
    \/ Boot
    \/ BootEnds

Spec == Init /\ [][Next]_vars

\* The runtime keeps running the tasks; clients and crashes are not obliged to act, and a
\* process that crashed need not be started again.
FairSpec ==
    /\ Spec
    /\ WF_vars(SubmitFrames) /\ WF_vars(Copier) /\ WF_vars(Checkpoint)
    /\ WF_vars(BootEnds)
    /\ WF_vars(\E f \in files : UploadFile(f))
    /\ WF_vars(\E d \in deps : store_dependency(d))
    /\ WF_vars(\E t \in snaps : CopySnapshot(t) \/ PutSnapshot(t) \/ PutChangeCounter(t))

-----------------------------------------------------------------------------
(* Properties. *)

FileType == [ctr : 0..(MaxTxns + 1), pages : [Pages -> (0..MaxTxns) \cup {Garbage}]]

TypeOK ==
    /\ Len(hist) <= MaxTxns /\ tip \in 0..Len(hist)
    /\ db \in FileType
    /\ cm <= mx /\ mx <= Len(wal.file)
    /\ rep.gen \in 0..Len(born) /\ rep.next >= 1 /\ rep.sent >= 0
    /\ cop.pc \in {"idle", "swap", "open", "copy"}
    /\ ck.pc \in {"idle", "commit", "snapshot"}
    /\ up \in {"down", "booting", "up", "failed"}
    /\ \A f \in files : f.gen \in 1..Len(born)

Ancestors(v) ==
    LET anc[w \in 0..Len(hist)] == IF w = 0 THEN {0} ELSE {w} \cup anc[hist[w].parent]
    IN anc[v]

PagesOf(v) == IF v = 0 THEN NoPages ELSE hist[v].pages

\* The generations a restore would replay have their base in the bucket: a snapshot, or
\* the whole WAL since the database was empty, and every later one was started from what
\* a restore of the one before it had yielded.
BaseUploaded ==
    LET g == latest_generation(obj)
        stack == restore_stack(obj)[g]
    IN g # 0 =>
         /\ obj[Head(stack)].snap # << >> \/ born[Head(stack)].kind = "fresh"
         /\ \A i \in 2..Len(stack) : born[stack[i]].kind = "restored"

\* Whatever was uploaded, in whatever order, a restore yields a database some transaction
\* of this history committed, never a mixture (replicator.rs, restore_wal).  Claimed as
\* long as no checkpoint has cut the WAL under the copier.
RestoresCommittedState ==
    BaseUploaded /\ cnt.checkpoints = 0 /\ ~Restored.failed =>
        \E v \in Ancestors(tip) : Restored.file.pages = PagesOf(v)

\* The newest generation is restored to a committed transaction once its snapshot is
\* there, and to none older than the main file the snapshot was taken of, although a
\* checkpoint of an earlier generation may have written to that file.  Claimed until the
\* next checkpoint writes to it: the task of this snapshot may still be reading it then.
SnapshotIsRestorable ==
    LET g == latest_generation(obj)
    IN g # 0 /\ rep.gen = g /\ obj[g].snap # << >> /\ db = born[g].file
       /\ ~Restored.failed =>
         \E v \in Ancestors(tip) :
             Restored.file.pages = PagesOf(v) /\ TxnOf(db) \in Ancestors(v)

Quiescent ==
    /\ up = "up" /\ wr = IdleWriter /\ ck = IdleCheckpoint /\ mx = cm
    /\ cop.pc = "idle" /\ rep.sent + 1 >= rep.next
    /\ files = {} /\ deps = {} /\ snaps = {}

\* No put failed, no disk was lost, no checkpoint cut the WAL, and no frame of an open
\* transaction was taken for a committed one, by rolling back to a savepoint above it or
\* by booting with it in the WAL file.
Undisturbed ==
    cnt.failures = 0 /\ cnt.losses = 0 /\ cnt.early = 0 /\ cnt.checkpoints = 0

\* Once everything is uploaded, a restore on an empty disk yields the last committed
\* transaction, across a restart too.
QuietBackupIsComplete ==
    Quiescent /\ Undisturbed => ~Restored.failed /\ Restored.file.pages = Content.pages

\* A boot that finds transactions in the local files keeps them (compare_with_local).
\* No run checks it: the change counters and frame counts that the boot compares may put
\* the bucket first although the disk is newer (NPages = 2, MaxTxns = 3,
\* MaxCheckpoints = 2, MaxRestarts = 1, MaxFailures = 0, BatchLen = 4 shows it).
BootKeepsCommits ==
    [][Content.pages # NoPages /\ up \in {"down", "failed"} =>
          Content'.pages = Content.pages]_vars

\* Every committed transaction reaches the bucket in the end.
EventuallyBackedUp ==
    <>[](up = "up" /\ Undisturbed => Restored.file.pages = Content.pages)

\* A boot never opens a database that no transaction committed.  The comment in
\* restore_from takes a generation without a snapshot and without a parent for the
\* initial one; a second restart before the snapshot of a boot is there shows that it
\* need not be (MaxRestarts = 2).
BootsCommittedState ==
    up = "up" => \E v \in 0..Len(hist) : Content.pages = PagesOf(v)
=============================================================================
