----------------------------- MODULE Replication -----------------------------
(***************************************************************************)
(* A replica of one database following the log of its primary.             *)
(*                                                                         *)
(* The primary is FrameLog. On top of it:                                  *)
(*   - the replication service and its FrameStream on the primary          *)
(*     (rpc/replication_log.rs, replication/primary/frame_stream.rs);      *)
(*   - the Replicator task, its handshake, its channel to the injector     *)
(*     (replication/replica/replicator.rs, meta.rs);                       *)
(*   - the injector thread that writes the frames into the replica's       *)
(*     database and records its progress (replica/hook.rs, injector.rs);   *)
(*   - restarts of either side and connections that break.                 *)
(*                                                                         *)
(* A batch is a sequence of frames, in the order they are handed to        *)
(* SQLite: ascending frame numbers from the stream, descending ones from   *)
(* a snapshot.                                                             *)
(***************************************************************************)
EXTENDS FrameLog, SequencesExt

CONSTANTS
    MinFirst,      \* least number of frames in a log that is not empty
    Merges,        \* whether the primary's merger thread merges snapshots
    MaxFiles,      \* bound on the logs swapped out and kept
    MaxBuffer,     \* MAX_REPLICA_REPLICATION_BUFFER_LEN
    MaxRecoveries, \* bound on primaries that rebuild their log
    MaxCrashes,    \* bound on restarts of the replica
    MaxBreaks,     \* bound on connections that break
    MaxDisruptions \* bound on all of these and the restarts of the primary

Hole == 0           \* a page the database grows by without writing it
FrameNoMax == 999  \* FrameNo::MAX: nothing applied since the replica started
NoMeta == [db |-> -1, gen |-> -1, pre |-> 0, post |-> 0]

ASSUME ReplicationAssumption ==
    /\ {MinFirst, MaxFiles, MaxBuffer, MaxRecoveries} \subseteq Nat
    /\ {MaxCrashes, MaxBreaks, MaxDisruptions} \subseteq Nat
    /\ MaxPage + MaxVer < FrameNoMax /\ Merges \in BOOLEAN

VARIABLES
    \* the primary's side of a connection
    hello,      \* the replica is in replicas_with_hello
    st,         \* FrameStream.state
    cur,        \* FrameStream.current_frame_no
    avail,      \* FrameStream.max_available_frame_no
    sub,        \* the notifier value the stream subscribed at
    \* the replica's disk
    rdb,        \* its committed database
    mfile,      \* client_wal_index: a WalIndexMeta, or NoMeta
    \* the replica's memory
    rp,         \* the Replicator task
    buf,        \* the frames of replicate() not yet handed over
    meta,       \* Replicator.meta
    applied,    \* current_frame_no_notifier
    chan,       \* the frames channel, of capacity 1
    inj,        \* the injector thread
    batch,      \* the frames it injects
    pend,       \* pages it has written but not committed
    \* history
    hwm,        \* the newest frame ever injected into this database
    crashes, breaks

streamVars == <<hello, st, cur, avail, sub>>
injVars == <<inj, batch, pend>>
boundVars == <<crashes, breaks>>
replVars == <<streamVars, rdb, mfile, rp, buf, meta, applied, chan, injVars, hwm,
              boundVars>>
vars == <<logVars, replVars>>

\* One more crash, broken connection or restart of the primary is allowed.
MayDisrupt == crashes + breaks + gen < MaxDisruptions

-----------------------------------------------------------------------------
(* Handshake (WalIndexMeta, Replicator::try_perform_handshake).            *)

new_from_hello ==
    [db |-> dbid, gen |-> gen, pre |-> FrameNoMax, post |-> FrameNoMax]

\* merge_from_hello, for the cases in which it succeeds.
Mergeable(m) ==
    /\ m.db = dbid
    /\ m.gen = gen \/ m.pre <= genStart

\* The meta of this process, or else the one on disk.
CurrentMeta == IF meta = NoMeta THEN mfile ELSE meta

\* ReplicationLogService::hello remembers the replica, whatever comes of it.
SayHello == hello' = TRUE

\* Mutant: the hello is taken without a look at the meta the replica has.
MutTrustHello ==
    /\ rp = "handshake"
    /\ meta' = new_from_hello
    /\ SayHello
    /\ rp' = "connect"
    /\ UNCHANGED <<logVars, st, cur, avail, sub, rdb, mfile, buf, applied, chan,
                   injVars, hwm, boundVars>>

HandshakeOk ==
    /\ rp = "handshake"
    /\ \/ CurrentMeta = NoMeta /\ meta' = new_from_hello
       \/ /\ CurrentMeta # NoMeta /\ Mergeable(CurrentMeta)
          /\ meta' = [CurrentMeta EXCEPT !.gen = gen]
    /\ SayHello
    /\ rp' = "connect"
    /\ UNCHANGED <<logVars, st, cur, avail, sub, rdb, mfile, buf, applied, chan,
                   injVars, hwm, boundVars>>

\* DbIncompatible or Lagging: the namespace is to be reset, which ends this
\* task (NamespaceStore::reset shuts the tasks of the namespace down).
HandshakeRejected ==
    /\ rp = "handshake"
    /\ CurrentMeta # NoMeta /\ ~Mergeable(CurrentMeta)
    /\ SayHello
    /\ rp' = IF CurrentMeta.db # dbid THEN "incompatible" ELSE "lagging"
    /\ UNCHANGED <<logVars, st, cur, avail, sub, rdb, mfile, buf, meta, applied,
                   chan, injVars, hwm, boundVars>>

\* Mutant: a replica that starts goes on after the frame it was about to commit.
MutOffsetFromMeta ==
    IF applied # FrameNoMax THEN applied + 1
    ELSE IF meta.pre = FrameNoMax THEN 0 ELSE meta.pre + 1

next_offset == IF applied = FrameNoMax THEN 0 ELSE applied + 1

-----------------------------------------------------------------------------
(* Replicator::replicate and the FrameStream it polls.                     *)

\* The stream on the primary is gone.
DropStream(s) == st' = s /\ cur' = 0 /\ avail' = 0 /\ sub' = 0

\* log_entries: refused unless the replica has said hello to this process.
LogEntries ==
    /\ rp = "connect" /\ hello
    /\ cur' = next_offset
    /\ avail' = top
    /\ st' = "frame"
    /\ buf' = <<>>
    /\ rp' = "stream"
    /\ UNCHANGED <<logVars, hello, sub, rdb, mfile, meta, applied, chan, injVars,
                   hwm, boundVars>>

LogEntriesRefused ==
    /\ rp = "connect" /\ ~hello
    /\ rp' = "handshake"
    /\ UNCHANGED <<logVars, streamVars, rdb, mfile, buf, meta, applied, chan,
                   injVars, hwm, boundVars>>

\* The stream yields a frame of the live log; the replicator hands its buffer
\* over at the end of a transaction or when it is full.
StreamFrame ==
    /\ rp = "stream" /\ st = "frame"
    /\ first <= cur /\ cur < next
    /\ cur' = cur + 1
    /\ buf' = Append(buf, hist[cur])
    /\ rp' = IF hist[cur].size # 0 \/ Len(buf') > MaxBuffer THEN "send" ELSE "stream"
    /\ UNCHANGED <<logVars, hello, st, avail, sub, rdb, mfile, meta, applied,
                   chan, injVars, hwm, boundVars>>

\* LogReadError::Ahead
StreamAhead ==
    /\ rp = "stream" /\ st = "frame"
    /\ cur >= next
    /\ st' = "ahead"
    /\ UNCHANGED <<logVars, hello, cur, avail, sub, rdb, mfile, rp, buf, meta,
                   applied, chan, injVars, hwm, boundVars>>

\* Mutant: the notifier is not read again after subscribing to it.
MutNoRecheck ==
    /\ rp = "stream" /\ st = "ahead"
    /\ st' = "wait" /\ sub' = top
    /\ UNCHANGED <<logVars, hello, cur, avail, rdb, mfile, rp, buf, meta, applied,
                   chan, injVars, hwm, boundVars>>

\* The stream subscribes to the notifier and reads it: if it has moved since the
\* stream last looked, the log is read again, else the stream waits.
StreamSubscribe ==
    /\ rp = "stream" /\ st = "ahead"
    /\ IF top > avail THEN st' = "frame" /\ avail' = top /\ UNCHANGED sub
                      ELSE st' = "wait" /\ sub' = top /\ UNCHANGED avail
    /\ UNCHANGED <<logVars, hello, cur, rdb, mfile, rp, buf, meta, applied, chan,
                   injVars, hwm, boundVars>>

StreamNotified ==
    /\ rp = "stream" /\ st = "wait" /\ top # sub
    /\ st' = "frame"
    /\ avail' = top
    /\ sub' = 0
    /\ UNCHANGED <<logVars, hello, cur, rdb, mfile, rp, buf, meta, applied,
                   chan, injVars, hwm, boundVars>>

\* SnapshotRequired: the stream is over, and so are the buffered frames.
StreamNeedSnapshot ==
    /\ rp = "stream" /\ st = "frame"
    /\ cur < first
    /\ DropStream("closed")
    /\ buf' = <<>>
    /\ rp' = "snapshot"
    /\ UNCHANGED <<logVars, hello, rdb, mfile, meta, applied,
                   chan, injVars, hwm, boundVars>>

\* The frames of a snapshot in the order its file has them, the newest first.
InFileOrder(F) ==
    {q \in SetToSeqs(F) : \A i, j \in DOMAIN q : i < j => q[i].no > q[j].no}

\* load_snapshot: the snapshot that covers the frame after the last applied one.
LoadSnapshot ==
    /\ rp = "snapshot"
    /\ \E r \in SnapshotsOf(next_offset) :
          buf' \in InFileOrder(SnapshotFrames(r, next_offset))
    /\ rp' = "send"
    /\ UNCHANGED <<logVars, streamVars, rdb, mfile, meta, applied, chan, injVars,
                   hwm, boundVars>>

\* There is none (yet): replicate() fails and run() starts over.
SnapshotNotFound ==
    /\ rp = "snapshot"
    /\ SnapshotsOf(next_offset) = {}
    /\ rp' = "handshake"
    /\ UNCHANGED <<logVars, streamVars, rdb, mfile, buf, meta, applied, chan,
                   injVars, hwm, boundVars>>

\* Mutant: the channel has no capacity.
MutUnboundedSend ==
    /\ rp = "send"
    /\ chan' = Append(chan, buf)
    /\ buf' = <<>>
    /\ rp' = IF st = "closed" THEN "handshake" ELSE "stream"
    /\ UNCHANGED <<logVars, streamVars, rdb, mfile, meta, applied, injVars, hwm,
                   boundVars>>

\* frames_sender.send; after a snapshot the closed stream ends replicate().
SendFrames ==
    /\ rp = "send" /\ chan = <<>>
    /\ chan' = <<buf>>
    /\ buf' = <<>>
    /\ rp' = IF st = "closed" THEN "handshake" ELSE "stream"
    /\ UNCHANGED <<logVars, streamVars, rdb, mfile, meta, applied, injVars, hwm,
                   boundVars>>

\* The connection broke: the replicator sees the error when it polls the stream.
Break ==
    /\ st \notin {"closed", "broken"} /\ breaks < MaxBreaks /\ MayDisrupt
    /\ DropStream("broken")
    /\ breaks' = breaks + 1
    /\ UNCHANGED <<logVars, hello, rdb, mfile, rp, buf, meta,
                   applied, chan, injVars, hwm, crashes>>

StreamError ==
    /\ rp = "stream" /\ st = "broken"
    /\ rp' = "handshake"
    /\ buf' = <<>>
    /\ DropStream("closed")
    /\ UNCHANGED <<logVars, hello, rdb, mfile, meta, applied, chan, injVars,
                   hwm, boundVars>>

SnapshotBreaks ==
    /\ rp = "snapshot" /\ breaks < MaxBreaks /\ MayDisrupt
    /\ rp' = "handshake"
    /\ breaks' = breaks + 1
    /\ UNCHANGED <<logVars, streamVars, rdb, mfile, buf, meta, applied, chan,
                   injVars, hwm, crashes>>

-----------------------------------------------------------------------------
(* The injector thread (InjectorHook::on_frames, inject_pages).            *)

\* make_page_header: both start at 0 and change only for a larger frame number.
last_frame_no(b) == Max({0} \cup {b[i].no : i \in DOMAIN b})
size_after(b) ==
    IF last_frame_no(b) = 0 THEN 0
    ELSE LET i == CHOOSE i \in DOMAIN b : b[i].no = last_frame_no(b)
         IN  b[i].size

\* Mutant: the first write of a page wins.
MutOverlayFirst(d, b) ==
    LET written == {b[i].page : i \in DOMAIN b}
    IN  [p \in DOMAIN d \cup written |->
            IF p \in written
            THEN b[Min({i \in DOMAIN b : b[i].page = p})].data
            ELSE d[p]]

\* The pages written on top of d, in the order of the batch.
Overlay(d, b) ==
    LET written == {b[i].page : i \in DOMAIN b}
    IN  [p \in DOMAIN d \cup written |->
            IF p \in written
            THEN b[Max({i \in DOMAIN b : b[i].page = p})].data
            ELSE d[p]]

InjectReceive ==
    /\ inj = "idle" /\ chan # <<>>
    /\ batch' = Head(chan)
    /\ chan' = <<>>
    /\ inj' = IF size_after(batch') # 0 THEN "pre" ELSE "write"
    /\ UNCHANGED <<logVars, streamVars, rdb, mfile, rp, buf, meta, applied, pend,
                   hwm, boundVars>>

PreCommit ==
    /\ inj = "pre"
    /\ meta' = [meta EXCEPT !.pre = last_frame_no(batch)]
    /\ mfile' = meta'
    /\ inj' = "write"
    /\ UNCHANGED <<logVars, streamVars, rdb, rp, buf, applied, chan, batch, pend,
                   hwm, boundVars>>

\* orig(): without a size the pages stay uncommitted in SQLite's WAL.
InjectFrames ==
    /\ inj = "write"
    /\ LET pages == Overlay(pend, batch)
           size == size_after(batch)
       IN  IF size = 0
           THEN /\ pend' = pages
                /\ inj' = "idle" /\ batch' = <<>>
                /\ UNCHANGED rdb
           ELSE /\ rdb' = [p \in 1..size |->
                              IF p \in DOMAIN pages THEN pages[p]
                              ELSE IF p \in DOMAIN rdb THEN rdb[p] ELSE Hole]
                /\ pend' = [p \in {} |-> 0]
                /\ inj' = "post" /\ UNCHANGED batch
    /\ hwm' = Max({hwm, last_frame_no(batch)})
    /\ UNCHANGED <<logVars, streamVars, mfile, rp, buf, meta, applied, chan,
                   boundVars>>

PostCommit ==
    /\ inj = "post"
    /\ meta' = [meta EXCEPT !.post = last_frame_no(batch)]
    /\ mfile' = meta'
    /\ applied' = last_frame_no(batch)
    /\ inj' = "idle" /\ batch' = <<>>
    /\ UNCHANGED <<logVars, streamVars, rdb, rp, buf, chan, pend, hwm,
                   boundVars>>

-----------------------------------------------------------------------------
(* Restarts.                                                               *)

\* The replica's process is killed and starts again: its database and meta file
\* are what is left.
RestartReplica ==
    /\ crashes < MaxCrashes /\ MayDisrupt
    /\ crashes' = crashes + 1
    /\ rp' = "handshake" /\ buf' = <<>> /\ meta' = NoMeta
    /\ applied' = FrameNoMax /\ chan' = <<>>
    /\ inj' = "idle" /\ batch' = <<>> /\ pend' = [p \in {} |-> 0]
    /\ DropStream("closed")
    /\ UNCHANGED <<logVars, hello, rdb, mfile, hwm, breaks>>

\* A log that is not empty has at least MinFirst frames.
LongEnough == next' = 0 \/ next' >= MinFirst

\* A new process on the primary knows no replica, and no stream survives.
PrimaryRestart ==
    /\ MayDisrupt
    /\ CleanRestart \/ (dbid < MaxRecoveries /\ Recover /\ LongEnough)
    /\ hello' = FALSE
    /\ DropStream(IF st = "closed" THEN st ELSE "broken")
    /\ UNCHANGED <<rdb, mfile, rp, buf, meta, applied, chan,
                   injVars, hwm, boundVars>>

PrimaryStep ==
    /\ \/ Commit /\ LongEnough
       \/ Publish \/ Persist
       \/ Compact /\ Len(queue) + Cardinality(files) < MaxFiles
       \/ Merges /\ (Merge \/ Unlink)
    /\ UNCHANGED replVars

\* The replica waits for the primary, or its replication task has ended.
Idle ==
    /\ inj = "idle" /\ chan = <<>>
    /\ \/ rp = "stream" /\ st = "wait"
       \/ rp \in {"lagging", "incompatible"}
    /\ UNCHANGED vars

-----------------------------------------------------------------------------
Init ==
    /\ LogInit
    /\ hello = FALSE /\ st = "closed" /\ cur = 0 /\ avail = 0 /\ sub = 0
    /\ rdb = [p \in {} |-> 0] /\ mfile = NoMeta
    /\ rp = "handshake" /\ buf = <<>> /\ meta = NoMeta
    /\ applied = FrameNoMax /\ chan = <<>>
    /\ inj = "idle" /\ batch = <<>> /\ pend = [p \in {} |-> 0]
    /\ hwm = -1 /\ crashes = 0 /\ breaks = 0

Replicator ==
    \/ HandshakeOk \/ HandshakeRejected \/ LogEntries \/ LogEntriesRefused
    \/ StreamFrame \/ StreamAhead \/ StreamSubscribe \/ StreamNotified
    \/ StreamNeedSnapshot \/ LoadSnapshot \/ SnapshotNotFound \/ SendFrames
    \/ StreamError

Injector == InjectReceive \/ PreCommit \/ InjectFrames \/ PostCommit

Faults == Break \/ SnapshotBreaks \/ RestartReplica \/ PrimaryRestart

Next == PrimaryStep \/ Replicator \/ Injector \/ Faults \/ Idle

Spec == Init /\ [][Next]_vars

\* The replicator task, the injector thread and the primary's threads all run;
\* nobody has to write, restart or break anything.
Fairness ==
    /\ WF_vars(Replicator) /\ WF_vars(Injector)
    /\ WF_vars(Publish /\ UNCHANGED replVars)
    /\ WF_vars(Persist /\ UNCHANGED replVars)

FairSpec == Spec /\ Fairness

-----------------------------------------------------------------------------
(* Properties.                                                             *)

Batches == UNION {[1..n -> [no : 0..(FrameNoMax - 1), page : Pages,
                            size : 0..MaxPage, data : 1..MaxVer]] : n \in 0..MaxVer}
Metas == [db : Nat, gen : Nat, pre : 0..FrameNoMax, post : 0..FrameNoMax]

\* Type invariant of the replica.
TypeOK ==
    /\ hello \in BOOLEAN
    /\ st \in {"closed", "frame", "ahead", "wait", "broken"}
    /\ cur \in Nat /\ avail \in Nat /\ sub \in Nat
    /\ DOMAIN rdb \subseteq Pages
    /\ mfile \in Metas \cup {NoMeta} /\ meta \in Metas \cup {NoMeta}
    /\ rp \in {"handshake", "connect", "stream", "snapshot", "send", "lagging",
               "incompatible"}
    /\ applied \in 0..FrameNoMax
    /\ Len(chan) <= 1
    /\ inj \in {"idle", "pre", "write", "post"}
    /\ inj # "idle" => meta # NoMeta

\* The replica follows the database the primary has now.
SameDatabase == meta # NoMeta /\ meta.db = dbid

\* Once the replica has caught up with everything it ever injected, its database
\* is exactly the primary's after the frame it reports as applied: no replayed
\* frame, duplicated batch, snapshot or half-injected transaction is left in it.
CaughtUpIsExact ==
    SameDatabase /\ inj # "post" /\ applied # FrameNoMax /\ applied >= hwm
        => rdb = DbAt(hist, applied + 1)

\* A reader of the replica sees the database as some transaction of the primary
\* left it, whatever the injector is doing.
Boundaries == {0} \cup {n \in 1..next : hist[n - 1].size # 0}
ReadsAreCommittedStates ==
    SameDatabase => \E n \in Boundaries : rdb = DbAt(hist, n)

\* Whatever is replayed, duplicated, cut off or restarted, every page of the
\* replica holds a content that page had in the database the replica follows:
\* frames of a database that was rebuilt in between are never mixed in. (A page
\* that a shrink removed and no frame has written since is a Hole.)
PagesAreHistory ==
    SameDatabase =>
        \A p \in {q \in DOMAIN rdb : rdb[q] # Hole} :
            \E f \in 0..(next - 1) : hist[f].page = p /\ hist[f].data = rdb[p]

\* CONSISTENCY_MODEL.md: "reads on a replica are monotonical". They are not: a page goes
\* back when a snapshot is injected behind batches that were already queued (MaxFiles = 2,
\* no disruption), and with the first commit after a restart.
MonotonicReads ==
    [][SameDatabase /\ SameDatabase' =>
          \A p \in DOMAIN rdb \cap DOMAIN rdb' : rdb'[p] >= rdb[p]]_vars

\* Once the primary is idle the replica has its database, unless its replication
\* task has ended.
Ended == rp \in {"lagging", "incompatible"}
Converges == <>[](Ended \/ rdb = DbAt(hist, next))

=============================================================================
