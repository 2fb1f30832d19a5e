------------------------------ MODULE FrameLog ------------------------------
(***************************************************************************)
(* The replication log of one database as the primary promises it to the   *)
(* readers of the log (replicas, forks): a history of frames that only     *)
(* grows, a notifier that announces it, a live log that holds its tail and *)
(* snapshots that hold the rest.                                           *)
(*                                                                         *)
(* Primary.tla is the detailed model of the code that has to keep this     *)
(* promise and is checked to implement it; Replication.tla runs a replica  *)
(* against it.                                                             *)
(***************************************************************************)
EXTENDS Frames, Sequences

CONSTANTS
    MaxTxnLen,    \* frames a transaction may write
    MaxVer,       \* bound on the page versions ever written
    MaxSkip,      \* versions a rolled back transaction may burn
    MaxRestarts   \* bound on the restarts of the primary

ASSUME FrameLogAssumption ==
    /\ MaxTxnLen \in Nat \ {0}
    /\ {MaxVer, MaxSkip, MaxRestarts} \subseteq Nat

VARIABLES
    dbid,      \* LogFileHeader.db_id: a new one each time the log is rebuilt
    gen,       \* Generation.id: a new one each time the primary starts
    genStart,  \* Generation.start_index
    hist,      \* hist[f] is committed frame number f of this database
    next,      \* the frame number the next committed frame will have
    first,     \* LogFileHeader.start_frame_no of the live log
    top,       \* new_frame_notifier: the last value announced to the readers
    queue,     \* logs swapped out and not compacted yet: <<from, to>>, to excluded
    files,     \* the snapshot files: <<from, to>>, to excluded
    ver        \* the newest committed page version

logVars == <<dbid, gen, genStart, hist, next, first, top, queue, files, ver>>

-----------------------------------------------------------------------------
\* A transaction: the pages it writes, in order, and the size it leaves.
Txns ==
    [pages : UNION {[1..n -> Pages] : n \in 1..MaxTxnLen}, size : Pages]

TxnLen(t) == Cardinality(DOMAIN t.pages)

Touched(t) == {t.pages[i] : i \in DOMAIN t.pages}

\* SQLite writes every page by which the database grows, and the frame that
\* commits holds a page of the database.
Possible(t, size) ==
    /\ \A p \in (size + 1)..t.size : p \in Touched(t)
    /\ t.pages[TxnLen(t)] <= t.size

\* h after transaction t, whose first frame carries page version d + 1.
Extend(h, n, t, d) ==
    [f \in 0..(n + TxnLen(t) - 1) |->
        IF f < n THEN h[f]
        ELSE Frame(f, t.pages[f - n + 1],
                   IF f = n + TxnLen(t) - 1 THEN t.size ELSE 0,
                   d + (f - n) + 1)]

-----------------------------------------------------------------------------
LogInit ==
    /\ dbid = 0 /\ gen = 0 /\ genStart = 0
    /\ hist = [f \in {} |-> 0]
    /\ next = 0 /\ first = 0 /\ top = 0
    /\ queue = <<>> /\ files = {} /\ ver = 0

\* A transaction commits to the log: its frames are readable from here on.
\* The writer announces a transaction before the next one can start.
Commit ==
    /\ top = next
    /\ UNCHANGED <<dbid, gen, genStart, first, top, queue, files>>
    /\ \E t \in Txns, d \in ver..(ver + MaxSkip) :
        /\ Possible(t, SizeAt(hist, next))
        /\ d + TxnLen(t) <= MaxVer
        /\ next' = next + TxnLen(t)
        /\ ver' = d + TxnLen(t)
        /\ hist' = Extend(hist, next, t, d)

\* The notifier announces what was committed.
Publish ==
    /\ top < next
    /\ top' = next
    /\ UNCHANGED <<dbid, gen, genStart, hist, next, first, queue, files, ver>>

\* The live log is swapped for an empty one; the old one is to be compacted.
Compact ==
    /\ first < next
    /\ first' = next
    /\ queue' = Append(queue, <<first, next>>)
    /\ UNCHANGED <<dbid, gen, genStart, hist, next, top, files, ver>>

\* The oldest log that was swapped out becomes a snapshot.
Persist ==
    /\ queue # <<>>
    /\ queue' = Tail(queue)
    /\ files' = files \cup {Head(queue)}
    /\ UNCHANGED <<dbid, gen, genStart, hist, next, first, top, ver>>

\* Neighbouring snapshots are merged into one that covers them all. At first both
\* the result and its inputs are there.
Within(r, q) == q[1] <= r[1] /\ r[2] <= q[2]
Tiled(r) ==
    \A f \in r[1]..(r[2] - 1) : \E q \in files : Within(q, r) /\ q[1] <= f /\ f < q[2]
Merge ==
    /\ \E q1, q2 \in files :
          /\ q1[1] <= q2[1] /\ Tiled(<<q1[1], q2[2]>>)
          /\ files' = files \cup {<<q1[1], q2[2]>>}
    /\ UNCHANGED <<dbid, gen, genStart, hist, next, first, top, queue, ver>>

Unlink ==
    /\ \E r \in files :
          /\ \E q \in files \ {r} : Within(r, q)
          /\ files' = files \ {r}
    /\ UNCHANGED <<dbid, gen, genStart, hist, next, first, top, queue, ver>>

\* The compactor thread ends, or the process that runs it: logs it was to compact
\* will not become snapshots.
Abandon ==
    /\ \E n \in 1..Len(queue) : queue' = SubSeq(queue, n + 1, Len(queue))
    /\ UNCHANGED <<dbid, gen, genStart, hist, next, first, top, files, ver>>

\* The primary stops and starts again with its log: a new generation.
CleanRestart ==
    /\ gen < MaxRestarts
    /\ top = next
    /\ queue = <<>>
    /\ gen' = gen + 1
    /\ genStart' = next
    /\ UNCHANGED <<dbid, hist, next, first, top, queue, files, ver>>

\* The primary was killed and rebuilds the log from the database, which may hold
\* one transaction more than the log: a new database id.
Recover ==
    /\ gen < MaxRestarts
    /\ dbid' = dbid + 1
    /\ gen' = gen + 1
    /\ \/ /\ hist' = Dump(DbAt(hist, next))
          /\ ver' = ver
       \/ /\ top = next
          /\ \E t \in Txns, d \in ver..(ver + MaxSkip) :
                /\ Possible(t, SizeAt(hist, next))
                /\ d + TxnLen(t) <= MaxVer
                /\ hist' = Dump(DbAt(Extend(hist, next, t, d), next + TxnLen(t)))
                /\ ver' = d + TxnLen(t)
    /\ next' = Cardinality(DOMAIN hist')
    /\ genStart' = next' /\ top' = next'
    /\ first' = 0 /\ queue' = <<>> /\ files' = {}

LogNext ==
    \/ Commit \/ Publish \/ Compact \/ Persist \/ Merge \/ Unlink \/ Abandon
    \/ CleanRestart \/ Recover

LogSpec == LogInit /\ [][LogNext]_logVars

-----------------------------------------------------------------------------
(* What a reader of the log is told (rpc/replication_log.rs). *)

\* find_snapshot_file: the snapshots that hold frame f.
SnapshotsOf(f) == {r \in files : r[1] <= f /\ f < r[2]}

\* The frames of a snapshot from frame f on (SnapshotFile::frames_iter_from).
SnapshotFrames(r, f) ==
    {x \in Newest({hist[i] : i \in r[1]..(r[2] - 1)}) : x.no >= f}

=============================================================================
