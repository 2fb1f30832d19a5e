---------------------------- MODULE PrimaryProofs ----------------------------
(***************************************************************************)
(* Proofs about the primary, for every value of its constants: the type    *)
(* invariant, that the live log serves exactly the history, that the log   *)
(* describes the database, and that every snapshot file is the compaction  *)
(* of the frames its name says.                                            *)
(*                                                                         *)
(* ServedFramesAreHistory is not inductive. A start reads the header of    *)
(* the file named `wallog', so the header on disk has to agree with the    *)
(* LogFile in memory, or with what it was when the process ended           *)
(* (OnDisk). A compaction needs a file that nobody else uses, so nothing   *)
(* may be on its way to the compactor while the log is not locked          *)
(* (Handover). A commit relies on the slots of its frames (Bounded).       *)
(*                                                                         *)
(* Of the snapshots: the compactor reads a file by its inode while the     *)
(* writer may have been given the same file for its new log, so the log it *)
(* reads must still be there (Closed). The merger trusts its list: the     *)
(* result gets the range from the first name to the last, so the list must *)
(* have no holes, also when it was read from the directory while the       *)
(* compactor was writing to it and the same names arrive a second time     *)
(* (Linked, Directory). Three things the code does not cover are           *)
(* hypotheses: compaction by age, clean shutdowns, and frame numbers up to *)
(* u64::MAX.                                                               *)
(***************************************************************************)
EXTENDS Primary, Extremes, SequenceTheorems, FiniteSetTheorems

\* The frames of the live log fit into its file; no transaction survives the
\* process.
Bounded == count + unc <= Slots /\ (~up => unc = 0)

\* The live log is the file named wallog, its header on disk is current and its
\* frames are history, also after the process has ended.
OnDisk ==
    /\ ino = wallog
    /\ hdr[wallog] = [start |-> first, count |-> count]
    /\ next = first + count
    /\ \A f \in first..(next - 1) : frame(f) = hist[f]

\* A log is on its way to the compactor only while its sender holds the lock.
Handover == lock = "free" => sending = NoJob

\* A commit that was flushed has frames in the log.
Flushed == wr = "flushed" => unc > 0

\* The inductive invariant.
Inv == TypeOK /\ Bounded /\ OnDisk /\ Handover /\ Flushed

-----------------------------------------------------------------------------
\* The types of the constants.
LEMMA Constants == MaxPage \in Nat \ {0} /\ Slots \in Nat /\ MaxRestarts \in Nat
    BY FramesAssumption, PrimaryAssumption

\* No log at all is a log on its way.
LEMMA NoJobOK == JobOK(NoJob)
    BY Constants DEF JobOK, NoJob, Job, NoInode, NoName

\* Initially the log is empty.
LEMMA InitInv == Init => Inv
<1> SUFFICES ASSUME Init PROVE Inv
    OBVIOUS
<1> USE Constants DEF Init
<1>1. TypeOK
  <2>1. \E n \in 0..MaxPage : DOMAIN db = 1..n
    <3>1. 0 \in 0..MaxPage /\ DOMAIN db = 1..0
        OBVIOUS
    <3> QED BY <3>1
  <2>2. FilesOK
    BY DEF FilesOK, FrameOK, NoFrame
  <2> QED
    BY <2>1, <2>2, NoJobOK DEF TypeOK, Inodes, NoInode
<1>2. Bounded
    BY DEF Bounded
<1>3. OnDisk
    BY DEF OnDisk, Inodes
<1>4. Handover
    BY DEF Handover
<1>5. Flushed
    BY DEF Flushed
<1> QED BY <1>1, <1>2, <1>3, <1>4, <1>5 DEF Inv

-----------------------------------------------------------------------------
(* Steps that leave the live log alone. *)

\* The threads and the lock have one of their states.
ThreadsOK ==
    /\ lock \in {"free", "writer", "periodic"}
    /\ wr \in {"idle", "txn", "flushed", "orig", "committed", "notified",
               "sending", "undo"}
    /\ pr \in {"idle", "sending", "dead"}
    /\ JobOK(sending) /\ JobOK(job)
    /\ cs \in {"recv", "compact", "callback", "remove", "dead"}
    /\ ms \in {"init", "recv", "merge", "unlink", "dead"}

\* The live log, in memory and on disk.
logFileVars == <<wallog, hdr, file, sentinel, up, ino, count, first, next, hist>>

\* A step that leaves the live log alone keeps the invariant, if it leaves the
\* threads in one of their states, hands nothing over without the lock and flushes
\* nothing.
LEMMA QuietInv ==
    ASSUME Inv, UNCHANGED logFileVars, unc' = unc \/ unc' = 0,
           (\E n \in 0..MaxPage : DOMAIN db = 1..n)',
           tempLog' \in Inodes \cup {NoInode}, top' \in Nat, ThreadsOK', Handover', Flushed'
    PROVE  Inv'
<1> USE DEF Inv, logFileVars
<1>1. FilesOK'
    BY DEF TypeOK, FilesOK, FrameOK
<1>2. unc' \in 0..Slots /\ count' + unc' <= Slots
  <2>1. count \in 0..Slots /\ unc \in 0..Slots /\ count + unc <= Slots /\ count' = count
      BY DEF TypeOK, Bounded
  <2> QED BY <2>1, Constants
<1>3. TypeOK'
    BY <1>1, <1>2 DEF TypeOK, ThreadsOK
<1>4. Bounded'
    BY <1>2 DEF Bounded
<1>5. OnDisk'
    BY DEF OnDisk, frame
<1> QED BY <1>3, <1>4, <1>5

\* The type invariant says what ThreadsOK says.
LEMMA TypeOKThreads == TypeOK => ThreadsOK
    BY DEF TypeOK, ThreadsOK

\* The numbers of the live log.
LEMMA TypeOKNumbers ==
    TypeOK => first \in Nat /\ count \in 0..Slots /\ unc \in 0..Slots
    BY DEF TypeOK

-----------------------------------------------------------------------------
(* The writer. *)

\* Pages pushed to the log go behind its committed frames.
LEMMA PushPages ==
    ASSUME TypeOK, Bounded, NEW pages \in Seq(Pages), NEW size \in 0..MaxPage,
           push_pages(pages, size), ino' = ino, count' = count, first' = first
    PROVE  /\ FilesOK'
           /\ unc' \in 0..Slots /\ count' + unc' <= Slots
           /\ \A k \in 0..(count - 1) : file'[ino][k] = file[ino][k]
<1> DEFINE n == Len(pages)
           at == count + unc
<1>1. n \in Nat /\ \A j \in 1..n : pages[j] \in Pages
    OBVIOUS
<1>2. at \in 0..Slots /\ at + n <= Slots /\ Slots \in Nat /\ ino \in Inodes
  <2>1. at <= Slots
      BY DEF Bounded
  <2>2. at + n <= Slots
      BY DEF push_pages
  <2>3. ino \in Inodes
      BY DEF TypeOK
  <2> QED BY <2>1, <2>2, <2>3, TypeOKNumbers, Constants
<1>3. \A i \in Inodes \ {ino} : file'[i] = file[i]
    BY <1>2 DEF push_pages, TypeOK, FilesOK
<1>4. file'[ino] = [k \in 0..(Slots - 1) |->
          IF k \in at..(at + n - 1)
          THEN Frame(first + k, pages[k - at + 1],
                     IF k = at + n - 1 THEN size ELSE 0, pushed + (k - at) + 1)
          ELSE file[ino][k]]
    BY <1>2 DEF push_pages, TypeOK, FilesOK
<1>5. \A k \in 0..(Slots - 1) : FrameOK(file'[ino][k])
  <2> SUFFICES ASSUME NEW k \in 0..(Slots - 1) PROVE FrameOK(file'[ino][k])
      OBVIOUS
  <2>1. CASE k \in at..(at + n - 1)
    <3>1. pages[k - at + 1] \in 0..MaxPage /\ first + k \in Int
        BY <1>1, <1>2, <2>1, Constants DEF Pages, TypeOK
    <3>2. /\ file'[ino][k].no = first + k
          /\ file'[ino][k].page = pages[k - at + 1]
          /\ file'[ino][k].size \in {0, size}
        BY <1>4, <2>1 DEF Frame
    <3> QED BY <3>1, <3>2, Constants DEF FrameOK
  <2>2. CASE k \notin at..(at + n - 1)
    <3>1. file'[ino][k] = file[ino][k]
        BY <1>4, <2>2
    <3> QED BY <3>1, <1>2 DEF TypeOK, FilesOK, FrameOK
  <2> QED BY <2>1, <2>2
<1>6. DOMAIN file' = Inodes
    BY DEF push_pages, TypeOK, FilesOK
<1>7. FilesOK'
    BY <1>2, <1>3, <1>4, <1>5, <1>6 DEF TypeOK, FilesOK, FrameOK
<1>8. unc' \in 0..Slots /\ count' + unc' <= Slots
  <2>1. at + n <= Slots /\ unc' = unc + n
      BY DEF push_pages
  <2>2. unc \in Nat /\ count \in Nat /\ n \in Nat /\ Slots \in Nat /\ count' = count
      BY <1>1, <1>2, Constants DEF TypeOK
  <2> QED BY <2>1, <2>2
<1>9. \A k \in 0..(count - 1) : file'[ino][k] = file[ino][k]
  <2>1. count \in Nat /\ unc \in Nat /\ at \in 0..Slots /\ Slots \in Nat
      BY <1>2, TypeOKNumbers, Constants
  <2> SUFFICES ASSUME NEW k \in 0..(count - 1) PROVE file'[ino][k] = file[ino][k]
      OBVIOUS
  <2>2. k \in 0..(Slots - 1) /\ k \notin at..(at + n - 1)
      BY <1>1, <2>1
  <2> QED BY <1>4, <2>2
<1> QED BY <1>7, <1>8, <1>9

\* The lists of pages a flush writes, and their prefixes, are sequences of pages.
LEMMA PageListsAreSeqs ==
    ASSUME NEW pages \in PageLists
    PROVE  pages \in Seq(Pages) /\ \A n \in 0..Len(pages) : SubSeq(pages, 1, n) \in Seq(Pages)
<1>1. pages \in Seq(Pages)
    BY Constants, SeqDef DEF PageLists
<1> QED BY <1>1

\* A step that pushes pages and changes nothing else of the log.
Pushes ==
    \E pages \in Seq(Pages), size \in 0..MaxPage : push_pages(pages, size)

\* A step that pushes pages to a log that is not locked keeps the invariant.
LEMMA PushInv ==
    ASSUME Inv, Pushes, up,
           UNCHANGED <<readVars, wallog, tempLog, hdr, snaps, db, sentinel, up, ino,
                       count, lock, pr, sending, compVars, mergeVars>>,
           wr' \in {"txn", "flushed", "undo"}, Flushed'
    PROVE  Inv'
<1> USE DEF Inv, readVars, compVars, mergeVars
<1>1. PICK pages \in Seq(Pages), size \in 0..MaxPage : push_pages(pages, size)
    BY DEF Pushes
<1>2. /\ FilesOK'
      /\ unc' \in 0..Slots /\ count' + unc' <= Slots
      /\ \A k \in 0..(count - 1) : file'[ino][k] = file[ino][k]
    BY <1>1, PushPages
<1>3. TypeOK'
  <2>1. (\E n \in 0..MaxPage : DOMAIN db = 1..n)'
      BY DEF TypeOK
  <2>2. JobOK(sending)' /\ JobOK(job)'
      BY DEF TypeOK, JobOK
  <2> QED BY <1>2, <2>1, <2>2 DEF TypeOK
<1>4. Bounded'
    BY <1>2 DEF Bounded
<1>5. OnDisk'
  <2> SUFFICES ASSUME NEW f \in first..(next - 1) PROVE frame(f)' = hist[f]
      BY DEF OnDisk
  <2>1. f - first \in 0..(count - 1)
      BY DEF OnDisk, TypeOK
  <2> QED BY <1>2, <2>1 DEF OnDisk, frame
<1>6. Handover'
    BY DEF Handover, NoJob
<1> QED BY <1>3, <1>4, <1>5, <1>6

\* on_frames up to the call of orig(), whether or not the flush fails.
LEMMA FlushInv ==
    ASSUME Inv, OnFramesSpill \/ OnFramesFlush \/ OnFramesFlushFails
    PROVE  Inv'
<1>1. CASE OnFramesSpill
  <2>1. PICK p \in Pages : push_pages(<<p>>, 0)
      BY <1>1 DEF OnFramesSpill
  <2>2. <<p>> \in Seq(Pages) /\ 0 \in 0..MaxPage
      BY Constants
  <2>3. Pushes
      BY <2>1, <2>2, Zenon DEF Pushes
  <2> QED BY <1>1, <2>3, PushInv DEF OnFramesSpill, Flushed
<1>2. CASE OnFramesFlush
  <2>1. PICK pages \in PageLists, size \in Pages : push_pages(pages, size)
      BY <1>2 DEF OnFramesFlush
  <2>2. Pushes
      BY <2>1, Constants, PageListsAreSeqs DEF Pushes, Pages
  <2>3. unc' = unc + Len(pages)
      BY <2>1 DEF push_pages
  <2>4. Len(pages) > 0
      BY Constants, PageListsAreSeqs DEF PageLists
  <2>5. Flushed'
      BY <2>3, <2>4, PageListsAreSeqs DEF Flushed, Inv, TypeOK
  <2> QED BY <1>2, <2>2, <2>5, PushInv DEF OnFramesFlush
<1>3. CASE OnFramesFlushFails
  <2>1. PICK pages \in PageLists, n \in 0..1 :
            n < Len(pages) /\ push_pages(SubSeq(pages, 1, n), 0)
      BY <1>3 DEF OnFramesFlushFails
  <2>2. SubSeq(pages, 1, n) \in Seq(Pages) /\ 0 \in 0..MaxPage
      BY <2>1, Constants, PageListsAreSeqs
  <2>3. Pushes
      BY <2>1, <2>2, Zenon DEF Pushes
  <2> QED BY <1>3, <2>3, PushInv DEF OnFramesFlushFails, Flushed
<1> QED BY <1>1, <1>2, <1>3

\* on_frames from the call of orig() on, but for the commit and the compaction.
LEMMA WriterInv ==
    ASSUME Inv,
           OrigFrames \/ OrigFramesFails \/ Notify \/ OnUndo \/ WriterNoCompact
    PROVE  Inv'
<1> USE DEF Inv, readVars, diskVars, fileVars, compVars, mergeVars, logFileVars
<1>0. ThreadsOK
    BY TypeOKThreads
<1>1. CASE OrigFrames
  <2> USE DEF OrigFrames
  <2> DEFINE size == file[ino][count + unc - 1].size
  <2>1. count + unc - 1 \in 0..(Slots - 1)
    <3>1. unc > 0 /\ count + unc <= Slots
        BY <1>1 DEF Flushed, Bounded
    <3> QED BY <3>1, TypeOKNumbers, Constants
  <2>2. size \in 0..MaxPage
      BY <2>1 DEF TypeOK, FilesOK, FrameOK
  <2>3. DOMAIN db' = 1..size
      BY <1>1 DEF Apply
  <2>4. ThreadsOK' /\ Handover' /\ Flushed'
      BY <1>0, <1>1 DEF ThreadsOK, JobOK, Handover, NoJob, Flushed
  <2> QED BY <1>1, <2>2, <2>3, <2>4, QuietInv DEF TypeOK
<1>2. CASE OrigFramesFails \/ OnUndo \/ WriterNoCompact
  <2> USE DEF OrigFramesFails, OnUndo, WriterNoCompact, rollback
  <2>1. ThreadsOK' /\ Handover' /\ Flushed'
      BY <1>0, <1>2 DEF ThreadsOK, JobOK, Handover, NoJob, Flushed
  <2> QED BY <1>2, <2>1, QuietInv DEF TypeOK
<1>3. CASE Notify
  <2> USE DEF Notify
  <2>1. ThreadsOK' /\ Handover' /\ Flushed'
      BY <1>0, <1>3 DEF ThreadsOK, JobOK, Handover, NoJob, Flushed
  <2>2. top' \in Nat
      BY <1>3 DEF TypeOK
  <2> QED BY <1>3, <2>1, <2>2, QuietInv DEF TypeOK
<1> QED BY <1>1, <1>2, <1>3

\* LogFile::commit makes the frames of the transaction history.
LEMMA CommitInv ==
    ASSUME Inv, LogCommit
    PROVE  Inv'
<1> USE DEF Inv, LogCommit, commit, compVars, mergeVars
<1>1. count' = count + unc /\ unc' = 0 /\ count' \in 0..Slots /\ first \in Nat
    BY Constants DEF TypeOK, Bounded
<1>2. /\ ino = wallog /\ next = first + count /\ next' = first + count'
      /\ hdr[wallog] = [start |-> first, count |-> count]
    BY DEF OnDisk, Bounded
<1>3. hdr' \in [Inodes -> [start : Nat, count : 0..Slots]]
      /\ hdr'[wallog] = [start |-> first, count |-> count']
    BY <1>1, <1>2 DEF TypeOK
<1>4. TypeOK'
  <2>1. (\E n \in 0..MaxPage : DOMAIN db = 1..n)'
      BY DEF TypeOK
  <2>2. JobOK(sending)' /\ JobOK(job)' /\ FilesOK'
      BY DEF TypeOK, JobOK, FilesOK, FrameOK
  <2>3. next' \in Nat /\ unc' \in 0..Slots
      BY <1>1, <1>2, Constants
  <2> QED BY <1>1, <1>3, <2>1, <2>2, <2>3 DEF TypeOK
<1>5. Bounded'
    BY <1>1 DEF Bounded
<1>6. OnDisk'
  <2>1. ASSUME NEW f \in first..(next' - 1) PROVE file[ino][f - first] = hist'[f]
    <3>1. f \in 0..(first + count' - 1)
        BY <1>1, <1>2
    <3>2. hist'[f] = IF f < next THEN hist[f] ELSE file[ino][f - first]
        BY <3>1
    <3>3. f < next => file[ino][f - first] = hist[f]
        BY <1>1, <1>2 DEF OnDisk, frame, TypeOK
    <3> QED BY <3>2, <3>3
  <2> QED BY <1>2, <1>3, <2>1 DEF OnDisk, frame
<1>7. Handover' /\ Flushed'
    BY DEF Handover, NoJob, Flushed
<1> QED BY <1>4, <1>5, <1>6, <1>7

-----------------------------------------------------------------------------
(* Compaction. *)

\* The number of pages of the database is a natural number.
LEMMA DbSize == TypeOK => Cardinality(DOMAIN db) \in Nat
<1> SUFFICES ASSUME TypeOK PROVE Cardinality(DOMAIN db) \in Nat
    OBVIOUS
<1>1. PICK n \in 0..MaxPage : DOMAIN db = 1..n
    BY DEF TypeOK
<1>2. Cardinality(1..n) \in Nat
    BY FS_Interval, FS_CardinalityType, Constants
<1> QED BY <1>1, <1>2

\* While the log is not locked there is a file for a new one.
LEMMA FreeInodeOK ==
    ASSUME Inv, up, lock = "free", tempLog = NoInode
    PROVE  FreeInode \in Inodes
<1>1. ino = wallog /\ sending.ino = 0 /\ tempLog = 0
    BY DEF Inv, OnDisk, Handover, NoJob, Job, NoInode
<1>2. \E i \in Inodes : i \notin {wallog, tempLog, ino, job.ino, sending.ino}
  <2>1. CASE 1 \notin {wallog, job.ino}
      BY <1>1, <2>1 DEF Inodes
  <2>2. CASE 2 \notin {wallog, job.ino}
      BY <1>1, <2>2 DEF Inodes
  <2>3. CASE 3 \notin {wallog, job.ino}
      BY <1>1, <2>3 DEF Inodes
  <2> QED BY <2>1, <2>2, <2>3
<1> QED BY <1>2 DEF FreeInode

\* The live log is swapped for an empty one that continues it.
LEMMA CompactInv ==
    ASSUME Inv, up, lock = "free", NEW pages \in Nat, NEW who \in {"writer", "periodic"},
           do_compaction(pages, who), wr' \in {wr, "sending"}, pr' \in {pr, "sending"},
           UNCHANGED <<hist, next, top, db, sentinel, up, unc, compVars, mergeVars>>
    PROVE  Inv'
<1> USE DEF Inv, compVars, mergeVars
<1> DEFINE new == IF tempLog = NoInode THEN FreeInode ELSE tempLog
<1>1. new \in Inodes
    BY FreeInodeOK DEF TypeOK
<1>2. next = first + count /\ first \in Nat /\ count \in 0..Slots
    BY DEF OnDisk, TypeOK, Bounded
<1>3. /\ wallog' = new /\ ino' = new /\ tempLog' = wallog
      /\ first' = next /\ count' = 0 /\ lock' = who
      /\ sending' = Job(ino, first, count, pages, NoName)
    BY <1>2 DEF do_compaction
<1>4. /\ hdr' \in [Inodes -> [start : Nat, count : 0..Slots]]
      /\ hdr'[new] = [start |-> next, count |-> 0]
    BY <1>1, <1>2, Constants DEF do_compaction, TypeOK
<1>5. FilesOK'
  <2>1. CASE tempLog = NoInode
    <3>1. file' = [file EXCEPT ![new] = [k \in 0..(Slots - 1) |-> NoFrame]]
        BY <1>1, <2>1 DEF do_compaction, TypeOK, FilesOK
    <3>2. FrameOK(NoFrame)
        BY Constants DEF FrameOK, NoFrame
    <3> QED BY <1>1, <3>1, <3>2 DEF TypeOK, FilesOK, FrameOK
  <2>2. CASE tempLog # NoInode
      BY <2>2 DEF do_compaction, TypeOK, FilesOK, FrameOK
  <2> QED BY <2>1, <2>2
<1>6. JobOK(sending)' /\ JobOK(job)'
    BY <1>2, <1>3 DEF TypeOK, JobOK, Job
<1>7. TypeOK'
  <2>1. (\E n \in 0..MaxPage : DOMAIN db = 1..n)'
      BY DEF TypeOK
  <2>2. ThreadsOK'
      BY <1>3, <1>6, TypeOKThreads DEF ThreadsOK
  <2>3. /\ wallog' \in Inodes /\ tempLog' \in Inodes \cup {NoInode} /\ ino' \in Inodes
        /\ first' \in Nat /\ count' \in 0..Slots /\ unc' \in 0..Slots
        /\ next' \in Nat /\ top' \in Nat
      BY <1>1, <1>2, <1>3, Constants DEF TypeOK
  <2> QED BY <1>4, <1>5, <2>1, <2>2, <2>3 DEF TypeOK, ThreadsOK
<1>8. Bounded'
    BY <1>3, Constants DEF Bounded, TypeOK
<1>9. OnDisk'
    BY <1>2, <1>3, <1>4 DEF OnDisk
<1>10. Handover' /\ Flushed'
    BY <1>3 DEF Handover, Flushed
<1> QED BY <1>7, <1>8, <1>9, <1>10

\* Compaction by the writer and by the periodic task.
LEMMA CompactionInv ==
    ASSUME Inv, WriterCompact \/ PeriodicCompact
    PROVE  Inv'
<1>1. CASE WriterCompact
  <2>1. Cardinality(DOMAIN db) \in Nat
      BY DbSize DEF Inv
  <2> QED BY <1>1, <2>1, CompactInv DEF WriterCompact
<1>2. CASE PeriodicCompact
  <2>1. count - 1 \in 0..(Slots - 1)
      BY <1>2, Constants DEF PeriodicCompact, Inv, TypeOK
  <2>2. file[ino][count - 1].size \in Nat
      BY <2>1, Constants DEF Inv, TypeOK, FilesOK, FrameOK
  <2> QED BY <1>2, <2>2, CompactInv DEF PeriodicCompact
<1> QED BY <1>1, <1>2

-----------------------------------------------------------------------------
(* The compactor, the merger and the process. *)

\* The compactor and the merger work beside the live log.
LEMMA ThreadInv ==
    ASSUME Inv, Compactor \/ Merger
    PROVE  Inv'
<1> USE DEF Inv, readVars, diskVars, fileVars, compVars, mergeVars, logFileVars
<1>0. ThreadsOK /\ JobOK(NoJob)
    BY TypeOKThreads, NoJobOK
<1>1. CASE Receive
  <2>1. ThreadsOK' /\ Handover' /\ Flushed'
      BY <1>0, <1>1 DEF Receive, ThreadsOK, JobOK, Handover, Flushed
  <2> QED BY <1>1, <2>1, QuietInv DEF Receive, TypeOK
<1>2. CASE PerformCompaction
  <2>1. JobOK(job)'
      BY <1>0, <1>2 DEF PerformCompaction, ThreadsOK, JobOK, Job, NoInode
  <2>2. ThreadsOK' /\ Handover' /\ Flushed'
      BY <1>0, <1>2, <2>1 DEF PerformCompaction, ThreadsOK, JobOK, Handover, NoJob, Flushed
  <2> QED BY <1>2, <2>2, QuietInv DEF PerformCompaction, TypeOK
<1>3. CASE RegisterSnapshot \/ CompactorFails
  <2> USE DEF RegisterSnapshot, CompactorFails
  <2>1. ThreadsOK' /\ Handover' /\ Flushed'
      BY <1>0, <1>3 DEF ThreadsOK, JobOK, Handover, NoJob, Flushed
  <2> QED BY <1>3, <2>1, QuietInv DEF TypeOK
<1>4. CASE RemoveLog
  <2>1. ThreadsOK' /\ Handover' /\ Flushed'
      BY <1>0, <1>4 DEF RemoveLog, ThreadsOK, JobOK, Handover, NoJob, Flushed
  <2>2. tempLog' \in Inodes \cup {NoInode}
      BY <1>4 DEF RemoveLog, TypeOK
  <2> QED BY <1>4, <2>1, <2>2, QuietInv DEF RemoveLog, TypeOK
<1>5. CASE Merger
  <2>1. ms' \in {"init", "recv", "merge", "unlink", "dead"}
      BY <1>0, <1>5 DEF Merger, MergerInit, MergerReceive, MergeSnapshots, UnlinkMerged, ThreadsOK
  <2>2. UNCHANGED <<readVars, wallog, tempLog, hdr, file, db, sentinel, up, fileVars, lock,
                    wr, pr, sending, compVars>>
      BY <1>5 DEF Merger, MergerInit, MergerReceive, MergeSnapshots, UnlinkMerged
  <2>3. ThreadsOK' /\ Handover' /\ Flushed'
      BY <1>0, <2>1, <2>2 DEF ThreadsOK, JobOK, Handover, NoJob, Flushed
  <2> QED BY <2>2, <2>3, QuietInv DEF TypeOK
<1> QED BY <1>1, <1>2, <1>3, <1>4, <1>5 DEF Compactor

\* The process ends, by a signal, an abort or a shutdown.
LEMMA DieInv ==
    ASSUME Inv, Die, UNCHANGED sentinel
    PROVE  Inv'
<1> USE DEF Inv, Die, readVars
<1>1. FilesOK' /\ JobOK(sending)' /\ JobOK(job)'
    BY NoJobOK DEF TypeOK, FilesOK, FrameOK
<1>2. TypeOK'
  <2>1. (\E n \in 0..MaxPage : DOMAIN db = 1..n)'
      BY DEF TypeOK
  <2>2. ThreadsOK'
      BY <1>1, TypeOKThreads DEF ThreadsOK
  <2>3. unc' \in 0..Slots
      BY Constants
  <2>4. up' \in BOOLEAN
      BY Zenon
  <2>5. sentinel' \in BOOLEAN
      BY Zenon DEF TypeOK
  <2> QED BY <1>1, <2>1, <2>2, <2>3, <2>4, <2>5 DEF TypeOK, ThreadsOK
<1>3. Bounded' /\ Handover' /\ Flushed'
    BY Constants DEF Bounded, Handover, Flushed, TypeOK
<1>4. OnDisk'
    BY DEF OnDisk, frame
<1> QED BY <1>2, <1>3, <1>4

\* The sentinel file is removed while connections may still be working.
LEMMA BeginShutdownInv ==
    ASSUME Inv, BeginShutdown
    PROVE  Inv'
<1> USE DEF Inv, BeginShutdown, readVars, fileVars, compVars, mergeVars
<1>1. ThreadsOK' /\ FilesOK'
    BY TypeOKThreads DEF ThreadsOK, JobOK, TypeOK, FilesOK, FrameOK
<1>2. (\E n \in 0..MaxPage : DOMAIN db = 1..n)'
    BY DEF TypeOK
<1>3. TypeOK'
    BY <1>1, <1>2 DEF TypeOK, ThreadsOK
<1>4. Bounded' /\ Handover' /\ Flushed' /\ OnDisk'
    BY DEF Bounded, Handover, Flushed, NoJob, OnDisk, frame
<1> QED BY <1>3, <1>4

\* A start after a clean shutdown reads the log that was shut down.
LEMMA StartInv ==
    ASSUME Inv, Start
    PROVE  Inv'
<1> USE DEF Inv, Start, init_sentinel_file, compVars, mergeVars
<1>1. /\ ino' = wallog /\ first' = first /\ count' = count
      /\ next = first + count /\ ino = wallog
      /\ hdr[wallog] = [start |-> first, count |-> count]
    BY DEF OnDisk
<1>2. ThreadsOK' /\ FilesOK'
    BY TypeOKThreads DEF ThreadsOK, JobOK, TypeOK, FilesOK, FrameOK
<1>3. (\E n \in 0..MaxPage : DOMAIN db = 1..n)'
    BY DEF TypeOK
<1>4. top' \in Nat
    BY <1>1 DEF TypeOK
<1>5. TypeOK'
    BY <1>1, <1>2, <1>3, <1>4 DEF TypeOK, ThreadsOK
<1>6. Bounded' /\ Handover' /\ Flushed'
    BY <1>1 DEF Bounded, Handover, Flushed, NoJob
<1>7. OnDisk'
    BY <1>1 DEF OnDisk, frame
<1> QED BY <1>5, <1>6, <1>7

\* Recovery rewrites the log from the database.
LEMMA RecoverInv ==
    ASSUME Inv, RecoverLog
    PROVE  Inv'
<1> USE DEF Inv, RecoverLog, init_sentinel_file, compVars, mergeVars
<1> DEFINE size == Cardinality(DOMAIN db)
<1>1. PICK n \in 0..MaxPage : DOMAIN db = 1..n
    BY DEF TypeOK
<1>2. size = n /\ size \in 0..MaxPage /\ size <= Slots
  <2>1. size <= Slots
      BY Zenon
  <2>2. Cardinality(1..n) = n
    <3>1. 1 \in Int /\ n \in Int /\ n >= 0
        BY Constants
    <3>2. Cardinality(1..n) = IF 1 > n THEN 0 ELSE n - 1 + 1
        BY <3>1, FS_Interval, Zenon
    <3> QED BY <3>1, <3>2
  <2> QED BY <1>1, <2>1, <2>2
<1>3. /\ hist' = Dump(db) /\ next' = size /\ count' = size /\ first' = 0
      /\ ino' = wallog /\ wallog' = wallog /\ unc' = 0
      /\ hdr' = [hdr EXCEPT ![wallog] = [start |-> 0, count |-> size]]
    BY DEF Bounded
<1>4. file' = [file EXCEPT ![wallog] =
          [k \in 0..(Slots - 1) |-> IF k < size THEN Dump(db)[k] ELSE NoFrame]]
    BY DEF TypeOK, FilesOK
<1>5. \A k \in 0..(size - 1) : FrameOK(Dump(db)[k])
    BY <1>2, Constants DEF Dump, Frame, FrameOK
<1>6. FrameOK(NoFrame)
    BY Constants DEF FrameOK, NoFrame
<1>7. FilesOK'
  <2>1. DOMAIN file = Inodes /\ wallog \in Inodes
      BY DEF TypeOK, FilesOK
  <2>2. DOMAIN file' = Inodes
      BY <1>4, <2>1
  <2>3. ASSUME NEW i \in Inodes, i # wallog
        PROVE  DOMAIN file'[i] = 0..(Slots - 1)
               /\ \A k \in 0..(Slots - 1) : FrameOK(file'[i][k])
      BY <1>4, <2>1, <2>3 DEF TypeOK, FilesOK
  <2>4. file'[wallog] = [k \in 0..(Slots - 1) |-> IF k < size THEN Dump(db)[k] ELSE NoFrame]
      BY <1>4, <2>1
  <2>5. \A k \in 0..(Slots - 1) : FrameOK(file'[wallog][k])
      BY <1>2, <1>5, <1>6, <2>4, Constants
  <2> QED BY <2>2, <2>3, <2>4, <2>5 DEF FilesOK, FrameOK
<1>8. ThreadsOK'
    BY TypeOKThreads DEF ThreadsOK, JobOK
<1>9. /\ hdr' \in [Inodes -> [start : Nat, count : 0..Slots]]
      /\ hdr'[wallog] = [start |-> 0, count |-> size]
    BY <1>2, <1>3, Constants DEF TypeOK
<1>10. TypeOK'
  <2>1. (\E m \in 0..MaxPage : DOMAIN db = 1..m)'
      BY DEF TypeOK
  <2>2. /\ count' \in 0..Slots /\ unc' \in 0..Slots /\ next' \in Nat /\ top' \in Nat
        /\ first' \in Nat /\ ino' \in Inodes
      BY <1>2, <1>3, Constants DEF TypeOK
  <2> QED BY <1>7, <1>8, <1>9, <2>1, <2>2 DEF TypeOK, ThreadsOK
<1>11. Bounded' /\ Handover' /\ Flushed'
    BY <1>2, <1>3 DEF Bounded, Handover, Flushed, NoJob
<1>12. OnDisk'
  <2>1. ASSUME NEW f \in 0..(size - 1) PROVE file'[wallog][f - 0] = Dump(db)[f]
    <3>1. f \in 0..(Slots - 1) /\ f < size /\ f - 0 = f
        BY <1>2, Constants
    <3>2. DOMAIN file = Inodes /\ wallog \in Inodes
        BY DEF TypeOK, FilesOK
    <3>3. file'[wallog] =
              [k \in 0..(Slots - 1) |-> IF k < size THEN Dump(db)[k] ELSE NoFrame]
        BY <1>4, <3>2
    <3> QED BY <3>1, <3>3
  <2>2. \A f \in first'..(next' - 1) : file'[ino'][f - first'] = hist'[f]
      BY <1>2, <1>3, <2>1
  <2>3. next' = first' + count' /\ hdr'[wallog'] = [start |-> first', count |-> count']
      BY <1>2, <1>3, <1>9
  <2> QED BY <1>3, <2>2, <2>3 DEF OnDisk, frame
<1> QED BY <1>10, <1>11, <1>12

\* A send to the compactor after its thread has ended.
LEMMA SendFailsInv ==
    ASSUME Inv, SendFails
    PROVE  Inv'
<1>1. CASE lock = "writer"
    BY <1>1, DieInv DEF SendFails
<1>2. CASE lock # "writer"
  <2> USE DEF Inv, SendFails, readVars, diskVars, fileVars, compVars, mergeVars, logFileVars
  <2>1. ThreadsOK' /\ Handover' /\ Flushed'
      BY <1>2, TypeOKThreads, NoJobOK DEF ThreadsOK, JobOK, Handover, NoJob, Flushed
  <2> QED BY <1>2, <2>1, QuietInv DEF TypeOK
<1> QED BY <1>1, <1>2

\* Every step keeps the invariant.
LEMMA NextInv == Inv /\ [Next]_vars => Inv'
<1> SUFFICES ASSUME Inv, [Next]_vars PROVE Inv'
    OBVIOUS
<1>1. CASE Writer
    BY <1>1, FlushInv, WriterInv, CommitInv, CompactionInv DEF Writer
<1>2. CASE PeriodicCompact \/ SendFails \/ Compactor \/ Merger
    BY <1>2, CompactionInv, SendFailsInv, ThreadInv
<1>3. CASE Kill \/ EndShutdown
    BY <1>3, DieInv DEF Kill, EndShutdown
<1>4. CASE BeginShutdown \/ Start \/ RecoverLog
    BY <1>4, BeginShutdownInv, StartInv, RecoverInv
<1>5. CASE UNCHANGED vars
  <2> USE DEF Inv, vars, primVars, readVars, diskVars, fileVars, compVars, mergeVars, logFileVars
  <2>1. ThreadsOK' /\ Handover' /\ Flushed'
      BY <1>5, TypeOKThreads DEF ThreadsOK, JobOK, Handover, NoJob, Flushed
  <2> QED BY <1>5, <2>1, QuietInv DEF TypeOK
<1> QED BY <1>1, <1>2, <1>3, <1>4, <1>5 DEF Next, Process, Idle

-----------------------------------------------------------------------------
(* The theorems. *)

\* The inductive invariant holds in every behaviour of the primary.
THEOREM InvHolds == Spec => []Inv
    BY InitInv, NextInv, PTL DEF Spec

\* The disk and the process of a primary always have their types.
THEOREM TypeCorrect == Spec => []TypeOK
<1>1. Inv => TypeOK
    BY DEF Inv
<1> QED BY <1>1, InvHolds, PTL

\* Every frame that LogFile::frame returns from the live log is the frame that was
\* committed under that number, and the log ends where the history ends, for logs
\* and transactions of every size, any number of rollbacks, compactions, failures,
\* kills, shutdowns and recoveries.
THEOREM LogServesHistory == Spec => []ServedFramesAreHistory
<1>1. Inv => ServedFramesAreHistory
    BY DEF Inv, OnDisk, ServedFramesAreHistory
<1> QED BY <1>1, InvHolds, PTL


-----------------------------------------------------------------------------
(* The log describes the database SQLite has committed.                     *)
(*                                                                          *)
(* The log and SQLite commit in separate steps, so LogMatchesDatabase is    *)
(* not inductive. What carries it through a transaction is that the         *)
(* frames behind the committed ones hold exactly the pages SQLite is going  *)
(* to commit (Buffered), that they and the database cover the new size      *)
(* (Covered), and that between the two commits the database is what the     *)
(* log describes together with those frames (Pending). A rollback, or a     *)
(* failing call, throws both away.                                          *)

\* f is the last of the frames lo..hi-1 of h that holds page p.
LastIn(h, lo, hi, p, f) ==
    /\ f \in lo..(hi - 1) /\ h[f].page = p
    /\ \A g \in (f + 1)..(hi - 1) : h[g].page # p

\* d is the database that the first n frames of h describe: DbAt, page by page.
Describes(h, n, d) ==
    /\ d = [p \in 1..SizeAt(h, n) |-> d[p]]
    /\ \A p \in 1..SizeAt(h, n) :
          \E f \in 0..(n - 1) : LastIn(h, 0, n, p, f) /\ d[p] = h[f].data

\* The frames lo..hi-1 of h hold the pages t, the newest version of each last.
HoldsPages(h, lo, hi, t) ==
    /\ \A k \in lo..(hi - 1) : h[k].page \in DOMAIN t
    /\ \A p \in DOMAIN t :
          \E k \in lo..(hi - 1) : LastIn(h, lo, hi, p, k) /\ t[p] = h[k].data

\* The history once the frames behind the committed ones are committed.
Written ==
    [f \in 0..(next + unc - 1) |-> IF f < next THEN hist[f] ELSE file[ino][f - first]]

\* Where the writer is, the log has uncommitted frames or none, and SQLite has pages to
\* commit or none; a process that is down has no writer, and the writer that holds
\* the lock is handing over a log.
Phases ==
    /\ wr \in {"idle", "committed", "notified", "sending"} => unc = 0
    /\ wr \in {"txn", "flushed", "orig"} => unc > 0
    /\ wr \in {"idle", "orig", "committed", "notified", "sending"} => txn = NoPages
    /\ ~up => wr = "idle"
    /\ lock = "writer" => wr = "sending"

\* The uncommitted frames are the pages SQLite has written.
Buffered ==
    wr \in {"txn", "flushed"} => HoldsPages(file[ino], count, count + unc, txn)

\* A transaction that was flushed writes every page by which the database grows.
Covered ==
    wr = "flushed" =>
        \A p \in 1..file[ino][count + unc - 1].size : p \in DOMAIN txn \cup DOMAIN db

\* While the process runs, and after a clean shutdown, the log describes the
\* database, but for the window between the two commits.
InSync == (up \/ ~sentinel) /\ wr # "orig" => Describes(hist, next, db)

\* In that window the uncommitted frames make the difference.
Pending == wr = "orig" => Describes(Written, next + unc, db)

\* Versions are numbers, and the database is a function of its pages.
Values == pushed \in Nat /\ db = [p \in DOMAIN db |-> db[p]]

\* The inductive invariant, next to Inv.
DInv == Values /\ Phases /\ Buffered /\ Covered /\ InSync /\ Pending

\* The process is killed in that window while it shuts down: the sentinel file is
\* gone, so that the next start does not rebuild the log.
LostCommit == Kill /\ ~sentinel /\ wr = "orig"

-----------------------------------------------------------------------------
(* Databases. *)

\* A database that is described page by page is the replay of the history.
LEMMA DescribesDbAt ==
    ASSUME NEW h, NEW n \in Nat, NEW d, Describes(h, n, d)
    PROVE  d = DbAt(h, n)
<1>1. ASSUME NEW p \in 1..SizeAt(h, n)
      PROVE  d[p] = h[Max({f \in 0..(n - 1) : h[f].page = p})].data
  <2> DEFINE S == {f \in 0..(n - 1) : h[f].page = p}
  <2>1. PICK f \in 0..(n - 1) : LastIn(h, 0, n, p, f) /\ d[p] = h[f].data
      BY DEF Describes
  <2>2. f \in S /\ \A y \in S : f >= y
    <3> SUFFICES ASSUME NEW y \in S, ~(f >= y) PROVE FALSE
        BY <2>1 DEF LastIn
    <3>1. y \in (f + 1)..(n - 1)
        BY <2>1
    <3> QED BY <2>1, <3>1 DEF LastIn
  <2>3. \A x \in S : (\A y \in S : x >= y) => x = f
      BY <2>2
  <2>4. Max(S) = f
      BY <2>2, <2>3 DEF Max
  <2> QED BY <2>1, <2>4
<1>2. d = [p \in 1..SizeAt(h, n) |-> d[p]]
    BY DEF Describes
<1> QED BY <1>1, <1>2 DEF DbAt

\* What a database is described by depends on the frames below n only.
LEMMA DescribesSame ==
    ASSUME NEW h, NEW g, NEW n \in Nat, NEW d, Describes(h, n, d),
           \A f \in 0..(n - 1) : g[f] = h[f]
    PROVE  Describes(g, n, d)
<1>1. SizeAt(g, n) = SizeAt(h, n)
    BY DEF SizeAt
<1>2. ASSUME NEW p \in 1..SizeAt(h, n)
      PROVE  \E f \in 0..(n - 1) : LastIn(g, 0, n, p, f) /\ d[p] = g[f].data
  <2>1. PICK f \in 0..(n - 1) : LastIn(h, 0, n, p, f) /\ d[p] = h[f].data
      BY DEF Describes
  <2>2. \A x \in (f + 1)..(n - 1) : g[x] = h[x]
      OBVIOUS
  <2> QED BY <2>1, <2>2 DEF LastIn
<1> QED BY <1>1, <1>2 DEF Describes

\* The log that a recovery writes describes the database it is made from.
LEMMA DescribesDump ==
    ASSUME NEW d, NEW n \in Nat, DOMAIN d = 1..n, d = [p \in 1..n |-> d[p]]
    PROVE  Describes(Dump(d), n, d)
<1>1. Cardinality(1..n) = n
  <2>1. 1 \in Int /\ n \in Int
      OBVIOUS
  <2>2. Cardinality(1..n) = IF 1 > n THEN 0 ELSE n - 1 + 1
      BY <2>1, FS_Interval, Zenon
  <2> QED BY <2>2
<1>2. Dump(d) = [f \in 0..(n - 1) |-> Frame(f, f + 1, IF f = n - 1 THEN n ELSE 0, d[f + 1])]
    BY <1>1 DEF Dump
<1>3. SizeAt(Dump(d), n) = n
  <2>1. CASE n = 0
      BY <2>1 DEF SizeAt
  <2>2. CASE n # 0
    <3>1. n - 1 \in 0..(n - 1)
        BY <2>2
    <3>2. Dump(d)[n - 1] = Frame(n - 1, n - 1 + 1, n, d[n - 1 + 1])
        BY <1>2, <3>1
    <3> QED BY <2>2, <3>2 DEF SizeAt, Frame
  <2> QED BY <2>1, <2>2
<1>4. \A f \in 0..(n - 1) : Dump(d)[f].page = f + 1 /\ Dump(d)[f].data = d[f + 1]
  <2> SUFFICES ASSUME NEW f \in 0..(n - 1)
               PROVE  Dump(d)[f].page = f + 1 /\ Dump(d)[f].data = d[f + 1]
      OBVIOUS
  <2>1. Dump(d)[f] = Frame(f, f + 1, IF f = n - 1 THEN n ELSE 0, d[f + 1])
      BY <1>2
  <2> QED BY <2>1 DEF Frame
<1>5. ASSUME NEW p \in 1..n
      PROVE  \E f \in 0..(n - 1) : LastIn(Dump(d), 0, n, p, f) /\ d[p] = Dump(d)[f].data
  <2>1. p - 1 \in 0..(n - 1)
      OBVIOUS
  <2>2. LastIn(Dump(d), 0, n, p, p - 1) /\ d[p] = Dump(d)[p - 1].data
      BY <1>4, <2>1 DEF LastIn
  <2> QED BY <2>1, <2>2
<1> QED BY <1>3, <1>5 DEF Describes

-----------------------------------------------------------------------------
(* The invariant. *)

\* Initially there is no database and no log.
LEMMA InitDInv == Init => DInv
<1> SUFFICES ASSUME Init PROVE DInv
    OBVIOUS
<1> USE DEF Init
<1>1. Phases
    BY DEF Phases
<1>2. Buffered /\ Covered /\ Pending
    BY DEF Buffered, Covered, Pending
<1>3. Describes(hist, next, db)
  <2>1. SizeAt(hist, next) = 0
      BY DEF SizeAt
  <2>2. db = [p \in 1..0 |-> db[p]]
      OBVIOUS
  <2> QED BY <2>1, <2>2 DEF Describes
<1>4. InSync
    BY <1>3 DEF InSync
<1>5. Values
    BY DEF Values
<1> QED BY <1>1, <1>2, <1>4, <1>5 DEF DInv

\* A step that leaves the writer outside a transaction and keeps history and
\* database, if it does not come from the window between the commits.
LEMMA CalmDInv ==
    ASSUME DInv, pushed' \in Nat, Phases', wr' \notin {"txn", "flushed", "orig"},
           UNCHANGED <<hist, next, db>>,
           (up' \/ ~sentinel') => (up \/ ~sentinel) /\ wr # "orig"
    PROVE  DInv'
<1>1. Buffered' /\ Covered' /\ Pending'
    BY DEF Buffered, Covered, Pending
<1>2. InSync'
    BY DEF DInv, InSync, Describes, LastIn, SizeAt
<1>3. Values'
    BY DEF DInv, Values
<1> QED BY <1>1, <1>2, <1>3 DEF DInv

\* A step of a thread that leaves the writer and its log alone.
LEMMA SameDInv ==
    ASSUME DInv, lock' \in {lock, "free", "periodic"}, up' = up, sentinel' = sentinel \/ up,
           UNCHANGED <<hist, next, db, file, ino, count, unc, first, txn, wr, pushed>>
    PROVE  DInv'
<1>1. Phases' /\ Values'
    BY DEF DInv, Phases, Values
<1>2. Buffered' /\ Covered'
    BY DEF DInv, Buffered, HoldsPages, Covered, LastIn
<1>3. Written' = Written
    BY DEF Written
<1>4. Pending'
    BY <1>3 DEF DInv, Pending, Describes, LastIn, SizeAt
<1>5. InSync'
    BY DEF DInv, InSync, Describes, LastIn, SizeAt
<1> QED BY <1>1, <1>2, <1>4, <1>5 DEF DInv

-----------------------------------------------------------------------------
(* The writer. *)

\* G is F with n frames for distinct pages written from at on, of the versions after
\* v; u is t with those pages.
Appends(F, G, lo, at, n, pages, v, t, u) ==
    /\ \A k \in lo..(at - 1) : G[k] = F[k]
    /\ \A i \in 1..n : G[at + i - 1].page = pages[i] /\ G[at + i - 1].data = v + i
    /\ \A i, j \in 1..n : pages[i] = pages[j] => i = j
    /\ DOMAIN u = DOMAIN t \cup {pages[i] : i \in 1..n}
    /\ \A i \in 1..n : u[pages[i]] = v + i
    /\ \A p \in DOMAIN t : p \notin {pages[i] : i \in 1..n} => u[p] = t[p]

\* Frames for distinct pages behind frames that hold t make them hold those pages too.
LEMMA AppendedPages ==
    ASSUME NEW F, NEW G, NEW lo \in Nat, NEW at \in Nat, lo <= at, NEW n \in Nat,
           NEW pages, NEW v, NEW t, NEW u,
           HoldsPages(F, lo, at, t), Appends(F, G, lo, at, n, pages, v, t, u)
    PROVE  HoldsPages(G, lo, at + n, u)
<1> USE DEF Appends
<1>1. ASSUME NEW k \in lo..(at + n - 1) PROVE G[k].page \in DOMAIN u
  <2>1. CASE k < at
    <3>1. k \in lo..(at - 1)
        BY <2>1
    <3> QED BY <3>1 DEF HoldsPages
  <2>2. CASE k >= at
    <3>1. k - at + 1 \in 1..n /\ at + (k - at + 1) - 1 = k
        BY <2>2
    <3>2. G[k].page = pages[k - at + 1]
        BY <3>1
    <3> QED BY <3>1, <3>2
  <2> QED BY <2>1, <2>2
<1>2. ASSUME NEW p \in DOMAIN u
      PROVE  \E k \in lo..(at + n - 1) : LastIn(G, lo, at + n, p, k) /\ u[p] = G[k].data
  <2>1. CASE p \in {pages[i] : i \in 1..n}
    <3>1. PICK i \in 1..n : p = pages[i]
        BY <2>1
    <3>2. at + i - 1 \in lo..(at + n - 1)
        OBVIOUS
    <3>3. ASSUME NEW g \in (at + i - 1 + 1)..(at + n - 1) PROVE G[g].page # p
      <4>1. g - at + 1 \in 1..n /\ at + (g - at + 1) - 1 = g /\ g - at + 1 # i
          OBVIOUS
      <4>2. G[g].page = pages[g - at + 1]
          BY <4>1
      <4> QED BY <3>1, <4>1, <4>2
    <3>4. G[at + i - 1].page = p /\ u[p] = G[at + i - 1].data
        BY <3>1
    <3>5. LastIn(G, lo, at + n, p, at + i - 1)
        BY <3>2, <3>3, <3>4 DEF LastIn
    <3> QED BY <3>2, <3>4, <3>5
  <2>2. CASE p \notin {pages[i] : i \in 1..n}
    <3>1. p \in DOMAIN t /\ u[p] = t[p]
        BY <2>2
    <3>2. PICK k \in lo..(at - 1) : LastIn(F, lo, at, p, k) /\ t[p] = F[k].data
        BY <3>1 DEF HoldsPages
    <3>3. k \in lo..(at + n - 1) /\ G[k] = F[k]
        OBVIOUS
    <3>4. ASSUME NEW g \in (k + 1)..(at + n - 1) PROVE G[g].page # p
      <4>1. CASE g < at
        <5>1. g \in (k + 1)..(at - 1) /\ g \in lo..(at - 1)
            BY <4>1
        <5> QED BY <3>2, <5>1 DEF LastIn
      <4>2. CASE g >= at
        <5>1. g - at + 1 \in 1..n /\ at + (g - at + 1) - 1 = g
            BY <4>2
        <5>2. G[g].page = pages[g - at + 1]
            BY <5>1
        <5> QED BY <2>2, <5>1, <5>2
      <4> QED BY <4>1, <4>2
    <3>5. LastIn(G, lo, at + n, p, k)
        BY <3>2, <3>3, <3>4 DEF LastIn
    <3> QED BY <3>1, <3>2, <3>3, <3>5
  <2> QED BY <2>1, <2>2
<1> QED BY <1>1, <1>2 DEF HoldsPages

\* The frames that push_pages writes.
LEMMA PushedFrames ==
    ASSUME Inv, NEW pages \in Seq(Pages), NEW size \in 0..MaxPage, push_pages(pages, size),
           pushed \in Nat
    PROVE  /\ unc' = unc + Len(pages)
           /\ \A k \in count..(count + unc - 1) : file'[ino][k] = file[ino][k]
           /\ \A i \in 1..Len(pages) :
                 /\ file'[ino][count + unc + i - 1].page = pages[i]
                 /\ file'[ino][count + unc + i - 1].data = pushed + i
           /\ Len(pages) > 0 => file'[ino][count + unc + Len(pages) - 1].size = size
<1> DEFINE n == Len(pages)
           at == count + unc
<1>1. /\ n \in Nat /\ count \in Nat /\ unc \in Nat /\ at \in Nat
      /\ at + n <= Slots /\ Slots \in Nat /\ first \in Nat /\ ino \in Inodes
  <2>1. at + n <= Slots
      BY DEF push_pages
  <2>2. ino \in Inodes
      BY DEF Inv, TypeOK
  <2> QED BY <2>1, <2>2, TypeOKNumbers, Constants DEF Inv
<1>2. file'[ino] = [k \in 0..(Slots - 1) |->
          IF k \in at..(at + n - 1)
          THEN Frame(first + k, pages[k - at + 1],
                     IF k = at + n - 1 THEN size ELSE 0, pushed + (k - at) + 1)
          ELSE file[ino][k]]
    BY <1>1 DEF push_pages, Inv, TypeOK, FilesOK
<1>3. ASSUME NEW k \in count..(count + unc - 1) PROVE file'[ino][k] = file[ino][k]
  <2>1. k \in 0..(Slots - 1) /\ k \notin at..(at + n - 1)
      BY <1>1
  <2> QED BY <1>2, <2>1
<1>4. ASSUME NEW k \in at..(at + n - 1)
      PROVE  /\ file'[ino][k].page = pages[k - at + 1]
             /\ file'[ino][k].data = pushed + (k - at) + 1
             /\ file'[ino][k].size = IF k = at + n - 1 THEN size ELSE 0
  <2>1. k \in 0..(Slots - 1)
      BY <1>1
  <2> QED BY <1>2, <2>1 DEF Frame
<1>5. ASSUME NEW i \in 1..n
      PROVE  /\ file'[ino][count + unc + i - 1].page = pages[i]
             /\ file'[ino][count + unc + i - 1].data = pushed + i
  <2>1. at + i - 1 \in at..(at + n - 1) /\ (at + i - 1) - at + 1 = i
      BY <1>1
  <2>2. pushed + ((at + i - 1) - at) + 1 = pushed + i
      BY <1>1
  <2> QED BY <1>4, <2>1, <2>2
<1>6. n > 0 => file'[ino][count + unc + n - 1].size = size
  <2>1. n > 0 => at + n - 1 \in at..(at + n - 1)
      BY <1>1
  <2> QED BY <1>4, <2>1
<1>7. unc' = unc + n
    BY DEF push_pages
<1> QED BY <1>3, <1>5, <1>6, <1>7

\* The pages SQLite has written, once it has handed some more to on_frames.
LEMMA WrittenPages ==
    ASSUME NEW pages \in Seq(Pages),
           \A i, j \in 1..Len(pages) : pages[i] = pages[j] => i = j
    PROVE  /\ DOMAIN DirtyPages(pages) = DOMAIN txn \cup {pages[i] : i \in 1..Len(pages)}
           /\ \A i \in 1..Len(pages) : DirtyPages(pages)[pages[i]] = pushed + i
           /\ \A p \in DOMAIN txn :
                 p \notin {pages[i] : i \in 1..Len(pages)} => DirtyPages(pages)[p] = txn[p]
<1>1. DOMAIN pages = 1..Len(pages) /\ Range(pages) = {pages[i] : i \in 1..Len(pages)}
    BY DEF Range
<1>2. \A i \in 1..Len(pages) : (CHOOSE j \in DOMAIN pages : pages[j] = pages[i]) = i
    BY <1>1
<1> QED BY <1>1, <1>2 DEF DirtyPages

\* Pages pushed to the log are the pages SQLite has written.
LEMMA PushBuffered ==
    ASSUME Inv, DInv, wr \in {"idle", "txn"},
           NEW pages \in Seq(Pages), \A i, j \in 1..Len(pages) : pages[i] = pages[j] => i = j,
           NEW size \in 0..MaxPage, push_pages(pages, size)
    PROVE  HoldsPages(file'[ino], count, count + unc', DirtyPages(pages))
<1>1. Len(pages) \in Nat /\ count \in Nat /\ unc \in Nat /\ pushed \in Nat
    BY TypeOKNumbers, Constants DEF Inv, DInv, Values
<1>2. HoldsPages(file[ino], count, count + unc, txn)
  <2>1. CASE wr = "txn"
      BY <2>1 DEF DInv, Buffered
  <2>2. CASE wr = "idle"
    <3>1. unc = 0 /\ DOMAIN txn = {}
        BY <2>2 DEF DInv, Phases, NoPages
    <3> QED BY <1>1, <3>1 DEF HoldsPages
  <2> QED BY <2>1, <2>2
<1>3. /\ unc' = unc + Len(pages)
      /\ \A k \in count..(count + unc - 1) : file'[ino][k] = file[ino][k]
      /\ \A i \in 1..Len(pages) : /\ file'[ino][count + unc + i - 1].page = pages[i]
                         /\ file'[ino][count + unc + i - 1].data = pushed + i
    BY <1>1, PushedFrames
<1>4. HoldsPages(file'[ino], count, count + unc + Len(pages), DirtyPages(pages))
  <2>1. count + unc \in Nat /\ count <= count + unc
      BY <1>1
  <2>2. /\ DOMAIN DirtyPages(pages) = DOMAIN txn \cup {pages[i] : i \in 1..Len(pages)}
        /\ \A i \in 1..Len(pages) : DirtyPages(pages)[pages[i]] = pushed + i
        /\ \A p \in DOMAIN txn :
              p \notin {pages[i] : i \in 1..Len(pages)} => DirtyPages(pages)[p] = txn[p]
      BY WrittenPages
  <2>3. \A i, j \in 1..Len(pages) : pages[i] = pages[j] => i = j
      OBVIOUS
  <2>4. /\ \A k \in count..((count + unc) - 1) : file'[ino][k] = file[ino][k]
        /\ \A i \in 1..Len(pages) :
              /\ file'[ino][(count + unc) + i - 1].page = pages[i]
              /\ file'[ino][(count + unc) + i - 1].data = pushed + i
      BY <1>1, <1>3
  <2>5. Appends(file[ino], file'[ino], count, count + unc, Len(pages), pages, pushed, txn,
                DirtyPages(pages))
      BY <2>2, <2>3, <2>4, Zenon DEF Appends
  <2>6. HoldsPages(file'[ino], count, (count + unc) + Len(pages), DirtyPages(pages))
      BY <1>1, <1>2, <2>1, <2>5, AppendedPages, Zenon
  <2> QED BY <2>6
<1> QED BY <1>1, <1>3, <1>4

\* on_frames up to the call of orig(), whether or not the flush fails.
LEMMA FlushDInv ==
    ASSUME Inv, DInv, OnFramesSpill \/ OnFramesFlush \/ OnFramesFlushFails
    PROVE  DInv'
<1> USE DEF readVars, compVars, mergeVars
<1>0. pushed \in Nat /\ unc \in Nat /\ count \in Nat
    BY TypeOKNumbers, Constants DEF Inv, DInv, Values
<1>1. CASE OnFramesSpill
  <2>1. PICK p \in Pages : push_pages(<<p>>, 0) /\ txn' = DirtyPages(<<p>>)
      BY <1>1 DEF OnFramesSpill
  <2>2. /\ <<p>> \in Seq(Pages) /\ 0 \in 0..MaxPage /\ Len(<<p>>) = 1
        /\ \A i, j \in 1..Len(<<p>>) : <<p>>[i] = <<p>>[j] => i = j
      BY Constants
  <2>3. HoldsPages(file'[ino], count, count + unc', txn')
      BY <1>1, <2>1, <2>2, PushBuffered DEF OnFramesSpill
  <2>4. unc' = unc + 1 /\ pushed' = pushed + 1
      BY <2>1, <2>2 DEF push_pages
  <2>5. wr' = "txn" /\ UNCHANGED <<hist, next, db, ino, count, first, up, lock, sentinel>>
      BY <1>1 DEF OnFramesSpill
  <2>6. up /\ wr # "orig" /\ lock = "free"
      BY <1>1 DEF OnFramesSpill
  <2>7. Buffered' /\ Covered' /\ Pending'
      BY <2>3, <2>5 DEF Buffered, Covered, Pending
  <2>8. InSync'
      BY <2>5, <2>6 DEF DInv, InSync, Describes, LastIn, SizeAt
  <2>9. Phases' /\ Values'
      BY <1>0, <2>4, <2>5, <2>6 DEF DInv, Phases, Values
  <2> QED BY <2>7, <2>8, <2>9 DEF DInv
<1>2. CASE OnFramesFlush
  <2>1. PICK pages \in PageLists, size \in Pages :
            /\ Range(pages) \subseteq 1..size
            /\ \A p \in (Cardinality(DOMAIN db) + 1)..size : p \in Range(pages) \cup DOMAIN txn
            /\ push_pages(pages, size) /\ txn' = DirtyPages(pages)
      BY <1>2 DEF OnFramesFlush
  <2>2. pages \in Seq(Pages) /\ size \in 0..MaxPage /\ Len(pages) \in Nat \ {0}
    <3>1. pages \in Seq(Pages) /\ size \in 0..MaxPage
        BY PageListsAreSeqs, Constants DEF Pages
    <3>2. Len(pages) > 0
        BY Constants, PageListsAreSeqs DEF PageLists
    <3> QED BY <3>1, <3>2
  <2>3. \A i, j \in 1..Len(pages) : pages[i] = pages[j] => i = j
    <3>1. DOMAIN pages = 1..Len(pages) /\ \A i \in DOMAIN pages : pages[i] \in Int
        BY <2>2, Constants DEF Pages
    <3>2. \A i, j \in DOMAIN pages : i < j => pages[i] < pages[j]
        BY DEF PageLists
    <3> QED BY <2>2, <3>1, <3>2
  <2>4. HoldsPages(file'[ino], count, count + unc', txn')
      BY <1>2, <2>1, <2>2, <2>3, PushBuffered DEF OnFramesFlush
  <2>5. unc' = unc + Len(pages) /\ pushed' = pushed + Len(pages)
      BY <2>1 DEF push_pages
  <2>6. wr' = "flushed" /\ UNCHANGED <<hist, next, db, ino, count, first, up, lock, sentinel>>
      BY <1>2 DEF OnFramesFlush
  <2>7. up /\ wr # "orig" /\ lock = "free"
      BY <1>2 DEF OnFramesFlush
  <2>8. Buffered' /\ Pending'
      BY <2>4, <2>6 DEF Buffered, Pending
  <2>9. Covered'
    <3>1. file'[ino][count + unc + Len(pages) - 1].size = size
        BY <1>0, <2>1, <2>2, PushedFrames
    <3>2. count + unc' - 1 = count + unc + Len(pages) - 1
        BY <1>0, <2>2, <2>5
    <3>3. DOMAIN txn' = DOMAIN txn \cup Range(pages)
        BY <2>1 DEF DirtyPages
    <3>4. ASSUME NEW p \in 1..size PROVE p \in DOMAIN txn' \cup DOMAIN db
      <4>1. PICK m \in 0..MaxPage : DOMAIN db = 1..m
          BY DEF Inv, TypeOK
      <4>2. Cardinality(DOMAIN db) = m
        <5>1. 1 \in Int /\ m \in Int /\ m >= 0
            BY Constants
        <5>2. Cardinality(1..m) = IF 1 > m THEN 0 ELSE m - 1 + 1
            BY <5>1, FS_Interval, Zenon
        <5> QED BY <4>1, <5>1, <5>2
      <4>3. CASE p <= m
          BY <4>1, <4>3
      <4>4. CASE p > m
        <5>1. p \in (Cardinality(DOMAIN db) + 1)..size
            BY <2>2, <4>2, <4>4, Constants
        <5> QED BY <2>1, <3>3, <5>1
      <4> QED BY <2>2, <4>3, <4>4, Constants
    <3> QED BY <2>6, <3>1, <3>2, <3>4 DEF Covered
  <2>10. InSync'
      BY <2>6, <2>7 DEF DInv, InSync, Describes, LastIn, SizeAt
  <2>11. Phases' /\ Values'
      BY <1>0, <2>2, <2>5, <2>6, <2>7 DEF DInv, Phases, Values
  <2> QED BY <2>8, <2>9, <2>10, <2>11 DEF DInv
<1>3. CASE OnFramesFlushFails
  <2>1. PICK pages \in PageLists, n \in 0..1 :
            n < Len(pages) /\ push_pages(SubSeq(pages, 1, n), 0)
      BY <1>3 DEF OnFramesFlushFails
  <2>2. SubSeq(pages, 1, n) \in Seq(Pages)
      BY <2>1, Constants, PageListsAreSeqs
  <2>3. pushed' \in Nat
      BY <1>0, <2>1, <2>2 DEF push_pages
  <2>4. Phases'
      BY <1>3 DEF OnFramesFlushFails, Phases
  <2> QED BY <1>3, <2>3, <2>4, CalmDInv DEF OnFramesFlushFails
<1> QED BY <1>1, <1>2, <1>3

\* The frames of Written, by where they are.
LEMMA WrittenFrames ==
    ASSUME Inv
    PROVE  /\ first \in Nat /\ count \in Nat /\ unc \in Nat /\ next = first + count
           /\ \A f \in 0..(next - 1) : Written[f] = hist[f]
           /\ \A k \in count..(count + unc - 1) : Written[first + k] = file[ino][k]
<1>1. first \in Nat /\ count \in Nat /\ unc \in Nat /\ next = first + count
    BY TypeOKNumbers, Constants DEF Inv, OnDisk
<1>2. ASSUME NEW f \in 0..(next - 1) PROVE Written[f] = hist[f]
  <2>1. f \in 0..(next + unc - 1) /\ f < next
      BY <1>1
  <2> QED BY <2>1 DEF Written
<1>3. ASSUME NEW k \in count..(count + unc - 1) PROVE Written[first + k] = file[ino][k]
  <2>1. first + k \in 0..(next + unc - 1) /\ ~(first + k < next) /\ (first + k) - first = k
      BY <1>1
  <2>2. Written[first + k] = file[ino][(first + k) - first]
      BY <2>1 DEF Written
  <2> QED BY <2>1, <2>2
<1> QED BY <1>1, <1>2, <1>3

\* SQLite commits exactly what is in the log.
LEMMA AppliedTxn ==
    ASSUME Inv, DInv, up, wr = "flushed"
    PROVE  Describes(Written, next + unc, Apply(db, file[ino][count + unc - 1].size))
<1> DEFINE size == file[ino][count + unc - 1].size
           n == next + unc
           d == Apply(db, size)
<1>1. /\ first \in Nat /\ count \in Nat /\ unc \in Nat /\ next = first + count
      /\ \A f \in 0..(next - 1) : Written[f] = hist[f]
      /\ \A k \in count..(count + unc - 1) : Written[first + k] = file[ino][k]
    BY WrittenFrames
<1>2. unc > 0 /\ next \in Nat /\ n \in Nat
    BY <1>1 DEF DInv, Phases
<1>3. SizeAt(Written, n) = size
  <2>1. n # 0 /\ n - 1 = first + (count + unc - 1)
      BY <1>1, <1>2
  <2>2. count + unc - 1 \in count..(count + unc - 1)
      BY <1>1, <1>2
  <2>3. Written[n - 1] = file[ino][count + unc - 1]
      BY <1>1, <2>1, <2>2
  <2> QED BY <2>1, <2>3 DEF SizeAt
<1>4. HoldsPages(file[ino], count, count + unc, txn)
    BY DEF DInv, Buffered
<1>5. Describes(hist, next, db)
    BY DEF DInv, InSync
<1>6. \A p \in 1..size : p \in DOMAIN txn \cup DOMAIN db
    BY DEF DInv, Covered
<1>7. d = [p \in 1..size |-> d[p]]
    BY DEF Apply
<1>8. ASSUME NEW p \in 1..size
      PROVE  \E f \in 0..(n - 1) : LastIn(Written, 0, n, p, f) /\ d[p] = Written[f].data
  <2>1. CASE p \in DOMAIN txn
    <3>1. PICK k \in count..((count + unc) - 1) :
              LastIn(file[ino], count, count + unc, p, k) /\ txn[p] = file[ino][k].data
        BY <1>4, <2>1 DEF HoldsPages
    <3>2. k \in count..(count + unc - 1) /\ first + k \in 0..(n - 1)
        BY <1>1
    <3>3. Written[first + k] = file[ino][k] /\ file[ino][k].page = p
        BY <1>1, <3>1, <3>2 DEF LastIn
    <3>4. ASSUME NEW g \in (first + k + 1)..(n - 1) PROVE Written[g].page # p
      <4>1. g - first \in (k + 1)..((count + unc) - 1) /\ g - first \in count..(count + unc - 1)
          BY <1>1, <3>2
      <4>2. first + (g - first) = g
          BY <1>1
      <4>3. Written[g] = file[ino][g - first]
          BY <1>1, <4>1, <4>2
      <4> QED BY <3>1, <4>1, <4>3 DEF LastIn
    <3>5. d[p] = txn[p]
        BY <2>1 DEF Apply
    <3>6. LastIn(Written, 0, n, p, first + k)
        BY <3>2, <3>3, <3>4 DEF LastIn
    <3> QED BY <3>1, <3>2, <3>3, <3>5, <3>6
  <2>2. CASE p \notin DOMAIN txn
    <3>1. p \in 1..SizeAt(hist, next)
      <4>1. db = [q \in 1..SizeAt(hist, next) |-> db[q]]
          BY <1>5 DEF Describes
      <4>2. DOMAIN db = 1..SizeAt(hist, next)
          BY <4>1
      <4> QED BY <1>6, <2>2, <4>2
    <3>2. PICK f \in 0..(next - 1) : LastIn(hist, 0, next, p, f) /\ db[p] = hist[f].data
        BY <1>5, <3>1 DEF Describes
    <3>3. f \in 0..(n - 1) /\ Written[f] = hist[f]
        BY <1>1, <1>2
    <3>4. ASSUME NEW g \in (f + 1)..(n - 1) PROVE Written[g].page # p
      <4>1. CASE g < next
        <5>1. g \in (f + 1)..(next - 1) /\ g \in 0..(next - 1)
            BY <1>2, <4>1
        <5> QED BY <1>1, <3>2, <5>1 DEF LastIn
      <4>2. CASE g >= next
        <5>1. g - first \in count..(count + unc - 1) /\ first + (g - first) = g
            BY <1>1, <1>2, <4>2
        <5>2. g - first \in count..((count + unc) - 1)
            BY <1>1, <1>2, <4>2
        <5>3. Written[g] = file[ino][g - first]
            BY <1>1, <5>1
        <5> QED BY <1>4, <2>2, <5>2, <5>3 DEF HoldsPages
      <4> QED BY <1>2, <4>1, <4>2
    <3>5. d[p] = db[p]
        BY <2>2 DEF Apply
    <3>6. LastIn(Written, 0, n, p, f)
        BY <3>2, <3>3, <3>4 DEF LastIn
    <3> QED BY <3>2, <3>3, <3>5, <3>6
  <2> QED BY <2>1, <2>2
<1> QED BY <1>3, <1>7, <1>8 DEF Describes

\* orig() commits, and the log is about to.
LEMMA OrigDInv ==
    ASSUME Inv, DInv, OrigFrames
    PROVE  DInv'
<1> USE DEF OrigFrames, readVars, fileVars
<1>1. Describes(Written, next + unc, db')
    BY AppliedTxn
<1>2. Written' = Written /\ (next + unc)' = next + unc
    BY DEF Written
<1>3. Pending'
    BY <1>1, <1>2 DEF Pending, Describes, LastIn, SizeAt
<1>4. Buffered' /\ Covered' /\ InSync'
    BY DEF Buffered, Covered, InSync
<1>5. Phases' /\ Values'
    BY DEF DInv, Phases, Values, Apply
<1> QED BY <1>3, <1>4, <1>5 DEF DInv

\* The log commits what SQLite has committed.
LEMMA CommitDInv ==
    ASSUME Inv, DInv, LogCommit
    PROVE  DInv'
<1> USE DEF LogCommit, commit
<1>1. /\ first \in Nat /\ count \in Nat /\ unc \in Nat /\ next = first + count
      /\ count' = count + unc /\ next' = next + unc /\ unc' = 0
    BY WrittenFrames
<1>2. hist' = Written
  <2>1. first + count' - 1 = next + unc - 1
      BY <1>1
  <2> QED BY <2>1 DEF Written
<1>3. Describes(Written, next + unc, db)
    BY DEF DInv, Pending
<1>4. InSync'
    BY <1>1, <1>2, <1>3 DEF InSync
<1>5. Buffered' /\ Covered' /\ Pending'
    BY DEF Buffered, Covered, Pending
<1>6. Phases' /\ Values'
    BY <1>1 DEF DInv, Phases, Values, pageVars
<1> QED BY <1>4, <1>5, <1>6 DEF DInv

\* The other steps of the writer, and the periodic compaction.
LEMMA WriterDInv ==
    ASSUME Inv, DInv,
           \/ OrigFramesFails \/ Notify \/ OnUndo
           \/ WriterNoCompact \/ WriterCompact \/ PeriodicCompact
    PROVE  DInv'
<1> USE DEF readVars, diskVars, fileVars, pageVars
<1>0. pushed \in Nat /\ Phases
    BY DEF DInv, Values
<1>1. CASE OrigFramesFails
  <2>1. Phases' /\ pushed' \in Nat
      BY <1>0, <1>1 DEF OrigFramesFails, Phases
  <2> QED BY <1>1, <2>1, CalmDInv DEF OrigFramesFails
<1>2. CASE Notify
  <2>1. Phases' /\ pushed' \in Nat
      BY <1>0, <1>2 DEF Notify, Phases
  <2> QED BY <1>2, <2>1, CalmDInv DEF Notify
<1>3. CASE OnUndo
  <2>1. Phases' /\ pushed' \in Nat
      BY <1>0, <1>3 DEF OnUndo, rollback, Phases
  <2> QED BY <1>3, <2>1, CalmDInv DEF OnUndo
<1>4. CASE WriterNoCompact
  <2>1. Phases' /\ pushed' \in Nat
      BY <1>0, <1>4 DEF WriterNoCompact, Phases
  <2> QED BY <1>4, <2>1, CalmDInv DEF WriterNoCompact
<1>5. CASE WriterCompact
  <2>1. Phases' /\ pushed' \in Nat
      BY <1>0, <1>5 DEF WriterCompact, Phases
  <2> QED BY <1>5, <2>1, CalmDInv DEF WriterCompact
<1>6. CASE PeriodicCompact
  <2>1. unc = 0 /\ wr' = wr /\ lock' = "periodic"
      BY <1>6 DEF PeriodicCompact, should_compact, do_compaction
  <2>2. Phases' /\ pushed' \in Nat
      BY <1>0, <1>6, <2>1 DEF PeriodicCompact, Phases
  <2>3. wr \notin {"txn", "flushed", "orig"}
      BY <1>0, <2>1 DEF Phases
  <2> QED BY <1>6, <2>1, <2>2, <2>3, CalmDInv DEF PeriodicCompact
<1> QED BY <1>1, <1>2, <1>3, <1>4, <1>5, <1>6

-----------------------------------------------------------------------------
(* The threads and the process. *)

\* The compactor and the merger work beside the writer.
LEMMA ThreadDInv ==
    ASSUME Inv, DInv, Compactor \/ Merger
    PROVE  DInv'
<1> USE DEF readVars, diskVars, fileVars, pageVars
<1>1. CASE Receive
  <2>1. CASE lock = "writer"
    <3>1. Phases' /\ pushed' \in Nat
        BY <1>1, <2>1 DEF Receive, DInv, Phases, Values
    <3>2. wr = "sending"
        BY <2>1 DEF DInv, Phases
    <3> QED BY <1>1, <2>1, <3>1, <3>2, CalmDInv DEF Receive
  <2>2. CASE lock # "writer"
      BY <1>1, <2>2, SameDInv DEF Receive
  <2> QED BY <2>1, <2>2
<1>2. CASE PerformCompaction
    BY <1>2, SameDInv DEF PerformCompaction
<1>3. CASE RegisterSnapshot
    BY <1>3, SameDInv DEF RegisterSnapshot
<1>4. CASE RemoveLog
    BY <1>4, SameDInv DEF RemoveLog
<1>5. CASE CompactorFails
    BY <1>5, SameDInv DEF CompactorFails
<1>6. CASE Merger
    BY <1>6, SameDInv DEF Merger, MergerInit, MergerReceive, MergeSnapshots, UnlinkMerged
<1> QED BY <1>1, <1>2, <1>3, <1>4, <1>5, <1>6 DEF Compactor

\* The process ends outside the window between the commits, or with the sentinel
\* file in place.
LEMMA DieDInv ==
    ASSUME Inv, DInv, up, Die, sentinel' = sentinel, sentinel \/ wr # "orig"
    PROVE  DInv'
<1>1. Phases' /\ pushed' \in Nat
    BY DEF Die, Phases, DInv, Values
<1> QED BY <1>1, CalmDInv DEF Die, readVars

\* A start without the sentinel file finds the log of a clean shutdown; with it, the
\* log is made from the database.
LEMMA StartDInv ==
    ASSUME Inv, DInv, Start \/ RecoverLog
    PROVE  DInv'
<1> USE DEF readVars, pageVars
<1>0. pushed \in Nat /\ wr = "idle" /\ txn = NoPages /\ unc = 0 /\ lock # "writer"
    BY DEF Start, RecoverLog, DInv, Phases, Values
<1>1. CASE Start
  <2>1. Phases' /\ pushed' \in Nat
      BY <1>0, <1>1 DEF Start, Phases
  <2> QED BY <1>0, <1>1, <2>1, CalmDInv DEF Start
<1>2. CASE RecoverLog
  <2>1. Phases' /\ Values'
      BY <1>0, <1>2 DEF RecoverLog, DInv, Phases, Values
  <2>2. Buffered' /\ Covered' /\ Pending'
      BY <1>0, <1>2 DEF RecoverLog, Buffered, Covered, Pending
  <2>3. InSync'
    <3>1. PICK m \in 0..MaxPage : DOMAIN db = 1..m
        BY DEF Inv, TypeOK
    <3>2. Cardinality(DOMAIN db) = m
      <4>1. 1 \in Int /\ m \in Int /\ m >= 0
          BY Constants
      <4>2. Cardinality(1..m) = IF 1 > m THEN 0 ELSE m - 1 + 1
          BY <4>1, FS_Interval, Zenon
      <4> QED BY <3>1, <4>1, <4>2
    <3>3. hist' = Dump(db) /\ next' = m /\ db' = db
        BY <1>2, <3>2 DEF RecoverLog
    <3>4. db = [p \in 1..m |-> db[p]] /\ m \in Nat
        BY <3>1, Constants DEF DInv, Values
    <3>5. Describes(Dump(db), m, db)
        BY <3>1, <3>4, DescribesDump
    <3> QED BY <3>3, <3>5 DEF InSync
  <2> QED BY <2>1, <2>2, <2>3 DEF DInv
<1> QED BY <1>1, <1>2

\* Every step but the one that loses a commit keeps the invariant.
LEMMA NextDInv == Inv /\ DInv /\ [Next]_vars /\ [~LostCommit]_vars => DInv'
<1> SUFFICES ASSUME Inv, DInv, [Next]_vars, [~LostCommit]_vars PROVE DInv'
    OBVIOUS
<1>1. CASE Writer
    BY <1>1, FlushDInv, OrigDInv, CommitDInv, WriterDInv DEF Writer
<1>2. CASE PeriodicCompact \/ Compactor \/ Merger
    BY <1>2, WriterDInv, ThreadDInv
<1>3. CASE SendFails
  <2>1. CASE lock = "writer"
    <3>1. wr # "orig"
        BY <2>1 DEF DInv, Phases
    <3> QED BY <1>3, <2>1, <3>1, DieDInv DEF SendFails
  <2>2. CASE lock # "writer"
      BY <1>3, <2>2, SameDInv DEF SendFails, readVars, diskVars, fileVars, pageVars
  <2> QED BY <2>1, <2>2
<1>4. CASE Kill
  <2>1. ~(vars' = vars)
      BY <1>4 DEF Kill, Die, vars, primVars
  <2>2. sentinel \/ wr # "orig"
      BY <1>4, <2>1 DEF LostCommit
  <2> QED BY <1>4, <2>2, DieDInv DEF Kill
<1>5. CASE EndShutdown
    BY <1>5, DieDInv DEF EndShutdown
<1>6. CASE BeginShutdown
    BY <1>6, SameDInv DEF BeginShutdown, readVars, fileVars, pageVars
<1>7. CASE Start \/ RecoverLog
    BY <1>7, StartDInv
<1>8. CASE UNCHANGED vars
    BY <1>8, SameDInv DEF vars, readVars, primVars, diskVars, fileVars, pageVars
<1> QED BY <1>1, <1>2, <1>3, <1>4, <1>5, <1>6, <1>7, <1>8 DEF Next, Process, Idle

-----------------------------------------------------------------------------
(* The theorem. *)

\* Outside the window between SQLite's commit and the log's, replaying the log of a
\* running primary gives exactly the database, whatever was spilled, rolled back,
\* compacted, killed and recovered, with one exception: a kill in that window while
\* the process shuts down, because the sentinel file is removed before the
\* connections are done.
THEOREM LogDescribesDatabase ==
    Spec /\ [][~LostCommit]_vars => []LogMatchesDatabase
<1>1. Inv /\ DInv => LogMatchesDatabase
  <2> SUFFICES ASSUME Inv, DInv, up, wr # "orig" PROVE db = DbAt(hist, next)
      BY DEF LogMatchesDatabase
  <2>1. Describes(hist, next, db) /\ next \in Nat
      BY DEF Inv, TypeOK, DInv, InSync
  <2> QED BY <2>1, DescribesDbAt
<1> QED BY <1>1, InitDInv, NextDInv, InvHolds, PTL DEF Spec

-----------------------------------------------------------------------------
(* Snapshots: stretches of the history. *)

\* The frames a..b of h.
Stretch(h, a, b) == {h[f] : f \in a..b}

\* The frames of h below n have their numbers.
NumberedUpTo(h, n) == \A f \in 0..(n - 1) : h[f].no = f

-----------------------------------------------------------------------------
(* Compacting frames. *)

\* Every frame of a stretch has a newest frame of its page in it.
LEMMA NewestExists ==
    ASSUME NEW h, NEW n \in Nat, NumberedUpTo(h, n), NEW a \in Nat, NEW b \in 0..(n - 1),
           NEW g \in a..b
    PROVE  \E m \in a..b : /\ m >= g /\ h[m].page = h[g].page
                           /\ h[m] \in Newest(Stretch(h, a, b))
<1> DEFINE S == {f \in a..b : h[f].page = h[g].page}
<1>1. S \subseteq 0..b /\ S # {} /\ b \in Nat
    OBVIOUS
<1>2. PICK m \in S : \A z \in S : m >= z
  <2> HIDE DEF S
  <2> QED BY <1>1, GreatestBelow
<1>3. m \in a..b /\ m >= g /\ h[m].page = h[g].page
    BY <1>2
<1>4. ASSUME NEW y \in Stretch(h, a, b), y.page = h[m].page PROVE y.no <= h[m].no
  <2>1. PICK f \in a..b : y = h[f]
      BY DEF Stretch
  <2>2. f \in S
      BY <1>3, <1>4, <2>1
  <2>3. h[f].no = f /\ h[m].no = m
      BY <1>3 DEF NumberedUpTo
  <2> QED BY <1>2, <2>1, <2>2, <2>3
<1>5. h[m] \in Newest(Stretch(h, a, b))
    BY <1>3, <1>4 DEF Newest, Stretch
<1> QED BY <1>3, <1>5

\* The last frame of a stretch is the newest of its page.
LEMMA LastIsNewest ==
    ASSUME NEW h, NEW n \in Nat, NumberedUpTo(h, n), NEW b \in 0..(n - 1), NEW a \in 0..b
    PROVE  h[b] \in Newest(Stretch(h, a, b)) /\ h[b].no = b
<1>1. PICK m \in a..b : m >= b /\ h[m] \in Newest(Stretch(h, a, b))
    BY NewestExists
<1>2. m = b /\ h[b].no = b
    BY <1>1 DEF NumberedUpTo
<1> QED BY <1>1, <1>2

\* The stretches s[i]..e[i] make up a..b.
Tiles(I, s, e, a, b) ==
    /\ \A i \in I : s[i] \in Nat /\ e[i] \in Nat /\ a <= s[i] /\ e[i] <= b
    /\ \A f \in a..b : \E i \in I : f \in s[i]..e[i]

\* The compactions of the stretches, taken together.
Compactions(h, I, s, e) == UNION {Newest(Stretch(h, s[i], e[i])) : i \in I}

\* Compacting the compactions of stretches is compacting what they make up.
LEMMA NewestOfNewest ==
    ASSUME NEW h, NEW n \in Nat, NumberedUpTo(h, n), NEW I, NEW s, NEW e,
           NEW a \in Nat, NEW b \in 0..(n - 1), Tiles(I, s, e, a, b)
    PROVE  Newest(Compactions(h, I, s, e)) = Newest(Stretch(h, a, b))
<1> USE DEF Compactions
<1> DEFINE F == Compactions(h, I, s, e)
           H == Stretch(h, a, b)
<1>1. ASSUME NEW i \in I PROVE Stretch(h, s[i], e[i]) \subseteq H
    BY DEF Tiles, Stretch
<1>2. F \subseteq H
    BY <1>1 DEF Newest
<1>3. ASSUME NEW y \in H
      PROVE  /\ \E i \in I : y \in Stretch(h, s[i], e[i])
             /\ \E z \in F : z.page = y.page /\ y.no <= z.no
  <2>1. PICK f \in a..b : y = h[f]
      BY DEF Stretch
  <2>2. PICK i \in I : f \in s[i]..e[i]
      BY DEF Tiles
  <2>3. s[i] \in Nat /\ e[i] \in 0..(n - 1)
      BY DEF Tiles
  <2>4. PICK m \in s[i]..e[i] : /\ m >= f /\ h[m].page = h[f].page
                                /\ h[m] \in Newest(Stretch(h, s[i], e[i]))
      BY <2>2, <2>3, NewestExists
  <2>5. h[m].no = m /\ h[f].no = f
      BY <2>2, <2>3 DEF NumberedUpTo
  <2>6. h[m] \in F
      BY <2>4
  <2>7. y \in Stretch(h, s[i], e[i])
      BY <2>1, <2>2 DEF Stretch
  <2> HIDE DEF F
  <2> QED BY <2>1, <2>4, <2>5, <2>6, <2>7
<1>4. ASSUME NEW y \in H PROVE y.no \in Int
    BY DEF Stretch, NumberedUpTo
<1>5. ASSUME NEW y \in Newest(F) PROVE y \in Newest(H)
  <2>1. y \in F /\ y \in H
      BY <1>2 DEF Newest
  <2>2. ASSUME NEW g \in H, g.page = y.page PROVE g.no <= y.no
    <3>1. PICK z \in F : z.page = g.page /\ g.no <= z.no
        BY <1>3
    <3>2. z.no <= y.no
        BY <1>5, <2>2, <3>1 DEF Newest
    <3>3. z \in H
        BY <1>2
    <3> QED BY <1>4, <2>1, <3>1, <3>2, <3>3
  <2> QED BY <2>1, <2>2 DEF Newest
<1>6. ASSUME NEW y \in Newest(H) PROVE y \in Newest(F)
  <2>1. y \in H
      BY DEF Newest
  <2>2. PICK i \in I : y \in Stretch(h, s[i], e[i])
      BY <1>3, <2>1
  <2>3. y \in Newest(Stretch(h, s[i], e[i]))
      BY <1>1, <2>2 DEF Newest
  <2>4. y \in F
      BY <2>3
  <2> QED BY <1>2, <2>4 DEF Newest
<1> QED BY <1>5, <1>6

\* Ranges that follow each other without a hole, from 0 on, cover what lies below
\* the end of the last one.
LEMMA NoHoles ==
    ASSUME NEW k \in Nat \ {0}, NEW s, NEW e,
           \A i \in 1..k : s[i] \in Nat /\ e[i] \in Nat,
           s[1] = 0, \A i \in 1..(k - 1) : s[i + 1] <= e[i] + 1,
           NEW f \in 0..e[k]
    PROVE  \E i \in 1..k : f \in s[i]..e[i]
<1> DEFINE T == {i \in 1..k : f <= e[i]}
<1>1. T \subseteq Nat /\ T # {}
  <2>1. k \in T
      OBVIOUS
  <2> QED BY <2>1
<1>2. PICK i \in T : \A z \in T : i <= z
  <2> HIDE DEF T
  <2> QED BY <1>1, LeastNatural
<1>3. s[i] <= f
  <2>1. CASE i = 1
      BY <2>1
  <2>2. CASE i # 1
    <3>1. i - 1 \in 1..(k - 1) /\ i - 1 \in 1..k /\ (i - 1) + 1 = i
        BY <2>2
    <3>2. i - 1 \notin T
        BY <1>2, <3>1
    <3>3. ~(f <= e[i - 1])
        BY <3>1, <3>2
    <3>4. s[i] <= e[i - 1] + 1
        BY <3>1
    <3> QED BY <3>1, <3>3, <3>4
  <2> QED BY <2>1, <2>2
<1> QED BY <1>2, <1>3

\* A part of a stretch is a finite set.
LEMMA FiniteStretch ==
    ASSUME NEW h, NEW a \in Int, NEW b \in Int, NEW S, S \subseteq Stretch(h, a, b)
    PROVE  IsFiniteSet(S) /\ Cardinality(S) \in Nat
<1> DEFINE g == [f \in a..b |-> h[f]]
<1>1. IsFiniteSet(a..b)
    BY FS_Interval
<1>2. g \in Surjection(a..b, Stretch(h, a, b))
    BY DEF Surjection, Stretch
<1>3. IsFiniteSet(Stretch(h, a, b))
  <2> HIDE DEF g
  <2> QED BY <1>1, <1>2, FS_Surjection
<1> QED BY <1>3, FS_Subset, FS_CardinalityType

-----------------------------------------------------------------------------
(* The invariant. *)

\* The names of snapshots, and what the compactor registers with the merger.
Name == [s : Nat, e : Nat, n : Nat]
Registration == [name : Name, pages : Nat]

\* Committed frames have their numbers, and so have the ones to be committed.
Numbers ==
    /\ NumberedUpTo(hist, next)
    /\ \A k \in count..(count + unc - 1) : file[ino][k].no = first + k

\* A snapshot file is the compaction of the frames in its name.
Faithful(x) ==
    /\ x.s \in Nat /\ x.e \in Nat /\ x.s <= x.e /\ x.e < next
    /\ x.frames = Newest(Stretch(hist, x.s, x.e))

\* All of them are.
Snapshots == IsFiniteSet(snaps) /\ \A x \in snaps : Faithful(x)

\* A log that was swapped out still has its frames, in its file.
LogCopy(j) ==
    /\ j.ino # NoInode /\ j.count > 0 /\ j.start + j.count <= next
    /\ \A k \in 0..(j.count - 1) : file[j.ino][k] = hist[j.start + k]

\* Where the logs that wait for the compactor begin.
Waiting == IF sending = NoJob THEN first ELSE sending.start

\* The logs on their way follow each other. The compactor may be reading the file of
\* the live log, but only while the lock keeps the writer away from it.
Closed ==
    /\ tempLog # wallog
    /\ sending # NoJob => /\ LogCopy(sending) /\ sending.ino # ino
                          /\ sending.start + sending.count = first
    /\ cs = "compact" => /\ LogCopy(job) /\ (job.ino = ino => lock # "free")
                         /\ job.start + job.count = Waiting

\* A process that is down has no threads.
Down ==
    ~up => /\ sending = NoJob /\ lock = "free" /\ cs = "recv" /\ ms = "init"
           /\ mlist = <<>> /\ mqueue = <<>> /\ unc = 0

\* The types of the merger's list and channel.
ListTypes ==
    /\ mlist \in Seq(Name) /\ mqueue \in Seq(Registration)
    /\ cs = "callback" => job.name \in Name

\* The end of what the merger has listed, and of what it will have listed once its
\* channel is empty.
ListEnd == IF mlist = <<>> THEN 0 ELSE mlist[Len(mlist)].e + 1
End == IF mqueue = <<>> THEN ListEnd ELSE mqueue[Len(mqueue)].name.e + 1

\* The list of the merger and its channel have no holes, although a snapshot may be
\* in them twice.
Linked ==
    /\ \A i \in 1..(Len(mlist) - 1) : mlist[i + 1].s <= mlist[i].e + 1
    /\ mlist # <<>> => mlist[1].s = 0
    /\ ms = "merge" => mlist # <<>>
    /\ \A i \in 1..(Len(mqueue) - 1) : mqueue[i + 1].name.s <= mqueue[i].name.e + 1
    /\ mqueue # <<>> => mqueue[1].name.s <= ListEnd

\* Frames below Done are in snapshots, the rest is waiting or in the live log.
Done == IF cs = "compact" THEN job.start ELSE Waiting

\* What the merger has been told of ends where the compactor goes on.
Reaches ==
    up => /\ cs \in {"recv", "compact", "remove"} => End = Done
          /\ cs = "callback" => job.name.s <= End /\ job.name.e + 1 = Done

\* Until the merger has listed the directory, it holds one snapshot after the other.
Directory ==
    up /\ ms = "init" =>
        /\ mlist = <<>>
        /\ \A x \in snaps : x.s = 0 \/ \E y \in snaps : y.e + 1 = x.s
        /\ \A x, y \in snaps : x = y \/ x.e < y.s \/ y.e < x.s
        /\ cs # "dead" => /\ \A x \in snaps : x.e < Done
                          /\ Done > 0 => \E x \in snaps : x.e + 1 = Done

\* Nobody shuts the process down.
Undisturbed == sentinel /\ shutdowns = 0

\* The inductive invariant, next to Inv.
SInv ==
    /\ Numbers /\ Snapshots /\ Closed /\ Down /\ ListTypes
    /\ Linked /\ Reaches /\ Directory /\ Undisturbed

\* What the code does not cover: compaction by age, and clean shutdowns.
Setting == ~HasDuration /\ MaxShutdowns = 0

\* Initially there are no snapshots and nothing to compact.
LEMMA InitSInv == Init => SInv
<1> SUFFICES ASSUME Init PROVE SInv
    OBVIOUS
<1> USE DEF Init
<1>1. Numbers
    BY DEF Numbers, NumberedUpTo
<1>2. Snapshots
    BY FS_EmptySet DEF Snapshots
<1>3. Closed /\ Down /\ Undisturbed
    BY DEF Closed, Down, Undisturbed, NoInode
<1>4. ListTypes
    BY EmptySeq DEF ListTypes
<1>5. Linked /\ Reaches /\ Directory
    BY EmptySeq DEF Linked, Reaches, Directory, End, ListEnd, Done, Waiting
<1> QED BY <1>1, <1>2, <1>3, <1>4, <1>5 DEF SInv

-----------------------------------------------------------------------------
(* Steps that change one part of the invariant. *)

\* The history below next is kept.
HistoryKept == next' \in Nat /\ next <= next' /\ \A f \in 0..(next - 1) : hist'[f] = hist[f]

\* Snapshots stay what they are when the history grows.
LEMMA StaysFaithful ==
    ASSUME HistoryKept, next \in Nat, NEW x, Faithful(x)
    PROVE  Faithful(x)'
<1>1. x.s \in Nat /\ x.e \in Nat /\ x.s <= x.e /\ x.e < next
    BY DEF Faithful
<1>2. \A f \in x.s..x.e : hist'[f] = hist[f]
    BY <1>1 DEF HistoryKept
<1>3. Stretch(hist', x.s, x.e) = Stretch(hist, x.s, x.e)
    BY <1>2 DEF Stretch
<1> QED BY <1>1, <1>3 DEF Faithful, HistoryKept

\* A log that was swapped out keeps its frames if nobody writes to its file.
LEMMA StaysCopy ==
    ASSUME HistoryKept, next \in Nat, NEW j, JobOK(j), LogCopy(j), file'[j.ino] = file[j.ino]
    PROVE  LogCopy(j)'
<1>1. j.start \in Nat /\ j.count \in Nat /\ j.start + j.count <= next
    BY Constants DEF JobOK, LogCopy
<1>2. \A k \in 0..(j.count - 1) : hist'[j.start + k] = hist[j.start + k]
    BY <1>1 DEF HistoryKept
<1> QED BY <1>1, <1>2 DEF LogCopy, HistoryKept

\* The threads, their lists and the directory.
listVars == <<snaps, first, up, sending, cs, job, ms, mqueue, mlist, sentinel, shutdowns>>

\* The rest of the invariant depends on them only.
LEMMA ListsKept ==
    ASSUME SInv, UNCHANGED listVars
    PROVE  ListTypes' /\ Linked' /\ Reaches' /\ Directory' /\ Undisturbed'
<1> USE DEF SInv, listVars
<1>1. ListTypes' /\ Undisturbed'
    BY DEF ListTypes, Undisturbed
<1>2. Linked' /\ Done' = Done /\ End' = End
    BY DEF Linked, ListEnd, End, Done, Waiting, NoJob
<1>3. Reaches'
    BY <1>2 DEF Reaches
<1>4. Directory'
    BY <1>2 DEF Directory
<1> QED BY <1>1, <1>2, <1>3, <1>4

\* A step of the writer: it may add to its own file and to the history.
LEMMA WriterStep ==
    ASSUME Inv, SInv, UNCHANGED listVars, UNCHANGED <<tempLog, wallog, ino, lock>>, up,
           HistoryKept, Numbers',
           \A i \in Inodes : i # ino \/ lock # "free" => file'[i] = file[i]
    PROVE  SInv'
<1> USE DEF listVars
<1>0. next \in Nat /\ JobOK(sending) /\ JobOK(job)
    BY DEF Inv, TypeOK
<1>1. Snapshots'
    BY <1>0, StaysFaithful DEF SInv, Snapshots
<1>2. Closed'
  <2>1. ASSUME sending # NoJob PROVE LogCopy(sending)'
    <3>1. LogCopy(sending) /\ sending.ino # ino /\ sending.ino \in Inodes
        BY <1>0, <2>1 DEF SInv, Closed, LogCopy, JobOK
    <3>2. LogCopy(sending)
        BY <3>1
    <3>3. file'[sending.ino] = file[sending.ino]
        BY <3>1
    <3> QED BY <1>0, <3>2, <3>3, StaysCopy DEF LogCopy
  <2>2. ASSUME cs = "compact" PROVE LogCopy(job)'
    <3>1. LogCopy(job) /\ (job.ino = ino => lock # "free") /\ job.ino \in Inodes
        BY <1>0, <2>2 DEF SInv, Closed, LogCopy, JobOK
    <3>2. file'[job.ino] = file[job.ino]
        BY <3>1
    <3> QED BY <1>0, <3>1, <3>2, StaysCopy DEF LogCopy
  <2>3. Waiting' = Waiting /\ (sending # NoJob)' = (sending # NoJob)
      BY DEF Waiting, NoJob
  <2> QED BY <2>1, <2>2, <2>3 DEF SInv, Closed
<1>3. Down'
    BY DEF Down
<1> QED BY <1>1, <1>2, <1>3, ListsKept DEF SInv

-----------------------------------------------------------------------------
(* The writer. *)

\* Pages pushed to a log that is not locked.
LEMMA PushSInv ==
    ASSUME Inv, SInv, Pushes, up, lock = "free",
           UNCHANGED <<listVars, tempLog, wallog, ino, lock, count, hist, next>>
    PROVE  SInv'
<1>1. PICK pages \in Seq(Pages), size \in 0..MaxPage : push_pages(pages, size)
    BY DEF Pushes
<1> DEFINE n == Len(pages)
           at == count + unc
<1>2. /\ n \in Nat /\ count \in Nat /\ unc \in Nat /\ at \in Nat /\ unc' = unc + n
      /\ at + n <= Slots /\ Slots \in Nat /\ first \in Nat /\ ino \in Inodes /\ next \in Nat
  <2>1. at + n <= Slots /\ unc' = unc + n
      BY <1>1 DEF push_pages
  <2>2. ino \in Inodes /\ next \in Nat
      BY DEF Inv, TypeOK
  <2> QED BY <2>1, <2>2, TypeOKNumbers, Constants DEF Inv
<1>3. file'[ino] = [k \in 0..(Slots - 1) |->
          IF k \in at..(at + n - 1)
          THEN Frame(first + k, pages[k - at + 1],
                     IF k = at + n - 1 THEN size ELSE 0, pushed + (k - at) + 1)
          ELSE file[ino][k]]
    BY <1>1, <1>2 DEF push_pages, Inv, TypeOK, FilesOK
<1>4. \A i \in Inodes : i # ino \/ lock # "free" => file'[i] = file[i]
    BY <1>1, <1>2 DEF push_pages, Inv, TypeOK, FilesOK
<1>5. ASSUME NEW k \in count..(count + unc' - 1) PROVE file'[ino][k].no = first + k
  <2>1. k \in 0..(Slots - 1)
      BY <1>2
  <2>2. CASE k \in at..(at + n - 1)
      BY <1>3, <2>1, <2>2 DEF Frame
  <2>3. CASE k \notin at..(at + n - 1)
    <3>1. k \in count..(count + unc - 1)
        BY <1>2, <2>3
    <3>2. file'[ino][k] = file[ino][k]
        BY <1>3, <2>1, <2>3
    <3> QED BY <3>1, <3>2 DEF SInv, Numbers
  <2> QED BY <2>2, <2>3
<1>6. Numbers'
    BY <1>5 DEF SInv, Numbers, NumberedUpTo, listVars
<1>7. HistoryKept
    BY <1>2 DEF HistoryKept
<1> QED BY <1>4, <1>6, <1>7, WriterStep

\* on_frames up to the call of orig(), whether or not the flush fails.
LEMMA FlushSInv ==
    ASSUME Inv, SInv, OnFramesSpill \/ OnFramesFlush \/ OnFramesFlushFails
    PROVE  SInv'
<1> USE DEF readVars, compVars, mergeVars, boundVars, listVars
<1>1. CASE OnFramesSpill
  <2>1. PICK p \in Pages : push_pages(<<p>>, 0)
      BY <1>1 DEF OnFramesSpill
  <2>2. <<p>> \in Seq(Pages) /\ 0 \in 0..MaxPage
      BY Constants
  <2>3. Pushes
      BY <2>1, <2>2, Zenon DEF Pushes
  <2> QED BY <1>1, <2>3, PushSInv DEF OnFramesSpill
<1>2. CASE OnFramesFlush
  <2>1. PICK pages \in PageLists, size \in Pages : push_pages(pages, size)
      BY <1>2 DEF OnFramesFlush
  <2>2. Pushes
      BY <2>1, Constants, PageListsAreSeqs DEF Pushes, Pages
  <2> QED BY <1>2, <2>2, PushSInv DEF OnFramesFlush
<1>3. CASE OnFramesFlushFails
  <2>1. PICK pages \in PageLists, n \in 0..1 :
            n < Len(pages) /\ push_pages(SubSeq(pages, 1, n), 0)
      BY <1>3 DEF OnFramesFlushFails
  <2>2. SubSeq(pages, 1, n) \in Seq(Pages) /\ 0 \in 0..MaxPage
      BY <2>1, Constants, PageListsAreSeqs
  <2>3. Pushes
      BY <2>1, <2>2, Zenon DEF Pushes
  <2> QED BY <1>3, <2>3, PushSInv DEF OnFramesFlushFails
<1> QED BY <1>1, <1>2, <1>3

\* The steps of the writer around the commit.
LEMMA WriterSInv ==
    ASSUME Inv, SInv, OrigFrames \/ OrigFramesFails \/ Notify \/ OnUndo \/ WriterNoCompact
    PROVE  SInv'
<1> USE DEF readVars, diskVars, fileVars, compVars, mergeVars, boundVars, listVars
<1>1. /\ UNCHANGED <<listVars, tempLog, wallog, ino, lock, count, hist, next, file>> /\ up
      /\ unc' = unc \/ unc' = 0
    BY DEF OrigFrames, OrigFramesFails, Notify, OnUndo, WriterNoCompact, rollback
<1>2. next \in Nat /\ count \in Nat /\ unc \in Nat
    BY TypeOKNumbers, Constants DEF Inv, TypeOK
<1>3. \A k \in count..(count + unc' - 1) : k \in count..(count + unc - 1)
    BY <1>1, <1>2
<1>4. Numbers'
    BY <1>1, <1>3 DEF SInv, Numbers, NumberedUpTo
<1>5. HistoryKept
    BY <1>1, <1>2 DEF HistoryKept
<1> QED BY <1>1, <1>4, <1>5, WriterStep

\* The commit adds the frames of the transaction to the history.
LEMMA CommitSInv ==
    ASSUME Inv, SInv, LogCommit
    PROVE  SInv'
<1> USE DEF LogCommit, commit, compVars, mergeVars, boundVars, listVars
<1>1. /\ first \in Nat /\ count \in Nat /\ unc \in Nat /\ next = first + count
      /\ count' = count + unc /\ next' = next + unc /\ unc' = 0
    BY TypeOKNumbers, Constants DEF Inv, OnDisk
<1>2. ASSUME NEW f \in 0..(next' - 1)
      PROVE  hist'[f] = IF f < next THEN hist[f] ELSE file[ino][f - first]
  <2>1. f \in 0..(first + count' - 1)
      BY <1>1
  <2> QED BY <2>1
<1>3. HistoryKept
    BY <1>1, <1>2 DEF HistoryKept
<1>4. NumberedUpTo(hist, next)'
  <2> SUFFICES ASSUME NEW f \in 0..(next' - 1) PROVE hist'[f].no = f
      BY DEF NumberedUpTo
  <2>1. CASE f < next
      BY <1>1, <1>2, <2>1 DEF SInv, Numbers, NumberedUpTo
  <2>2. CASE ~(f < next)
    <3>1. f - first \in count..(count + unc - 1) /\ first + (f - first) = f
        BY <1>1, <2>2
    <3>2. file[ino][f - first].no = first + (f - first)
        BY <3>1 DEF SInv, Numbers
    <3> QED BY <1>2, <2>2, <3>1, <3>2
  <2> QED BY <2>1, <2>2
<1>5. Numbers'
    BY <1>1, <1>4 DEF Numbers
<1> QED BY <1>3, <1>5, WriterStep

-----------------------------------------------------------------------------
(* Compaction. *)

\* The new log does not use a file that somebody reads.
LEMMA FreeInodeUnused ==
    ASSUME Inv, up, lock = "free", tempLog = NoInode
    PROVE  FreeInode \in Inodes /\ FreeInode # wallog /\ FreeInode # ino /\ FreeInode # job.ino
<1>1. ino = wallog /\ sending.ino = 0 /\ tempLog = 0
    BY DEF Inv, OnDisk, Handover, NoJob, Job, NoInode
<1>2. \E i \in Inodes : i \notin {wallog, tempLog, ino, job.ino, sending.ino}
  <2>1. CASE 1 \notin {wallog, job.ino}
      BY <1>1, <2>1 DEF Inodes
  <2>2. CASE 2 \notin {wallog, job.ino}
      BY <1>1, <2>2 DEF Inodes
  <2>3. CASE 3 \notin {wallog, job.ino}
      BY <1>1, <2>3 DEF Inodes
  <2> QED BY <2>1, <2>2, <2>3
<1>3. FreeInode \in Inodes /\ FreeInode \notin {wallog, tempLog, ino, job.ino, sending.ino}
    BY <1>2, Zenon DEF FreeInode
<1> QED BY <1>3

\* A log with frames is swapped for an empty one.
LEMMA SwapSInv ==
    ASSUME Inv, SInv, up, lock = "free", count > 0, unc = 0, NEW pages \in Nat,
           NEW who \in {"writer", "periodic"}, do_compaction(pages, who),
           UNCHANGED <<hist, next, up, unc, snaps, sentinel, shutdowns, compVars, mergeVars>>
    PROVE  SInv'
<1> USE DEF compVars, mergeVars
<1> DEFINE new == IF tempLog = NoInode THEN FreeInode ELSE tempLog
<1>1. /\ ino = wallog /\ sending = NoJob /\ next = first + count /\ next \in Nat
      /\ first \in Nat /\ count \in Nat /\ JobOK(job) /\ ino \in Inodes
      /\ tempLog # wallog /\ \A f \in first..(next - 1) : file[ino][f - first] = hist[f]
    BY Constants DEF Inv, TypeOK, OnDisk, Handover, frame, SInv, Closed
<1>2. new \in Inodes /\ new # ino /\ (tempLog = NoInode => new # job.ino)
    BY <1>1, FreeInodeUnused DEF Inv, TypeOK
<1>3. /\ wallog' = new /\ ino' = new /\ tempLog' = wallog /\ first' = next /\ count' = 0
      /\ lock' # "free" /\ sending' = Job(ino, first, count, pages, NoName)
    BY <1>1 DEF do_compaction
<1>4. ASSUME NEW i \in Inodes, i # new PROVE file'[i] = file[i]
    BY <1>2, <1>4 DEF do_compaction, Inv, TypeOK, FilesOK
<1>5. tempLog # NoInode => file' = file
    BY DEF do_compaction
<1>6. sending' # NoJob /\ sending'.start = first /\ sending'.count = count /\ sending'.ino = ino
    BY <1>1, <1>3 DEF Job, NoJob, Inodes, NoInode
<1>7. LogCopy(sending)'
  <2>1. ASSUME NEW k \in 0..(count - 1) PROVE file'[ino][k] = hist[first + k]
    <3>1. first + k \in first..(next - 1) /\ (first + k) - first = k
        BY <1>1
    <3>2. file[ino][(first + k) - first] = hist[first + k]
        BY <1>1, <3>1
    <3>3. file'[ino] = file[ino]
        BY <1>1, <1>2, <1>4
    <3> QED BY <3>1, <3>2, <3>3
  <2> QED BY <1>1, <1>6, <2>1 DEF LogCopy, Inodes, NoInode
<1>8. HistoryKept
    BY <1>1 DEF HistoryKept
<1>9. Waiting' = Waiting /\ Done' = Done
    BY <1>1, <1>6 DEF Waiting, Done
<1>10. Numbers'
  <2>1. \A k \in 0..(0 + 0 - 1) : FALSE
      OBVIOUS
  <2> QED BY <1>3, <2>1 DEF SInv, Numbers, NumberedUpTo
<1>11. Snapshots'
    BY <1>1, <1>8, StaysFaithful DEF SInv, Snapshots
<1>12. Closed'
  <2>1. ASSUME cs = "compact" PROVE LogCopy(job)'
    <3>1. LogCopy(job) /\ job.ino \in Inodes
        BY <1>1, <2>1 DEF SInv, Closed, LogCopy, JobOK
    <3>2. file'[job.ino] = file[job.ino]
        BY <1>2, <1>4, <1>5, <3>1
    <3> QED BY <1>1, <1>8, <3>1, <3>2, StaysCopy DEF LogCopy
  <2> QED BY <1>1, <1>2, <1>3, <1>6, <1>7, <1>9, <2>1 DEF SInv, Closed
<1>13. Down'
    BY DEF Down
<1>14. ListTypes' /\ Undisturbed' /\ Linked' /\ End' = End
    BY DEF SInv, ListTypes, Undisturbed, Linked, End, ListEnd
<1>15. Reaches' /\ Directory'
    BY <1>9, <1>14 DEF SInv, Reaches, Directory
<1> QED BY <1>10, <1>11, <1>12, <1>13, <1>14, <1>15 DEF SInv

\* Compaction by the writer and by the periodic task, by size only.
LEMMA CompactionSInv ==
    ASSUME Setting, Inv, SInv, WriterCompact \/ PeriodicCompact
    PROVE  SInv'
<1> USE DEF boundVars
<1>1. /\ count \in Nat /\ MaxLogFrames \in Nat
      /\ \A elapsed \in Elapsed : should_compact(elapsed) => count > 0 /\ unc = 0
  <2>1. count \in Nat /\ MaxLogFrames \in Nat
      BY Constants, PrimaryAssumption DEF Inv, TypeOK
  <2>2. Elapsed = {FALSE}
      BY DEF Setting, Elapsed
  <2>3. should_compact(FALSE) => count > 0 /\ unc = 0
      BY <2>1 DEF should_compact
  <2> QED BY <2>1, <2>2, <2>3
<1>2. CASE WriterCompact
  <2>1. Cardinality(DOMAIN db) \in Nat
      BY DbSize DEF Inv
  <2> QED BY <1>1, <1>2, <2>1, SwapSInv DEF WriterCompact
<1>3. CASE PeriodicCompact
  <2>1. file[ino][count - 1].size \in Nat
    <3>1. count > 0 /\ count \in 0..Slots /\ ino \in Inodes
        BY <1>3 DEF PeriodicCompact, Inv, TypeOK
    <3>2. count - 1 \in 0..(Slots - 1)
        BY <3>1, Constants
    <3> QED BY <3>1, <3>2, Constants DEF Inv, TypeOK, FilesOK, FrameOK
  <2> QED BY <1>1, <1>3, <2>1, SwapSInv DEF PeriodicCompact
<1> QED BY <1>2, <1>3

-----------------------------------------------------------------------------
(* The compactor thread. *)

\* A step of a thread that leaves the log and the history alone.
threadVars == <<hist, next, file, first, count, unc, ino, wallog, up, sentinel, shutdowns>>

\* The parts of the invariant about the log.
LEMMA LogKept ==
    ASSUME Inv, SInv, up, UNCHANGED threadVars
    PROVE  Numbers' /\ Undisturbed' /\ Down' /\ HistoryKept /\ next \in Nat
           /\ (\A j : LogCopy(j) => LogCopy(j)')
<1> USE DEF threadVars
<1>1. Numbers' /\ Undisturbed' /\ Down'
    BY DEF SInv, Numbers, NumberedUpTo, Undisturbed, Down
<1>2. next \in Nat /\ HistoryKept
    BY DEF Inv, TypeOK, HistoryKept
<1>3. \A j : LogCopy(j) => LogCopy(j)'
    BY DEF LogCopy
<1> QED BY <1>1, <1>2, <1>3

\* The compactor takes the log that is offered.
LEMMA ReceiveSInv ==
    ASSUME Inv, SInv, Receive
    PROVE  SInv'
<1> USE DEF Receive, readVars, diskVars, fileVars, mergeVars, boundVars
<1>0. UNCHANGED threadVars /\ up /\ snaps' = snaps
    BY DEF threadVars
<1>1. Numbers' /\ Undisturbed' /\ Down' /\ HistoryKept /\ next \in Nat
    BY <1>0, LogKept
<1>2. LogCopy(sending) /\ sending.ino # ino /\ sending.start + sending.count = first
    BY DEF SInv, Closed
<1>3. LogCopy(job)'
    BY <1>2 DEF LogCopy
<1>4. Waiting' = first /\ Waiting = sending.start /\ Done' = Done
    BY DEF Waiting, Done
<1>5. Closed'
    BY <1>2, <1>3, <1>4 DEF SInv, Closed
<1>6. Snapshots'
    BY <1>0, <1>1, StaysFaithful DEF SInv, Snapshots
<1>7. ListTypes' /\ Linked' /\ End' = End
    BY DEF SInv, ListTypes, Linked, End, ListEnd
<1>8. Reaches' /\ Directory'
    BY <1>0, <1>4, <1>7 DEF SInv, Reaches, Directory
<1> QED BY <1>1, <1>5, <1>6, <1>7, <1>8 DEF SInv

\* A snapshot file that is written is faithful if it is the compaction of its range.
LEMMA PersistFaithful ==
    ASSUME Snapshots, UNCHANGED <<hist, next>>, next \in Nat, NEW s \in Nat, NEW e \in Nat,
           s <= e, e < next, NEW F, PersistSnapshot(s, e, F),
           Newest(F) = Newest(Stretch(hist, s, e))
    PROVE  Snapshots'
<1> DEFINE y == [s |-> s, e |-> e, frames |-> Newest(F)]
           kept == {x \in snaps : ~(x.s = s /\ x.e = e)}
<1>1. snaps' = kept \cup {y}
    BY DEF PersistSnapshot
<1>2. IsFiniteSet(kept)
    BY FS_Subset DEF Snapshots
<1>3. IsFiniteSet(snaps')
  <2> HIDE DEF kept, y
  <2> QED BY <1>1, <1>2, FS_AddElement
<1>4. HistoryKept
    BY DEF HistoryKept
<1>5. \A x \in kept : Faithful(x)'
    BY <1>4, StaysFaithful DEF Snapshots
<1>6. Faithful(y)'
    BY DEF Faithful
<1>7. \A x \in snaps' : Faithful(x)'
  <2> HIDE DEF kept, y
  <2> QED BY <1>1, <1>5, <1>6
<1> QED BY <1>3, <1>7 DEF Snapshots

\* What the compactor reads from the file of a closed log.
LEMMA ReadsLog ==
    ASSUME NEW j, JobOK(j), LogCopy(j), NumberedUpTo(hist, next), next \in Nat, next <= U64Max,
           NEW F, F = UNION {rev_frames_iter(j)[k] : k \in DOMAIN rev_frames_iter(j)},
           NEW b, b = j.start + j.count - 1
    PROVE  /\ F = Stretch(hist, j.start, b)
           /\ Min({f.no : f \in F} \cup {U64Max}) = j.start
           /\ Max({f.no : f \in F} \cup {0}) = b
           /\ j.start \in Nat /\ b \in Nat /\ j.start <= b /\ b < next /\ b + 1 = j.start + j.count
<1>1. /\ j.start \in Nat /\ j.count \in Nat /\ j.count > 0 /\ j.start + j.count <= next
      /\ b \in Nat /\ j.start <= b /\ b < next /\ b + 1 = j.start + j.count
      /\ \A k \in 0..(j.count - 1) : file[j.ino][k] = hist[j.start + k]
    BY Constants DEF JobOK, LogCopy
<1>2. F = {file[j.ino][k - 1] : k \in 1..j.count}
  <2>1. DOMAIN rev_frames_iter(j) = 1..j.count
      BY DEF rev_frames_iter
  <2>2. \A k \in 1..j.count : rev_frames_iter(j)[k] = {file[j.ino][k - 1]}
      BY DEF rev_frames_iter
  <2>3. \A x : x \in F <=> \E k \in 1..j.count : x = file[j.ino][k - 1]
      BY <2>1, <2>2
  <2> QED BY <2>3
<1>3. ASSUME NEW x PROVE x \in F <=> x \in Stretch(hist, j.start, b)
  <2>1. ASSUME x \in F PROVE x \in Stretch(hist, j.start, b)
    <3>1. PICK k \in 1..j.count : x = file[j.ino][k - 1]
        BY <1>2, <2>1
    <3>2. k - 1 \in 0..(j.count - 1) /\ j.start + (k - 1) \in j.start..b
        BY <1>1
    <3> QED BY <1>1, <3>1, <3>2 DEF Stretch
  <2>2. ASSUME x \in Stretch(hist, j.start, b) PROVE x \in F
    <3>1. PICK f \in j.start..b : x = hist[f]
        BY <2>2 DEF Stretch
    <3> DEFINE k == f - j.start + 1
    <3>2. k \in 1..j.count /\ k - 1 \in 0..(j.count - 1) /\ j.start + (k - 1) = f
        BY <1>1
    <3>3. x = file[j.ino][k - 1]
        BY <1>1, <3>1, <3>2
    <3> HIDE DEF k
    <3> QED BY <1>2, <3>2, <3>3
  <2> QED BY <2>1, <2>2
<1>4. F = Stretch(hist, j.start, b)
    BY <1>3
<1>5. ASSUME NEW f \in j.start..b PROVE hist[f].no = f
    BY <1>1 DEF NumberedUpTo
<1> DEFINE N == {f.no : f \in F}
<1>6. N = j.start..b
  <2>1. ASSUME NEW y \in N PROVE y \in j.start..b
    <3>1. PICK x \in F : y = x.no
        OBVIOUS
    <3>2. PICK f \in j.start..b : x = hist[f]
        BY <1>4 DEF Stretch
    <3> QED BY <1>5, <3>1, <3>2
  <2>2. ASSUME NEW y \in j.start..b PROVE y \in N
    <3>1. hist[y] \in F /\ hist[y].no = y
        BY <1>4, <1>5 DEF Stretch
    <3> QED BY <3>1
  <2> HIDE DEF N
  <2> QED BY <2>1, <2>2
<1>7. ASSUME NEW S, S = N \cup {U64Max} PROVE Min(S) = j.start
  <2>1. U64Max \in Nat
      BY DEF U64Max
  <2>2. j.start \in S /\ \A y \in S : j.start <= y /\ y \in Int
      BY <1>1, <1>6, <1>7, <2>1
  <2>3. Min(S) \in S /\ \A y \in S : Min(S) <= y
      BY <2>2, Zenon DEF Min
  <2> QED BY <1>1, <2>2, <2>3
<1>8. ASSUME NEW S, S = N \cup {0} PROVE Max(S) = b
  <2>2. b \in S /\ \A y \in S : b >= y /\ y \in Int
      BY <1>1, <1>6, <1>8
  <2>3. Max(S) \in S /\ \A y \in S : Max(S) >= y
      BY <2>2, Zenon DEF Max
  <2>4. Max(S) \in Int /\ b >= Max(S) /\ Max(S) >= b
      BY <2>2, <2>3, Zenon
  <2> QED BY <1>1, <2>4
<1> QED BY <1>1, <1>4, <1>7, <1>8

\* The compactor writes its snapshot: the next one in the directory.
LEMMA CompactedSInv ==
    ASSUME Inv, SInv, PerformCompaction, next <= U64Max
    PROVE  SInv'
<1> USE DEF fileVars, mergeVars, boundVars
<1> DEFINE slots == rev_frames_iter(job)
           F == UNION {slots[k] : k \in DOMAIN slots}
           s == Min({f.no : f \in F} \cup {U64Max})
           e == Max({f.no : f \in F} \cup {0})
<1>0. /\ up /\ cs = "compact" /\ UNCHANGED threadVars
      /\ UNCHANGED <<tempLog, lock, sending, ms, mqueue, mlist>>
    BY DEF PerformCompaction, threadVars
<1>1. Numbers' /\ Undisturbed' /\ Down' /\ HistoryKept /\ next \in Nat
    BY <1>0, LogKept
<1>2. LogCopy(job) /\ JobOK(job) /\ NumberedUpTo(hist, next) /\ job.start + job.count = Waiting
    BY <1>0 DEF SInv, Closed, Inv, TypeOK, Numbers
<1> DEFINE b == job.start + job.count - 1
<1>3. /\ F = Stretch(hist, job.start, b) /\ s = job.start /\ e = b
      /\ s \in Nat /\ e \in Nat /\ s <= e /\ e < next /\ e + 1 = Waiting
  <2> DEFINE G == F
             d == b
  <2>1. G = UNION {rev_frames_iter(job)[k] : k \in DOMAIN rev_frames_iter(job)} /\ d = b
      OBVIOUS
  <2>2. /\ G = Stretch(hist, job.start, d)
        /\ Min({f.no : f \in G} \cup {U64Max}) = job.start
        /\ Max({f.no : f \in G} \cup {0}) = d
        /\ job.start \in Nat /\ d \in Nat /\ job.start <= d /\ d < next
        /\ d + 1 = job.start + job.count
    <3> HIDE DEF G, d
    <3> QED BY <1>1, <1>2, <2>1, ReadsLog
  <2> QED BY <1>2, <2>2
<1>4. Waiting' = Waiting /\ Linked' /\ End' = End /\ Closed' /\ (Done' = Waiting \/ cs' = "dead")
  <2>1. sending' = sending /\ first' = first /\ cs' \in {"dead", "callback"}
      BY <1>0 DEF threadVars, PerformCompaction
  <2>2. Waiting' = Waiting /\ Linked' /\ End' = End
      BY <1>0, <2>1 DEF SInv, Waiting, Linked, End, ListEnd
  <2>3. sending # NoJob => LogCopy(sending)'
      BY <1>0, LogKept, <2>1 DEF SInv, Closed, LogCopy, threadVars
  <2>4. Closed'
      BY <1>0, <2>1, <2>3 DEF SInv, Closed, threadVars
  <2> QED BY <2>1, <2>2, <2>4 DEF Done
<1>5. CASE ~Descending(slots)
  <2>1. cs' = "dead" /\ snaps' = snaps
      BY <1>5 DEF PerformCompaction
  <2>2. Snapshots'
      BY <1>1, <2>1, StaysFaithful DEF SInv, Snapshots
  <2>3. ListTypes' /\ Reaches'
      BY <1>0, <2>1 DEF SInv, ListTypes, Reaches
  <2>4. Directory'
      BY <1>0, <2>1 DEF SInv, Directory, threadVars
  <2> QED BY <1>1, <1>4, <2>2, <2>3, <2>4 DEF SInv
<1>6. CASE Descending(slots)
  <2> DEFINE n == Cardinality(Newest(F))
             y == [s |-> s, e |-> e, frames |-> Newest(F)]
  <2>1. /\ cs' = "callback" /\ PersistSnapshot(s, e, F)
        /\ job' = Job(NoInode, job.start, job.count, job.pages, [s |-> s, e |-> e, n |-> n])
      BY <1>6 DEF PerformCompaction
  <2>2. Snapshots'
    <3> HIDE DEF F, s, e
    <3> QED BY <1>0, <1>1, <1>3, <2>1, PersistFaithful DEF SInv, threadVars
  <2>3. n \in Nat
    <3>1. Newest(F) \subseteq Stretch(hist, job.start, b) /\ job.start \in Int /\ b \in Int
        BY <1>3 DEF Newest
    <3> HIDE DEF F, b
    <3> QED BY <3>1, FiniteStretch
  <2>4. ListTypes'
    <3> HIDE DEF s, e, n
    <3> QED BY <1>0, <1>3, <2>1, <2>3 DEF SInv, ListTypes, Job, Name
  <2>5. Done = s /\ Done' = e + 1 /\ End = Done
      BY <1>0, <1>3, <1>4, <2>1 DEF SInv, Done, Reaches
  <2>6. Reaches'
    <3>1. job'.name.s = s /\ job'.name.e = e
      <4> HIDE DEF s, e, n
      <4> QED BY <2>1 DEF Job
    <3> HIDE DEF s, e, n
    <3> QED BY <1>3, <1>4, <2>1, <2>5, <3>1 DEF Reaches
  <2>7. Directory'
    <3> SUFFICES ASSUME ms = "init" PROVE Directory'
        BY <1>0 DEF Directory
    <3>1. /\ mlist = <<>> /\ \A x \in snaps : x.e < s /\ x.s \in Nat /\ x.e \in Nat /\ x.s <= x.e
          /\ \A x \in snaps : x.s = 0 \/ \E z \in snaps : z.e + 1 = x.s
          /\ \A x, z \in snaps : x = z \/ x.e < z.s \/ z.e < x.s
          /\ s > 0 => \E x \in snaps : x.e + 1 = s
      <4> HIDE DEF s
      <4> QED BY <1>0, <2>5 DEF SInv, Directory, Snapshots, Faithful
    <3>2. snaps' = snaps \cup {y}
      <4>1. \A x \in snaps : ~(x.s = s /\ x.e = e)
        <5> HIDE DEF s, e
        <5> QED BY <1>3, <3>1
      <4>2. {x \in snaps : ~(x.s = s /\ x.e = e)} = snaps
        <5> HIDE DEF s, e
        <5> QED BY <4>1
      <4> HIDE DEF s, e, F
      <4> QED BY <2>1, <4>2 DEF PersistSnapshot
    <3>3. y.s = s /\ y.e = e
        OBVIOUS
    <3> HIDE DEF y, s, e, n
    <3>4. \A x \in snaps' : x.s = 0 \/ \E z \in snaps' : z.e + 1 = x.s
        BY <1>3, <3>1, <3>2, <3>3
    <3>5. \A x, z \in snaps' : x = z \/ x.e < z.s \/ z.e < x.s
        BY <1>3, <3>1, <3>2, <3>3
    <3>6. \A x \in snaps' : x.e < e + 1
        BY <1>3, <3>1, <3>2, <3>3
    <3>7. \E x \in snaps' : x.e + 1 = e + 1
        BY <3>2, <3>3
    <3> QED BY <1>0, <2>5, <3>1, <3>4, <3>5, <3>6, <3>7 DEF Directory
  <2> QED BY <1>1, <1>4, <2>2, <2>4, <2>6, <2>7 DEF SInv
<1> QED BY <1>5, <1>6

\* The other steps of the compactor.
LEMMA CompactorSInv ==
    ASSUME Inv, SInv, RegisterSnapshot \/ RemoveLog \/ CompactorFails
    PROVE  SInv'
<1> USE DEF readVars, diskVars, fileVars, mergeVars, boundVars
<1>0. /\ up /\ UNCHANGED threadVars /\ UNCHANGED <<snaps, lock, sending, ms, mlist>>
      /\ cs' # "compact" /\ (tempLog' = tempLog \/ tempLog' = NoInode)
    BY DEF RegisterSnapshot, RemoveLog, CompactorFails, threadVars
<1>1. Numbers' /\ Undisturbed' /\ Down' /\ HistoryKept /\ next \in Nat
    BY <1>0, LogKept
<1>2. Snapshots'
    BY <1>0, <1>1, StaysFaithful DEF SInv, Snapshots
<1>3. Waiting' = Waiting /\ ListEnd' = ListEnd
    BY <1>0 DEF Waiting, ListEnd, threadVars
<1>4. Closed'
  <2>1. sending # NoJob => LogCopy(sending)'
      BY <1>0, LogKept DEF SInv, Closed, LogCopy, threadVars
  <2>2. tempLog' # wallog'
      BY <1>0 DEF SInv, Closed, threadVars, Inv, TypeOK, Inodes, NoInode
  <2> QED BY <1>0, <1>3, <2>1, <2>2 DEF SInv, Closed, threadVars
<1>5. CASE cs' = "dead"
  <2>1. mqueue' = mqueue
      BY <1>5 DEF RegisterSnapshot, RemoveLog, CompactorFails
  <2>2. Linked' /\ End' = End
      BY <1>0, <1>3, <2>1 DEF SInv, Linked, End
  <2>3. ListTypes' /\ Reaches' /\ Directory'
      BY <1>0, <1>5, <2>1 DEF SInv, ListTypes, Reaches, Directory, threadVars
  <2> QED BY <1>1, <1>2, <1>4, <2>2, <2>3 DEF SInv
<1>6. CASE RemoveLog /\ cs' # "dead"
  <2>1. mqueue' = mqueue /\ cs = "remove" /\ cs' = "recv"
      BY <1>6 DEF RemoveLog
  <2>2. Linked' /\ End' = End /\ Done' = Done
      BY <1>0, <1>3, <2>1 DEF SInv, Linked, End, Done
  <2>3. ListTypes' /\ Reaches' /\ Directory'
      BY <1>0, <2>1, <2>2 DEF SInv, ListTypes, Reaches, Directory, threadVars
  <2> QED BY <1>1, <1>2, <1>4, <2>2, <2>3 DEF SInv
<1>7. CASE RegisterSnapshot /\ cs' # "dead"
  <2> DEFINE r == [name |-> job.name, pages |-> job.pages]
  <2>1. /\ cs = "callback" /\ cs' = "remove" /\ mqueue' = Append(mqueue, r) /\ job' = job
      BY <1>7 DEF RegisterSnapshot
  <2>2. job.name \in Name /\ r \in Registration /\ mqueue \in Seq(Registration)
      BY <2>1 DEF SInv, ListTypes, Registration, Inv, TypeOK, JobOK
  <2>3. Done' = Done /\ job.name.s <= End /\ job.name.e + 1 = Done
      BY <1>0, <1>3, <2>1 DEF Done, SInv, Reaches
  <2>4. /\ mqueue' \in Seq(Registration) /\ Len(mqueue') = Len(mqueue) + 1
        /\ mqueue' # <<>> /\ mqueue'[Len(mqueue')] = r /\ Len(mqueue) \in Nat
        /\ \A i \in 1..Len(mqueue) : mqueue'[i] = mqueue[i]
      BY <2>1, <2>2
  <2>5. ListTypes'
      BY <1>0, <2>1, <2>4 DEF SInv, ListTypes
  <2>6. End' = Done'
      BY <2>3, <2>4 DEF End
  <2>7. Reaches' /\ Directory'
      BY <1>0, <2>1, <2>3, <2>6 DEF SInv, Reaches, Directory, threadVars
  <2>8. Linked'
    <3>1. CASE mqueue = <<>>
      <4>1. Len(mqueue') = 1 /\ mqueue'[1] = r
          BY <2>4, <3>1, EmptySeq
      <4> QED BY <1>0, <1>3, <2>3, <3>1, <4>1 DEF SInv, Linked, End
    <3>2. CASE mqueue # <<>>
      <4>1. Len(mqueue) >= 1 /\ End = mqueue[Len(mqueue)].name.e + 1
          BY <2>2, <3>2, EmptySeq DEF End
      <4>2. ASSUME NEW i \in 1..(Len(mqueue') - 1)
            PROVE  mqueue'[i + 1].name.s <= mqueue'[i].name.e + 1
        <5>1. CASE i = Len(mqueue)
            BY <2>3, <2>4, <4>1, <5>1
        <5>2. CASE i # Len(mqueue)
          <6>1. i \in 1..(Len(mqueue) - 1) /\ i \in 1..Len(mqueue) /\ i + 1 \in 1..Len(mqueue)
              BY <2>4, <5>2
          <6> QED BY <2>4, <6>1 DEF SInv, Linked
        <5> QED BY <5>1, <5>2
      <4>3. mqueue'[1].name.s <= ListEnd
          BY <2>4, <3>2, <4>1 DEF SInv, Linked
      <4> QED BY <1>0, <1>3, <4>2, <4>3 DEF SInv, Linked
    <3> QED BY <3>1, <3>2
  <2> QED BY <1>1, <1>2, <1>4, <2>5, <2>7, <2>8 DEF SInv
<1>8. CompactorFails => cs' = "dead"
    BY DEF CompactorFails
<1> QED BY <1>5, <1>6, <1>7, <1>8

-----------------------------------------------------------------------------
(* The merger thread. *)

\* Names of snapshots that lie one after the other.
Consecutive(Q) ==
    /\ IsFiniteSet(Q) /\ Q \subseteq Name /\ \A x \in Q : x.s <= x.e
    /\ \A x \in Q : x.s = 0 \/ \E y \in Q : y.e + 1 = x.s
    /\ \A x, y \in Q : x = y \/ x.e < y.s \/ y.e < x.s

\* Sorted by their first frame, such names leave no holes.
LEMMA SortedNoHoles ==
    ASSUME NEW Q, Consecutive(Q), NEW q \in SetToSeqs(Q),
           \A i, j \in DOMAIN q : i < j => q[i].s <= q[j].s
    PROVE  /\ q \in Seq(Name)
           /\ \A i \in 1..(Len(q) - 1) : q[i + 1].s <= q[i].e + 1 /\ q[i].e < q[i + 1].s
           /\ q # <<>> => q[1].s = 0
           /\ \A y \in Q : \E j \in 1..Len(q) : q[j] = y
<1> DEFINE k == Cardinality(Q)
<1>1. k \in Nat /\ q \in [1..k -> Q] /\ \A i, j \in 1..k : i # j => q[i] # q[j]
    BY FS_CardinalityType DEF Consecutive, SetToSeqs
<1>2. q \in Seq(Q) /\ Len(q) = k /\ DOMAIN q = 1..k
    BY <1>1
<1>3. ASSUME NEW y \in Q PROVE \E j \in 1..k : q[j] = y
  <2>1. q \in Injection(1..k, Q)
      BY <1>1, <1>2 DEF Injection, IsInjective
  <2>2. Cardinality(1..k) = k
    <3> HIDE DEF k
    <3>1. k \in Int /\ 1 \in Int
        BY <1>1
    <3>2. Cardinality(1..k) = IF 1 > k THEN 0 ELSE k - 1 + 1
        BY <3>1, FS_Interval, Zenon
    <3> QED BY <1>1, <3>2
  <2>3. q \in Surjection(1..k, Q)
    <3> HIDE DEF k
    <3>1. Cardinality(1..k) = Cardinality(Q)
        BY <2>2 DEF k
    <3> QED BY <2>1, <3>1, FS_Injection DEF Consecutive
  <2> QED BY <2>3 DEF Surjection
<1> HIDE DEF k
<1>4. ASSUME NEW i \in 1..k PROVE q[i] \in Q /\ q[i].s \in Nat /\ q[i].e \in Nat /\ q[i].s <= q[i].e
    BY <1>1 DEF Consecutive, Name
<1>5. ASSUME NEW i \in 1..k, NEW j \in 1..k, i < j
      PROVE  q[i].s <= q[j].s /\ q[i].e < q[j].s
  <2>1. q[i].s <= q[j].s
      BY <1>2, <1>5
  <2>2. q[i] # q[j]
      BY <1>1, <1>5
  <2>3. q[i].e < q[j].s \/ q[j].e < q[i].s
      BY <1>4, <2>2 DEF Consecutive
  <2> QED BY <1>4, <2>1, <2>3
<1>6. ASSUME NEW i \in 1..k, q[i].s # 0 PROVE i # 1 /\ q[i].s <= q[i - 1].e + 1
  <2>1. PICK y \in Q : y.e + 1 = q[i].s
      BY <1>4, <1>6 DEF Consecutive
  <2>2. PICK j \in 1..k : q[j] = y
      BY <1>3
  <2>3. j < i
      BY <1>4, <1>5, <2>1, <2>2
  <2>4. i - 1 \in 1..k /\ i # 1
      BY <1>1, <2>3
  <2>5. CASE j = i - 1
      BY <1>4, <2>1, <2>2, <2>4, <2>5
  <2>6. CASE j < i - 1
    <3>1. q[j].e < q[i - 1].s /\ q[i - 1].s <= q[i - 1].e
        BY <1>4, <1>5, <2>4, <2>6
    <3> QED BY <1>4, <2>1, <2>2, <2>4, <3>1
  <2> QED BY <2>3, <2>4, <2>5, <2>6
<1>7. ASSUME NEW i \in 1..(k - 1) PROVE q[i + 1].s <= q[i].e + 1 /\ q[i].e < q[i + 1].s
  <2>1. i + 1 \in 1..k /\ i \in 1..k /\ (i + 1) - 1 = i
      BY <1>1
  <2>4. q[i].e < q[i + 1].s
      BY <1>5, <2>1
  <2>2. CASE q[i + 1].s = 0
      BY <1>4, <2>1, <2>2, <2>4
  <2>3. CASE q[i + 1].s # 0
    <3>1. q[i + 1].s <= q[(i + 1) - 1].e + 1
        BY <1>6, <2>1, <2>3
    <3> QED BY <2>1, <2>4, <3>1
  <2> QED BY <2>2, <2>3
<1>8. q # <<>> => q[1].s = 0
  <2>1. q # <<>> => 1 \in 1..k
      BY <1>1, <1>2, EmptySeq
  <2> QED BY <1>6, <2>1
<1>9. q \in Seq(Name)
    BY <1>2 DEF Consecutive
<1> QED BY <1>2, <1>3, <1>7, <1>8, <1>9

\* The names that the merger finds in the directory.
Listed == {[s |-> x.s, e |-> x.e, n |-> Cardinality(x.frames)] : x \in snaps}

\* The directory that the merger lists has no holes.
LEMMA ListedConsecutive ==
    ASSUME Inv, SInv, up, ms = "init"
    PROVE  Consecutive(Listed)
<1> DEFINE nm(x) == [s |-> x.s, e |-> x.e, n |-> Cardinality(x.frames)]
           g == [x \in snaps |-> nm(x)]
<1>1. ASSUME NEW x \in snaps
      PROVE  /\ x.s \in Nat /\ x.e \in Nat /\ x.s <= x.e /\ nm(x).s = x.s /\ nm(x).e = x.e
             /\ nm(x) \in Name
  <2>1. x.s \in Nat /\ x.e \in Nat /\ x.s <= x.e /\ x.frames = Newest(Stretch(hist, x.s, x.e))
      BY DEF SInv, Snapshots, Faithful
  <2>2. x.frames \subseteq Stretch(hist, x.s, x.e) /\ x.s \in Int /\ x.e \in Int
      BY <2>1 DEF Newest
  <2>3. Cardinality(x.frames) \in Nat
      BY <2>2, FiniteStretch
  <2> QED BY <2>1, <2>3 DEF Name
<1>2. IsFiniteSet(Listed)
  <2>1. g \in Surjection(snaps, Listed)
      BY DEF Surjection, Listed
  <2>2. IsFiniteSet(snaps)
      BY DEF SInv, Snapshots
  <2> HIDE DEF g
  <2> QED BY <2>1, <2>2, FS_Surjection
<1>3. \A z : z \in Listed <=> \E x \in snaps : z = nm(x)
    BY DEF Listed
<1>4. /\ \A x \in snaps : x.s = 0 \/ \E y \in snaps : y.e + 1 = x.s
      /\ \A x, y \in snaps : x = y \/ x.e < y.s \/ y.e < x.s
    BY DEF SInv, Directory
<1> HIDE DEF nm
<1>5. Listed \subseteq Name /\ \A x \in Listed : x.s <= x.e
    BY <1>1, <1>3
<1>6. \A x \in Listed : x.s = 0 \/ \E y \in Listed : y.e + 1 = x.s
  <2> SUFFICES ASSUME NEW z \in Listed, z.s # 0 PROVE \E y \in Listed : y.e + 1 = z.s
      OBVIOUS
  <2>1. PICK x \in snaps : z = nm(x)
      BY <1>3
  <2>2. PICK y \in snaps : y.e + 1 = x.s
      BY <1>1, <1>4, <2>1
  <2> QED BY <1>1, <1>3, <2>1, <2>2
<1>7. \A x, y \in Listed : x = y \/ x.e < y.s \/ y.e < x.s
    BY <1>1, <1>3, <1>4
<1> QED BY <1>2, <1>5, <1>6, <1>7 DEF Consecutive

\* The threads of the merger leave the log and the compactor alone.
LEMMA MergerStep ==
    ASSUME Inv, SInv, up, UNCHANGED threadVars,
           UNCHANGED <<tempLog, lock, sending, cs, job>>, ms' # "init",
           ListTypes', Linked', End' = End \/ (cs # "compact" /\ cs # "recv" /\ cs # "remove" /\ End <= End'),
           End \in Nat, End' \in Nat, Snapshots'
    PROVE  SInv'
<1> USE DEF threadVars
<1>1. Numbers' /\ Undisturbed' /\ Down'
    BY LogKept
<1>2. Waiting' = Waiting /\ Done' = Done
    BY DEF Waiting, Done
<1>3. Closed'
    BY <1>2 DEF SInv, Closed, LogCopy
<1>4. Reaches'
  <2>1. cs = "callback" => job.name.s \in Nat
      BY DEF SInv, ListTypes, Name
  <2> QED BY <1>2, <2>1 DEF SInv, Reaches
<1>5. Directory'
    BY DEF Directory
<1> QED BY <1>1, <1>3, <1>4, <1>5 DEF SInv

\* The ends of a sequence are elements of it.
LEMMA LastInSeq ==
    ASSUME NEW S, NEW q \in Seq(S), q # <<>>
    PROVE  q[Len(q)] \in S /\ q[1] \in S
<1>1. Len(q) \in 1..Len(q) /\ 1 \in 1..Len(q)
    BY EmptySeq
<1> QED BY <1>1, ElementOfSeq

\* The ends of the lists are numbers.
LEMMA EndsAreNumbers ==
    ASSUME mlist \in Seq(Name), mqueue \in Seq(Registration)
    PROVE  ListEnd \in Nat /\ End \in Nat
<1>1. mlist # <<>> => mlist[Len(mlist)] \in Name
    BY LastInSeq
<1>2. mqueue # <<>> => mqueue[Len(mqueue)] \in Registration
    BY LastInSeq
<1>3. ListEnd \in Nat
  <2>1. \A z \in Name : z.e \in Nat
      BY DEF Name
  <2> QED BY <1>1, <2>1 DEF ListEnd
<1>4. \A z \in Registration : z.name.e \in Nat
    BY DEF Registration, Name
<1> QED BY <1>2, <1>3, <1>4 DEF End

\* The merger lists the directory.
LEMMA MergerInitSInv ==
    ASSUME Inv, SInv, MergerInit
    PROVE  SInv'
<1> USE DEF MergerInit, readVars, diskVars, fileVars, compVars, boundVars
<1>0. /\ UNCHANGED threadVars /\ UNCHANGED <<tempLog, lock, sending, cs, job, snaps, mqueue>>
      /\ up /\ ms = "init" /\ ms' = "recv"
    BY DEF threadVars
<1>1. Consecutive(Listed)
    BY <1>0, ListedConsecutive
<1>2. mlist' \in SetToSeqs(Listed) /\ \A i, j \in DOMAIN mlist' : i < j => mlist'[i].s <= mlist'[j].s
    BY DEF SnapshotLists, Listed
<1>3. /\ mlist' \in Seq(Name)
      /\ \A i \in 1..(Len(mlist') - 1) : mlist'[i + 1].s <= mlist'[i].e + 1
      /\ mlist' # <<>> => mlist'[1].s = 0
    BY <1>1, <1>2, SortedNoHoles
<1>4. /\ mlist = <<>> /\ ListEnd = 0 /\ mlist \in Seq(Name) /\ mqueue \in Seq(Registration)
    BY <1>0 DEF SInv, Directory, ListEnd, ListTypes
<1>5. ListEnd' \in Nat /\ End \in Nat /\ End' \in Nat
  <2>1. ListEnd \in Nat /\ End \in Nat
      BY <1>4, EndsAreNumbers
  <2>2. ListEnd' \in Nat
    <3>1. mlist' # <<>> => mlist'[Len(mlist')] \in Name
        BY <1>3, LastInSeq
    <3>2. \A z \in Name : z.e \in Nat
        BY DEF Name
    <3> QED BY <3>1, <3>2 DEF ListEnd
  <2>3. End' \in Nat
      BY <1>0, <2>1, <2>2 DEF End
  <2> QED BY <2>1, <2>2, <2>3
<1>6. ListTypes'
    BY <1>0, <1>3 DEF SInv, ListTypes
<1>7. Linked'
  <2>1. mqueue # <<>> => mqueue[1].name.s <= ListEnd'
    <3>1. mqueue # <<>> => mqueue[1] \in Registration
        BY <1>4, LastInSeq
    <3>2. mqueue # <<>> => mqueue[1].name.s \in Nat
        BY <3>1 DEF Registration, Name
    <3> QED BY <1>4, <1>5, <3>2 DEF SInv, Linked
  <2> QED BY <1>0, <1>3, <2>1 DEF SInv, Linked
<1>8. Snapshots'
    BY <1>0, LogKept, StaysFaithful DEF SInv, Snapshots
<1>9. End' = End \/ (cs # "compact" /\ cs # "recv" /\ cs # "remove" /\ End <= End')
  <2>1. CASE mqueue # <<>>
      BY <1>0, <2>1 DEF End
  <2>2. CASE mqueue = <<>>
    <3>1. End = 0 /\ End' = ListEnd'
        BY <1>0, <1>4, <2>2 DEF End
    <3>2. CASE cs \in {"recv", "compact", "remove"}
      <4>1. Done = 0
          BY <1>0, <3>1, <3>2 DEF SInv, Reaches
      <4>2. snaps = {}
          BY <1>0, <3>2, <4>1 DEF SInv, Directory, Snapshots, Faithful
      <4>3. Listed = {}
          BY <4>2 DEF Listed
      <4>4. mlist' = <<>>
        <5>1. Cardinality({}) = 0
            BY FS_EmptySet
        <5>2. mlist' \in [1..0 -> {}]
            BY <1>2, <4>3, <5>1 DEF SetToSeqs
        <5>3. DOMAIN mlist' = 1..0
            BY <5>2
        <5>4. Len(mlist') = 0
            BY <1>3, <5>3
        <5> QED BY <1>3, <5>4, EmptySeq
      <4> QED BY <3>1, <4>4 DEF ListEnd
    <3>3. CASE cs \notin {"recv", "compact", "remove"}
        BY <1>5, <3>1, <3>3
    <3> QED BY <3>2, <3>3
  <2> QED BY <2>1, <2>2
<1> QED BY <1>0, <1>5, <1>6, <1>7, <1>8, <1>9, MergerStep

\* The merger takes the name of a snapshot from its channel.
LEMMA MergerReceiveSInv ==
    ASSUME Inv, SInv, MergerReceive
    PROVE  SInv'
<1> USE DEF MergerReceive, readVars, diskVars, fileVars, compVars, boundVars
<1> DEFINE x == Head(mqueue).name
<1>0. /\ UNCHANGED threadVars /\ UNCHANGED <<tempLog, lock, sending, cs, job, snaps>>
      /\ up /\ ms' # "init" /\ mqueue # <<>>
      /\ mqueue' = Tail(mqueue) /\ mlist' = Append(mlist, x)
    BY DEF threadVars
<1>1. /\ mlist \in Seq(Name) /\ mqueue \in Seq(Registration)
    BY DEF SInv, ListTypes
<1>2. /\ Len(mqueue) \in Nat /\ Len(mqueue) >= 1 /\ mqueue[1].name = x /\ x \in Name
      /\ mqueue' \in Seq(Registration) /\ Len(mqueue') = Len(mqueue) - 1
      /\ \A i \in 1..(Len(mqueue) - 1) : mqueue'[i] = mqueue[i + 1]
  <2>1. Len(mqueue) \in Nat /\ Len(mqueue) >= 1 /\ Head(mqueue) = mqueue[1]
      BY <1>0, <1>1, EmptySeq
  <2>2. x \in Name
    <3>1. mqueue[1] \in Registration
        BY <1>0, <1>1, LastInSeq
    <3> QED BY <2>1, <3>1 DEF Registration
  <2> QED BY <1>0, <1>1, <2>1, <2>2
<1>3. /\ mlist' \in Seq(Name) /\ Len(mlist) \in Nat /\ Len(mlist') = Len(mlist) + 1
      /\ mlist' # <<>> /\ mlist'[Len(mlist')] = x
      /\ \A i \in 1..Len(mlist) : mlist'[i] = mlist[i]
    BY <1>0, <1>1, <1>2
<1>4. ListEnd \in Nat /\ End \in Nat
    BY <1>1, EndsAreNumbers
<1> HIDE DEF x
<1>5. ListEnd' = x.e + 1 /\ x.s <= ListEnd /\ x.s \in Nat /\ x.e \in Nat
    BY <1>0, <1>2, <1>3 DEF ListEnd, SInv, Linked, Name
<1>6. End' = End
  <2>1. CASE Len(mqueue) = 1
    <3>1. mqueue' = <<>> /\ End = x.e + 1
        BY <1>0, <1>2, <2>1, EmptySeq DEF End
    <3> QED BY <1>5, <3>1 DEF End
  <2>2. CASE Len(mqueue) # 1
    <3>1. Len(mqueue') >= 1 /\ mqueue'[Len(mqueue')] = mqueue[Len(mqueue)]
        BY <1>2, <2>2
    <3>2. mqueue' # <<>>
        BY <3>1, EmptySeq
    <3> QED BY <1>0, <3>1, <3>2 DEF End
  <2> QED BY <2>1, <2>2
<1>7. ListTypes'
    BY <1>0, <1>2, <1>3 DEF SInv, ListTypes
<1>8. Linked'
  <2>1. ASSUME NEW i \in 1..(Len(mlist') - 1) PROVE mlist'[i + 1].s <= mlist'[i].e + 1
    <3>1. CASE i = Len(mlist)
      <4>1. mlist # <<>> /\ ListEnd = mlist[i].e + 1
          BY <1>3, <3>1, EmptySeq DEF ListEnd
      <4> QED BY <1>3, <1>5, <3>1, <4>1
    <3>2. CASE i # Len(mlist)
      <4>1. i \in 1..(Len(mlist) - 1) /\ i \in 1..Len(mlist) /\ i + 1 \in 1..Len(mlist)
          BY <1>3, <3>2
      <4> QED BY <1>3, <4>1 DEF SInv, Linked
    <3> QED BY <3>1, <3>2
  <2>2. mlist'[1].s = 0
    <3>1. CASE mlist = <<>>
      <4>1. Len(mlist') = 1 /\ ListEnd = 0
          BY <1>3, <3>1, EmptySeq DEF ListEnd
      <4> QED BY <1>3, <1>5, <4>1
    <3>2. CASE mlist # <<>>
      <4>1. 1 \in 1..Len(mlist)
          BY <1>1, <3>2, EmptySeq
      <4> QED BY <1>3, <3>2, <4>1 DEF SInv, Linked
    <3> QED BY <3>1, <3>2
  <2>3. ASSUME NEW i \in 1..(Len(mqueue') - 1)
        PROVE  mqueue'[i + 1].name.s <= mqueue'[i].name.e + 1
    <3>1. /\ i \in 1..(Len(mqueue) - 1) /\ i + 1 \in 1..(Len(mqueue) - 1)
        BY <1>2
    <3>2. mqueue'[i] = mqueue[i + 1] /\ mqueue'[i + 1] = mqueue[(i + 1) + 1]
        BY <1>2, <3>1
    <3>3. mqueue[(i + 1) + 1].name.s <= mqueue[i + 1].name.e + 1
        BY <3>1 DEF SInv, Linked
    <3> QED BY <3>2, <3>3
  <2>4. ASSUME mqueue' # <<>> PROVE mqueue'[1].name.s <= ListEnd'
    <3>1. 1 \in 1..(Len(mqueue) - 1)
        BY <1>2, <2>4, EmptySeq
    <3>2. mqueue[1 + 1].name.s <= mqueue[1].name.e + 1 /\ mqueue'[1] = mqueue[1 + 1]
        BY <1>2, <3>1 DEF SInv, Linked
    <3> QED BY <1>2, <1>5, <3>2
  <2> QED BY <1>3, <2>1, <2>2, <2>3, <2>4 DEF Linked
<1>9. Snapshots'
    BY <1>0, LogKept, StaysFaithful DEF SInv, Snapshots
<1> QED BY <1>0, <1>4, <1>6, <1>7, <1>8, <1>9, MergerStep

\* The merger finds all the files it has listed, with their frames in order.
Merging(frames, F, b) ==
    /\ mlist # <<>> /\ b = mlist[Len(mlist)].e
    /\ frames = [i \in DOMAIN mlist |-> UNION {y.frames : y \in Files(mlist[i])}]
    /\ \A i \in DOMAIN mlist : Files(mlist[i]) # {}
    /\ Descending(frames)
    /\ F = UNION {frames[i] : i \in DOMAIN frames}

\* Then it compacts the history up to the end of the last one.
LEMMA MergesAll ==
    ASSUME Inv, SInv, NEW frames, NEW F, NEW b, Merging(frames, F, b)
    PROVE  /\ mlist[1].s = 0 /\ b \in Nat /\ b < next
           /\ Newest(F) = Newest(Stretch(hist, 0, b))
           /\ \A i, j \in 1..Len(mlist) : i < j => mlist[i].e < mlist[j].e
<1> DEFINE k == Len(mlist)
           s == [i \in 1..k |-> mlist[i].s]
           e == [i \in 1..k |-> mlist[i].e]
<1>1. /\ k \in Nat \ {0} /\ DOMAIN mlist = 1..k /\ DOMAIN frames = 1..k /\ b = e[k]
      /\ \A i \in 1..k : mlist[i] \in Name
  <2>1. mlist \in Seq(Name)
      BY DEF SInv, ListTypes
  <2>2. k \in Nat \ {0}
      BY <2>1, EmptySeq DEF Merging
  <2>3. \A i \in 1..k : mlist[i] \in Name
      BY <2>1, ElementOfSeq
  <2>4. DOMAIN mlist = 1..k
      BY <2>1
  <2>5. DOMAIN frames = 1..k /\ b = e[k]
      BY <2>2, <2>4 DEF Merging
  <2> QED BY <2>2, <2>3, <2>4, <2>5
<1>2. NumberedUpTo(hist, next) /\ next \in Nat
    BY DEF SInv, Numbers, Inv, TypeOK
<1>3. ASSUME NEW i \in 1..k
      PROVE  /\ s[i] \in Nat /\ e[i] \in Nat /\ s[i] <= e[i] /\ e[i] < next
             /\ frames[i] = Newest(Stretch(hist, s[i], e[i]))
  <2>1. s[i] = mlist[i].s /\ e[i] = mlist[i].e
      OBVIOUS
  <2>2. PICK y : y \in Files(mlist[i])
      BY <1>1 DEF Merging
  <2>3. \A z \in Files(mlist[i]) : /\ z.s = s[i] /\ z.e = e[i] /\ Faithful(z)
      BY <2>1 DEF Files, SInv, Snapshots
  <2>4. \A z \in Files(mlist[i]) : z.frames = Newest(Stretch(hist, s[i], e[i]))
      BY <2>3 DEF Faithful
  <2>5. s[i] \in Nat /\ e[i] \in Nat /\ s[i] <= e[i] /\ e[i] < next
      BY <2>2, <2>3 DEF Faithful
  <2>6. frames[i] = UNION {z.frames : z \in Files(mlist[i])}
      BY <1>1 DEF Merging
  <2>7. UNION {z.frames : z \in Files(mlist[i])} = Newest(Stretch(hist, s[i], e[i]))
    <3> DEFINE W == Newest(Stretch(hist, s[i], e[i]))
    <3> HIDE DEF W, s, e
    <3>1. \A z \in Files(mlist[i]) : z.frames = W
        BY <2>4 DEF W
    <3>2. \A v : v \in UNION {z.frames : z \in Files(mlist[i])} <=> v \in W
        BY <2>2, <3>1
    <3> QED BY <3>2 DEF W
  <2> QED BY <2>5, <2>6, <2>7
<1>r. \A i \in 1..k : s[i] \in Nat /\ e[i] \in Nat /\ s[i] <= e[i] /\ e[i] < next
    BY <1>3
<1>f. \A i \in 1..k : frames[i] = Newest(Stretch(hist, s[i], e[i]))
    BY <1>3
<1>4. s[1] = 0 /\ mlist[1].s = 0 /\ \A i \in 1..(k - 1) : s[i + 1] <= e[i] + 1
    BY <1>1 DEF SInv, Linked
<1> HIDE DEF s, e, k
<1>o. ASSUME NEW i \in 1..k, NEW j \in 1..k, i < j PROVE e[i] < e[j]
  <2>1. \A m \in 1..k : hist[e[m]] \in frames[m] /\ hist[e[m]].no = e[m]
    <3> SUFFICES ASSUME NEW m \in 1..k
                 PROVE  hist[e[m]] \in frames[m] /\ hist[e[m]].no = e[m]
        OBVIOUS
    <3>1. e[m] \in 0..(next - 1) /\ s[m] \in 0..e[m]
        BY <1>2, <1>r
    <3>2. hist[e[m]] \in Newest(Stretch(hist, s[m], e[m])) /\ hist[e[m]].no = e[m]
        BY <1>2, <3>1, LastIsNewest
    <3> QED BY <1>f, <3>2
  <2>2. hist[e[i]].no < hist[e[j]].no
      BY <1>1, <1>o, <2>1 DEF Descending, Merging
  <2>3. hist[e[i]].no = e[i] /\ hist[e[j]].no = e[j]
      BY <2>1
  <2> QED BY <2>2, <2>3
<1>5. ASSUME NEW i \in 1..k PROVE e[i] <= e[k]
  <2>1. k \in 1..k /\ e[i] \in Nat /\ e[k] \in Nat
      BY <1>1, <1>r
  <2>2. i < k => e[i] < e[k]
      BY <1>o, <2>1
  <2> QED BY <1>1, <2>1, <2>2
<1>6. b \in Nat /\ b \in 0..(next - 1) /\ b < next
    BY <1>1, <1>2, <1>r
<1>7. Tiles(1..k, s, e, 0, b)
  <2>1. ASSUME NEW f \in 0..b PROVE \E i \in 1..k : f \in s[i]..e[i]
    <3>1. \A i \in 1..k : s[i] \in Nat /\ e[i] \in Nat
        BY <1>r
    <3>2. f \in 0..e[k]
        BY <1>1
    <3> QED BY <1>1, <1>4, <3>1, <3>2, NoHoles
  <2>2. \A i \in 1..k : s[i] \in Nat /\ e[i] \in Nat /\ 0 <= s[i] /\ e[i] <= b
      BY <1>1, <1>r, <1>5
  <2> QED BY <2>1, <2>2 DEF Tiles
<1>8. Newest(Compactions(hist, 1..k, s, e)) = Newest(Stretch(hist, 0, b))
  <2>1. 0 \in Nat
      OBVIOUS
  <2>2. b \in 0..(next - 1) /\ next \in Nat /\ NumberedUpTo(hist, next)
      BY <1>2, <1>6
  <2> QED BY <1>7, <2>1, <2>2, NewestOfNewest
<1>9. F = Compactions(hist, 1..k, s, e)
  <2>1. \A x : x \in F <=> \E i \in 1..k : x \in frames[i]
      BY <1>1 DEF Merging
  <2>2. \A x : x \in F <=> \E i \in 1..k : x \in Newest(Stretch(hist, s[i], e[i]))
      BY <1>f, <2>1, Zenon
  <2> QED BY <2>2 DEF Compactions
<1>10. ASSUME NEW i \in 1..k, NEW j \in 1..k, i < j PROVE mlist[i].e < mlist[j].e
    BY <1>10, <1>o DEF e
<1> QED BY <1>4, <1>6, <1>8, <1>9, <1>10 DEF k

\* The merger writes the merged snapshot.
LEMMA MergeSInv ==
    ASSUME Inv, SInv, MergeSnapshots
    PROVE  SInv'
<1> USE DEF readVars, fileVars, compVars, boundVars
<1> DEFINE frames == [i \in DOMAIN mlist |-> UNION {y.frames : y \in Files(mlist[i])}]
           F == UNION {frames[i] : i \in DOMAIN frames}
           s == mlist[1].s
           e == mlist[Len(mlist)].e
           n == Cardinality(Newest(F))
           ok == (\A i \in DOMAIN mlist : Files(mlist[i]) # {}) /\ Descending(frames)
<1>0. /\ UNCHANGED threadVars /\ UNCHANGED <<tempLog, lock, sending, cs, job, mqueue>>
      /\ up /\ ms = "merge" /\ ms' \in {"unlink", "dead"}
    BY DEF MergeSnapshots, threadVars
<1>1. mlist # <<>> /\ mlist \in Seq(Name) /\ mqueue \in Seq(Registration)
    BY <1>0 DEF SInv, Linked, ListTypes
<1>2. ListEnd \in Nat /\ End \in Nat
    BY <1>1, EndsAreNumbers
<1>3. CASE ~ok
  <2>1. ms' = "dead" /\ UNCHANGED <<snaps, mlist>>
      BY <1>3 DEF MergeSnapshots
  <2>2. Snapshots'
      BY <1>0, <2>1, LogKept, StaysFaithful DEF SInv, Snapshots
  <2>3. ListTypes' /\ Linked' /\ End' = End
      BY <1>0, <2>1 DEF SInv, ListTypes, Linked, End, ListEnd
  <2> QED BY <1>0, <1>2, <2>1, <2>2, <2>3, MergerStep
<1>4. CASE ok
  <2>1. PersistSnapshot(s, e, F) /\ mlist' = <<[s |-> s, e |-> e, n |-> n]>> /\ ms' = "unlink"
      BY <1>4 DEF MergeSnapshots
  <2>2. s = 0 /\ e \in Nat /\ e < next /\ Newest(F) = Newest(Stretch(hist, 0, e))
    <3> DEFINE fr == frames
               G == F
               b == e
    <3>1. Merging(fr, G, b)
        BY <1>1, <1>4 DEF Merging
    <3>2. mlist[1].s = 0 /\ b \in Nat /\ b < next /\ Newest(G) = Newest(Stretch(hist, 0, b))
      <4> HIDE DEF fr, G, b
      <4> QED BY <3>1, MergesAll
    <3> QED BY <3>2
  <2>3. Snapshots'
    <3>1. next \in Nat /\ UNCHANGED <<hist, next>> /\ Snapshots
        BY <1>0 DEF threadVars, Inv, TypeOK, SInv
    <3> HIDE DEF F, s, e
    <3> QED BY <2>1, <2>2, <3>1, PersistFaithful
  <2>4. n \in Nat
    <3>1. Newest(F) \subseteq Stretch(hist, 0, e) /\ 0 \in Int /\ e \in Int
      <4> HIDE DEF F, e
      <4> QED BY <2>2 DEF Newest
    <3> HIDE DEF F, e
    <3> QED BY <3>1, FiniteStretch
  <2> HIDE DEF n, F, ok
  <2>5. /\ mlist' \in Seq(Name) /\ Len(mlist') = 1 /\ mlist'[1].s = 0 /\ mlist'[1].e = e
        /\ mlist' # <<>>
    <3> HIDE DEF s, e
    <3>1. [s |-> s, e |-> e, n |-> n] \in Name
        BY <2>2, <2>4 DEF Name
    <3> DEFINE r == [s |-> s, e |-> e, n |-> n]
    <3>2. r.s = 0 /\ r.e = e
        BY <2>2
    <3> HIDE DEF r
    <3>3. r \in Name /\ mlist' = <<r>>
        BY <2>1, <3>1 DEF r
    <3> QED BY <3>2, <3>3
  <2>6. ListEnd' = ListEnd
      BY <1>1, <2>5 DEF ListEnd
  <2>7. End' = End
      BY <1>0, <2>6 DEF End
  <2>8. ListTypes'
      BY <1>0, <2>5 DEF SInv, ListTypes
  <2>9. Linked'
      BY <1>0, <2>1, <2>5, <2>6 DEF SInv, Linked
  <2> QED BY <1>0, <1>2, <2>3, <2>7, <2>8, <2>9, MergerStep
<1> QED BY <1>3, <1>4

\* The merger removes a file that it has merged.
LEMMA UnlinkSInv ==
    ASSUME Inv, SInv, UnlinkMerged
    PROVE  SInv'
<1> USE DEF UnlinkMerged, readVars, fileVars, compVars, boundVars
<1>0. /\ UNCHANGED threadVars /\ UNCHANGED <<tempLog, lock, sending, cs, job, mqueue, mlist>>
      /\ up /\ ms' # "init" /\ ms' # "merge" /\ snaps' \subseteq snaps
    BY DEF threadVars
<1>1. End \in Nat
    BY EndsAreNumbers DEF SInv, ListTypes
<1>2. Snapshots'
    BY <1>0, LogKept, StaysFaithful, FS_Subset DEF SInv, Snapshots
<1>3. ListTypes' /\ Linked' /\ End' = End
    BY <1>0 DEF SInv, ListTypes, Linked, End, ListEnd
<1> QED BY <1>0, <1>1, <1>2, <1>3, MergerStep

-----------------------------------------------------------------------------
(* The life of the process. *)

\* The end of a process leaves the disk as it is.
LEMMA DieSInv ==
    ASSUME Inv, SInv, Die, UNCHANGED <<sentinel, shutdowns>>
    PROVE  SInv'
<1> USE DEF Die, readVars
<1>1. next \in Nat /\ count \in Nat /\ HistoryKept
    BY Constants DEF Inv, TypeOK, HistoryKept
<1>2. Numbers'
  <2>1. \A k \in count..(count + 0 - 1) : FALSE
      BY <1>1
  <2> QED BY <2>1 DEF SInv, Numbers, NumberedUpTo
<1>3. Snapshots'
    BY <1>1, StaysFaithful DEF SInv, Snapshots
<1>4. Closed' /\ Down' /\ Undisturbed' /\ Reaches' /\ Directory'
    BY DEF SInv, Closed, Down, Undisturbed, Reaches, Directory
<1>5. ListTypes' /\ Linked'
    BY EmptySeq DEF ListTypes, Linked
<1> QED BY <1>2, <1>3, <1>4, <1>5 DEF SInv

\* A send to a compactor that is gone.
LEMMA SendFailsSInv ==
    ASSUME Inv, SInv, SendFails
    PROVE  SInv'
<1> USE DEF SendFails, boundVars
<1>1. CASE lock = "writer"
    BY <1>1, DieSInv
<1>2. CASE lock # "writer"
  <2> USE DEF readVars, diskVars, fileVars, compVars, mergeVars
  <2>1. /\ up /\ cs = "dead" /\ sending' = NoJob /\ UNCHANGED threadVars
        /\ UNCHANGED <<tempLog, snaps, cs, job, ms, mqueue, mlist>>
      BY <1>2 DEF threadVars
  <2>2. Numbers' /\ Undisturbed' /\ Down'
      BY <2>1, LogKept
  <2>3. Snapshots'
      BY <2>1, LogKept, StaysFaithful DEF SInv, Snapshots
  <2>4. Closed'
      BY <2>1 DEF SInv, Closed, threadVars
  <2>5. ListTypes' /\ Linked' /\ Reaches' /\ Directory'
      BY <2>1 DEF SInv, ListTypes, Linked, ListEnd, Reaches, Directory, threadVars
  <2> QED BY <2>2, <2>3, <2>4, <2>5 DEF SInv
<1> QED BY <1>1, <1>2

\* Recovery starts a new history, without snapshots.
LEMMA RecoverSInv ==
    ASSUME Inv, SInv, RecoverLog
    PROVE  SInv'
<1> USE DEF RecoverLog, init_sentinel_file, compVars, mergeVars, boundVars
<1> DEFINE size == Cardinality(DOMAIN db)
<1>1. size \in Nat
    BY DbSize DEF Inv
<1>2. /\ ~up /\ sending = NoJob /\ lock = "free" /\ cs = "recv" /\ ms = "init"
      /\ mlist = <<>> /\ mqueue = <<>> /\ unc = 0
    BY DEF SInv, Down
<1>3. /\ hist' = Dump(db) /\ next' = size /\ first' = 0 /\ snaps' = {} /\ unc' = 0
      /\ count' = size /\ up' /\ sentinel' /\ shutdowns' = shutdowns
      /\ UNCHANGED <<wallog, tempLog, sending, lock, cs, ms, mlist, mqueue>>
    BY <1>2
<1>4. Numbers'
  <2>1. \A k \in size..(size + 0 - 1) : FALSE
      BY <1>1
  <2>2. \A f \in 0..(size - 1) : Dump(db)[f].no = f
      BY <1>1 DEF Dump, Frame
  <2> QED BY <1>3, <2>1, <2>2 DEF Numbers, NumberedUpTo
<1>5. Snapshots'
    BY <1>3, FS_EmptySet DEF Snapshots
<1>6. Closed' /\ Down' /\ Undisturbed'
    BY <1>2, <1>3 DEF SInv, Closed, Down, Undisturbed
<1>7. ListTypes' /\ Linked'
    BY <1>2, <1>3, EmptySeq DEF ListTypes, Linked
<1>8. End' = 0 /\ Done' = 0
    BY <1>2, <1>3 DEF End, ListEnd, Done, Waiting
<1>9. Reaches' /\ Directory'
    BY <1>2, <1>3, <1>8 DEF Reaches, Directory
<1> QED BY <1>4, <1>5, <1>6, <1>7, <1>9 DEF SInv

\* Every step keeps the invariant.
LEMMA NextSInv == Setting /\ next <= U64Max /\ Inv /\ SInv /\ [Next]_vars => SInv'
<1> SUFFICES ASSUME Setting, next <= U64Max, Inv, SInv, [Next]_vars PROVE SInv'
    OBVIOUS
<1>1. CASE Writer
    BY <1>1, FlushSInv, WriterSInv, CommitSInv, CompactionSInv DEF Writer
<1>2. CASE PeriodicCompact \/ SendFails
    BY <1>2, CompactionSInv, SendFailsSInv
<1>3. CASE Compactor
    BY <1>3, ReceiveSInv, CompactedSInv, CompactorSInv DEF Compactor
<1>4. CASE Merger
    BY <1>4, MergerInitSInv, MergerReceiveSInv, MergeSInv, UnlinkSInv DEF Merger
<1>5. CASE Kill
    BY <1>5, DieSInv DEF Kill
<1>6. CASE RecoverLog
    BY <1>6, RecoverSInv
<1>7. CASE BeginShutdown \/ EndShutdown \/ Start
  <2>1. sentinel /\ ~(shutdowns < MaxShutdowns)
      BY DEF SInv, Undisturbed, Setting
  <2> QED BY <1>7, <2>1 DEF BeginShutdown, EndShutdown, Start
<1>8. CASE Idle \/ UNCHANGED vars
  <2>1. /\ UNCHANGED listVars /\ UNCHANGED <<hist, next, file, count, unc, ino, wallog>>
        /\ UNCHANGED <<tempLog, lock>>
      BY <1>8 DEF Idle, vars, readVars, primVars, diskVars, fileVars, compVars, mergeVars,
                  boundVars, listVars
  <2>2. next \in Nat /\ HistoryKept
      BY <2>1 DEF Inv, TypeOK, HistoryKept
  <2>3. Numbers' /\ Down'
      BY <2>1 DEF SInv, Numbers, NumberedUpTo, Down, listVars
  <2>4. Snapshots'
      BY <2>1, <2>2, StaysFaithful DEF SInv, Snapshots, listVars
  <2>5. Closed'
      BY <2>1 DEF SInv, Closed, LogCopy, Waiting, NoJob, listVars
  <2> QED BY <2>1, <2>3, <2>4, <2>5, ListsKept DEF SInv
<1> QED BY <1>1, <1>2, <1>3, <1>4, <1>5, <1>6, <1>7, <1>8 DEF Next, Process

\* The invariant holds as long as frame numbers fit.
THEOREM SInvHolds == Setting /\ Spec /\ [](next <= U64Max) => []SInv
<1> SUFFICES ASSUME Setting PROVE Spec /\ [](next <= U64Max) => []SInv
    OBVIOUS
<1>1. next <= U64Max /\ Inv /\ SInv /\ [Next]_vars => SInv'
    BY NextSInv
<1> QED BY <1>1, InitSInv, InvHolds, PTL DEF Spec

\* A snapshot file holds, for the range of frames in its name, the newest frame of
\* every page: for every database size, log size, compaction and merge policy, and
\* whatever fails or is killed between two steps of the compactor and the merger.
THEOREM SnapshotsAreFaithful ==
    Setting /\ Spec /\ [](next <= U64Max) => []SnapshotsFaithful
<1>1. SInv => SnapshotsFaithful
    BY DEF SInv, Snapshots, Faithful, SnapshotsFaithful, Stretch
<1> QED BY <1>1, SInvHolds, PTL
=============================================================================
