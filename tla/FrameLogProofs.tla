---------------------------- MODULE FrameLogProofs ----------------------------
(***************************************************************************)
(* A primary keeps its promise to the readers of its log: no frame that    *)
(* has left the live log is lost (NoGap), and every step of a connection,  *)
(* a thread or the process is a step of FrameLog on what readers see       *)
(* (ImplementsFrameLog).                                                   *)
(*                                                                         *)
(* A merge removes its inputs by name, so its result must not have the     *)
(* name of one of them: it has more than one input (LongEnough), no input  *)
(* is in the list twice unless the merge is going to fail (Listing), and   *)
(* until the last input is removed the result is there (Unlinking). For    *)
(* the first of these a snapshot may not hold more pages than the database *)
(* had (Sizes), which databases that shrink do not keep to.                *)
(*                                                                         *)
(* A commit is one step of FrameLog because the frames behind the          *)
(* committed ones are those of one transaction, numbered and with          *)
(* consecutive versions (Transaction, Versions), and a recovery is one     *)
(* because the database is what the log describes, or has just that        *)
(* transaction more (Recoverable).                                         *)
(***************************************************************************)
EXTENDS PrimaryProofs

\* What the theorems are about: no compaction by age and no clean shutdowns, as for the
\* snapshots; databases that do not shrink; and a merge policy that leaves one snapshot
\* of a database alone (the code's constants are 2 and 32).
Policy == Setting /\ ~Shrinks /\ Amplification >= 2 /\ MaxSnapshots >= 1

-----------------------------------------------------------------------------
(* The invariant: pages and versions. *)

\* The size of the database that the uncommitted frames leave.
NewSize == file[ino][count + unc - 1].size

\* Frames hold pages of the database they belong to.
Sizes ==
    /\ SizeAt(hist, next) \in 0..MaxPage
    /\ \A f \in 0..(next - 1) : hist[f].page \in 1..SizeAt(hist, next)
    /\ wr \in {"flushed", "orig"} =>
          /\ NewSize \in Pages /\ SizeAt(hist, next) <= NewSize
          /\ \A k \in count..(count + unc - 1) : file[ino][k].page \in 1..NewSize

\* The uncommitted frames are those of one transaction: numbered, with consecutive
\* versions, the size on the last one only.
Transaction ==
    /\ unc <= MaxTxnLen
    /\ wr \in {"txn", "flushed", "orig"} =>
          \A k \in count..(count + unc - 1) :
              /\ file[ino][k].page \in Pages
              /\ file[ino][k] = Frame(first + k, file[ino][k].page,
                                      IF k = count + unc - 1 /\ wr # "txn" THEN NewSize ELSE 0,
                                      pushed - unc + (k - count) + 1)

\* v is the newest version in database d.
IsNewest(v, d) ==
    /\ v \in Nat /\ \A q \in DOMAIN d : d[q] \in 0..v
    /\ v = 0 \/ \E q \in DOMAIN d : d[q] = v

\* The newest version is the log's, or that of the transaction that only SQLite has
\* committed.
Versions ==
    /\ ver \in Nat /\ ver + unc <= pushed /\ pushed <= MaxVer
    /\ up /\ wr # "orig" => IsNewest(ver, db)
    /\ wr = "orig" => IsNewest(pushed, db)

\* The notifier is behind between a commit and its announcement only.
Announced == up => IF wr = "committed" THEN top < next ELSE top = next

\* t can follow the first n frames of h, with versions from d + 1 on; v is the newest so
\* far.
CanFollow(h, n, v, t, d) ==
    /\ t \in Promise!Txns /\ d \in v..(v + MaxVer)
    /\ Promise!Possible(t, SizeAt(h, n)) /\ d + Promise!TxnLen(t) <= MaxVer

\* The database has one transaction more than the first n frames of h, and its newest
\* version is at most w.
OneMore(h, n, v, w, base) ==
    \E t, d : /\ CanFollow(h, n, v, t, d) /\ d + Promise!TxnLen(t) <= w
              /\ base = DbAt(Promise!Extend(h, n, t, d), n + Promise!TxnLen(t))
              /\ IsNewest(d + Promise!TxnLen(t), base)

\* After a kill the database is what the log describes, or has one transaction more.
Recoverable ==
    ~up => \/ Describes(hist, next, db) /\ IsNewest(ver, db)
           \/ top = next /\ OneMore(hist, next, ver, pushed, db)

-----------------------------------------------------------------------------
(* The invariant: snapshots. *)

\* The log was swapped out with the size of the database its last frame left.
Fits(j) ==
    j.pages \in Nat /\ \A f \in j.start..(j.start + j.count - 1) : hist[f].page \in 1..j.pages

\* A snapshot of a log holds no more frames than the database has pages.
Small(name, pages) == name.n <= pages /\ pages > 0

\* Nothing on its way to the merger is larger than the database was.
Registered ==
    /\ sending # NoJob => Fits(sending)
    /\ cs = "compact" => Fits(job)
    /\ cs = "callback" => Small(job.name, job.pages)
    /\ \A i \in 1..Len(mqueue) : Small(mqueue[i].name, mqueue[i].pages)

SameName(x, y) == x.s = y.s /\ x.e = y.e

\* What the compactor registers follows on what it registered before.
Sequel ==
    /\ \A i \in 1..(Len(mqueue) - 1) : mqueue[i + 1].name.s = mqueue[i].name.e + 1
    /\ cs = "callback" /\ mqueue # <<>> => job.name.s = mqueue[Len(mqueue)].name.e + 1

\* The next name that the merger will receive, if there is one.
Upcoming(x) == IF mqueue # <<>> THEN x = mqueue[1].name ELSE cs = "callback" /\ x = job.name

\* Until the merger has listed the directory, all it will receive is there, from the
\* first frame on.
Unlisted ==
    up /\ ms = "init" =>
        /\ \A i \in 1..Len(mqueue) : \E x \in snaps : SameName(x, mqueue[i].name)
        /\ cs = "callback" => \E x \in snaps : SameName(x, job.name)
        /\ \A x : Upcoming(x) => x.s = 0

\* A name is in the list twice: merging it will fail.
Doomed == \E i, j \in 1..Len(mlist) : i < j /\ SameName(mlist[i], mlist[j])

\* The names in the list follow each other.
Tiling == \A i \in 1..(Len(mlist) - 1) : mlist[i + 1].s = mlist[i].e + 1

\* The list has the next name already, because the directory had it.
Twice == ms = "recv" /\ \A x : Upcoming(x) => \E i \in 1..Len(mlist) : SameName(mlist[i], x)

\* The next name follows on the list.
Continues == \A x : Upcoming(x) => x.s = ListEnd

\* The list of the merger.
Listing == up /\ ms \in {"recv", "merge", "unlink"} => Doomed \/ (Tiling /\ (Twice \/ Continues))

\* One snapshot is not merged.
LongEnough == ms = "merge" => Len(mlist) >= 2

\* The inputs of a merge go when its result is there.
Unlinking ==
    /\ mleft \in Seq(Name)
    /\ up /\ ms = "unlink" =>
          /\ mleft # <<>>
          /\ \E r \in snaps :
                /\ r.s = 0
                /\ \A i \in 1..Len(mleft) : mleft[i].e <= r.e /\ ~SameName(mleft[i], r)

\* Every frame that the compactor has seen is in a snapshot.
NothingLost ==
    up /\ cs # "dead" => \A f \in 0..(Done - 1) : \E x \in snaps : x.s <= f /\ f <= x.e

\* The inductive invariants, next to Inv, DInv and SInv: of the pages and versions, and
\* of the snapshots.
VInv == Sizes /\ Transaction /\ Versions /\ Announced /\ Recoverable
GInv == /\ Registered /\ Sequel /\ Unlisted /\ Listing /\ LongEnough
        /\ Unlinking /\ NothingLost

-----------------------------------------------------------------------------
(* The promise in the terms of this module. *)

\* The operators of FrameLog are those of Frames.
LEMMA PromiseFrames ==
    /\ \A S : Promise!Cardinality(S) = Cardinality(S)
    /\ \A h, n : Promise!SizeAt(h, n) = SizeAt(h, n)
    /\ \A h, n : Promise!DbAt(h, n) = DbAt(h, n)
    /\ \A d : Promise!Dump(d) = Dump(d)
    /\ Promise!Pages = Pages
<1>1. ASSUME NEW S PROVE Promise!Cardinality(S) = Cardinality(S) /\ Promise!Max(S) = Max(S)
    BY DEF Promise!Cardinality, Cardinality, Promise!Max, Max
<1>2. ASSUME NEW h, NEW n PROVE Promise!SizeAt(h, n) = SizeAt(h, n)
    BY DEF Promise!SizeAt, SizeAt
<1>3. ASSUME NEW h, NEW n PROVE Promise!DbAt(h, n) = DbAt(h, n)
    BY <1>1, <1>2 DEF Promise!DbAt, DbAt
<1>4. ASSUME NEW d PROVE Promise!Dump(d) = Dump(d)
    BY <1>1 DEF Promise!Dump, Dump, Promise!Frame, Frame
<1>5. Promise!Pages = Pages
    BY DEF Promise!Pages, Pages
<1> QED BY <1>1, <1>2, <1>3, <1>4, <1>5

\* The size of an interval.
LEMMA CountTo == ASSUME NEW n \in Nat PROVE Cardinality(1..n) = n
<1>1. 1 \in Int /\ n \in Int
    OBVIOUS
<1>2. Cardinality(1..n) = IF 1 > n THEN 0 ELSE n - 1 + 1
    BY <1>1, FS_Interval, Zenon
<1> QED BY <1>2

\* The types of the constants of this module.
LEMMA MoreConstants == MaxTxnLen \in Nat \ {0} /\ MaxVer \in Nat /\ Shrinks \in BOOLEAN
    BY PrimaryAssumption

\* The numbers of the live log and of the history.
LEMMA Counts ==
    ASSUME Inv, DInv
    PROVE  /\ first \in Nat /\ count \in Nat /\ unc \in Nat /\ next \in Nat /\ pushed \in Nat
           /\ next = first + count
    BY TypeOKNumbers, Constants DEF Inv, DInv, Values, OnDisk

-----------------------------------------------------------------------------
(* Pages and versions. *)

\* Initially the log and the database are empty.
LEMMA InitVInv == Init => VInv
<1> SUFFICES ASSUME Init PROVE VInv
    OBVIOUS
<1> USE Constants, MoreConstants DEF Init
<1>1. Sizes
    BY DEF Sizes, SizeAt
<1>2. Transaction
    BY DEF Transaction
<1>3. Versions
    BY DEF Versions, IsNewest
<1>4. Announced /\ Recoverable
    BY DEF Announced, Recoverable
<1> QED BY <1>1, <1>2, <1>3, <1>4 DEF VInv

\* A step that leaves no transaction pending and the history and the database alone.
LEMMA CalmVInv ==
    ASSUME VInv, up, up', wr # "orig", wr' \notin {"txn", "flushed", "orig"},
           unc \in Nat, unc' \in 0..unc, pushed \in Nat, pushed' \in Nat, pushed' <= MaxVer,
           ver + unc' <= pushed', unc' <= MaxTxnLen,
           UNCHANGED <<hist, next, ver, db, top>>, wr' = "committed" <=> wr = "committed"
    PROVE  VInv'
<1>1. Sizes'
    BY DEF VInv, Sizes, SizeAt
<1>2. Transaction'
    BY DEF Transaction
<1>3. Versions'
    BY DEF VInv, Versions, IsNewest
<1>4. Announced' /\ Recoverable'
    BY DEF VInv, Announced, Recoverable
<1> QED BY <1>1, <1>2, <1>3, <1>4 DEF VInv

\* A step that leaves the writer, the log and the database alone.
LEMMA SameVInv ==
    ASSUME VInv, up,
           UNCHANGED <<up, wr, unc, hist, next, ver, db, top, pushed, file, ino, count, first>>
    PROVE  VInv'
<1>1. Sizes'
    BY DEF VInv, Sizes, SizeAt, NewSize
<1>2. Transaction'
    BY DEF VInv, Transaction, NewSize
<1>3. Versions'
    BY DEF VInv, Versions, IsNewest
<1>4. Announced' /\ Recoverable'
    BY DEF VInv, Announced, Recoverable
<1> QED BY <1>1, <1>2, <1>3, <1>4 DEF VInv

\* The frames that a call pushes.
LEMMA PushedExactly ==
    ASSUME Inv, NEW pages \in Seq(Pages), NEW size \in 0..MaxPage, push_pages(pages, size),
           pushed \in Nat
    PROVE  /\ unc' = unc + Len(pages) /\ pushed' = pushed + Len(pages) /\ pushed' <= MaxVer
           /\ \A k \in count..(count + unc - 1) : file'[ino][k] = file[ino][k]
           /\ \A k \in (count + unc)..(count + unc + Len(pages) - 1) :
                 file'[ino][k] =
                     Frame(first + k, pages[k - (count + unc) + 1],
                           IF k = count + unc + Len(pages) - 1 THEN size ELSE 0,
                           pushed + (k - (count + unc)) + 1)
<1> DEFINE n == Len(pages)
           at == count + unc
<1>1. /\ n \in Nat /\ count \in Nat /\ unc \in Nat /\ at \in Nat
      /\ at + n <= Slots /\ Slots \in Nat /\ first \in Nat /\ ino \in Inodes
  <2>1. at + n <= Slots
      BY DEF push_pages
  <2>2. ino \in Inodes
      BY DEF Inv, TypeOK
  <2> QED BY <2>1, <2>2, TypeOKNumbers, Constants DEF Inv
<1>2. file'[ino] = [k \in 0..(Slots - 1) |->
          IF k \in at..(at + n - 1)
          THEN Frame(first + k, pages[k - at + 1],
                     IF k = at + n - 1 THEN size ELSE 0, pushed + (k - at) + 1)
          ELSE file[ino][k]]
    BY <1>1 DEF push_pages, Inv, TypeOK, FilesOK
<1>3. ASSUME NEW k \in count..(count + unc - 1) PROVE file'[ino][k] = file[ino][k]
  <2>1. k \in 0..(Slots - 1) /\ k \notin at..(at + n - 1)
      BY <1>1
  <2> QED BY <1>2, <2>1
<1>4. ASSUME NEW k \in at..(at + n - 1)
      PROVE  file'[ino][k] = Frame(first + k, pages[k - at + 1],
                                   IF k = at + n - 1 THEN size ELSE 0, pushed + (k - at) + 1)
  <2>1. k \in 0..(Slots - 1)
      BY <1>1
  <2> QED BY <1>2, <2>1
<1>5. unc' = unc + n /\ pushed' = pushed + n /\ pushed' <= MaxVer
    BY DEF push_pages
<1> QED BY <1>3, <1>4, <1>5

\* Frames that are pushed belong to the transaction.
LEMMA PushTransaction ==
    ASSUME Inv, DInv, VInv, wr \in {"idle", "txn"}, wr' \in {"txn", "flushed"},
           NEW pages \in Seq(Pages), pages # <<>>, NEW size \in 0..MaxPage, push_pages(pages, size),
           wr' = "txn" => size = 0, unc + Len(pages) <= MaxTxnLen,
           UNCHANGED <<count, ino, first>>
    PROVE  /\ Transaction' /\ NewSize' = size
           /\ unc' \in Nat /\ pushed' \in Nat /\ pushed' <= MaxVer /\ ver + unc' <= pushed'
<1>1. /\ first \in Nat /\ count \in Nat /\ unc \in Nat /\ pushed \in Nat /\ ver \in Nat
      /\ ver + unc <= pushed /\ Len(pages) \in Nat \ {0} /\ MaxTxnLen \in Nat
    BY Counts, MoreConstants, EmptySeq DEF VInv, Versions
<1>2. /\ unc' = unc + Len(pages) /\ pushed' = pushed + Len(pages) /\ pushed' <= MaxVer
      /\ \A k \in count..(count + unc - 1) : file'[ino][k] = file[ino][k]
      /\ \A k \in (count + unc)..(count + unc + Len(pages) - 1) :
            file'[ino][k] =
                Frame(first + k, pages[k - (count + unc) + 1],
                      IF k = count + unc + Len(pages) - 1 THEN size ELSE 0,
                      pushed + (k - (count + unc)) + 1)
    BY <1>1, PushedExactly
<1>3. NewSize' = size
  <2> DEFINE k == count + unc + Len(pages) - 1
  <2>1. k \in (count + unc)..(count + unc + Len(pages) - 1) /\ k = count + unc' - 1
      BY <1>1, <1>2
  <2>2. NewSize' = file'[ino][k].size
      BY <2>1 DEF NewSize
  <2> HIDE DEF k
  <2>3. k = count + unc + Len(pages) - 1
      BY DEF k
  <2>4. file'[ino][k] =
            Frame(first + k, pages[k - (count + unc) + 1], size,
                  pushed + (k - (count + unc)) + 1)
      BY <1>2, <2>1, <2>3
  <2>5. file'[ino][k].size = size
      BY <2>4 DEF Frame
  <2> QED BY <2>2, <2>5
<1>4. ASSUME NEW k \in count..(count + unc' - 1)
      PROVE  /\ file'[ino][k].page \in Pages
             /\ file'[ino][k] = Frame(first + k, file'[ino][k].page,
                                      IF k = count + unc' - 1 /\ wr' # "txn" THEN size ELSE 0,
                                      pushed' - unc' + (k - count) + 1)
  <2>1. pushed' - unc' = pushed - unc /\ k \in Int
      BY <1>1, <1>2
  <2>2. CASE k < count + unc
    <3>1. k \in count..(count + unc - 1) /\ k # count + unc' - 1
        BY <1>1, <1>2, <2>2
    <3>2. wr = "txn"
        BY <1>1, <3>1 DEF DInv, Phases
    <3>3. /\ file[ino][k].page \in Pages
          /\ file[ino][k] = Frame(first + k, file[ino][k].page, 0, pushed - unc + (k - count) + 1)
        BY <3>1, <3>2 DEF VInv, Transaction
    <3> QED BY <1>2, <2>1, <3>1, <3>3
  <2>3. CASE k >= count + unc
    <3>1. k \in (count + unc)..(count + unc + Len(pages) - 1)
        BY <1>1, <1>2, <2>3
    <3>2. pushed + (k - (count + unc)) + 1 = pushed' - unc' + (k - count) + 1
        BY <1>1, <2>1
    <3>3. k - (count + unc) + 1 \in 1..Len(pages)
        BY <1>1, <3>1
    <3>4. pages[k - (count + unc) + 1] \in Pages
        BY <3>3
    <3>5. file'[ino][k] =
              Frame(first + k, pages[k - (count + unc) + 1],
                    IF k = count + unc + Len(pages) - 1 THEN size ELSE 0,
                    pushed + (k - (count + unc)) + 1)
        BY <1>2, <3>1
    <3>6. file'[ino][k].page = pages[k - (count + unc) + 1]
        BY <3>5 DEF Frame
    <3>7. (IF k = count + unc + Len(pages) - 1 THEN size ELSE 0)
              = (IF k = count + unc' - 1 /\ wr' # "txn" THEN size ELSE 0)
        BY <1>1, <1>2
    <3> QED BY <3>2, <3>4, <3>5, <3>6, <3>7
  <2> QED BY <1>1, <2>2, <2>3
<1>5. unc' <= MaxTxnLen
    BY <1>2
<1>6. Transaction'
    BY <1>3, <1>4, <1>5 DEF Transaction
<1> QED BY <1>1, <1>2, <1>3, <1>6

\* The pages of the database that the log describes.
LEMMA InSyncSize ==
    ASSUME VInv, Describes(hist, next, db)
    PROVE  /\ SizeAt(hist, next) \in Nat
           /\ DOMAIN db = 1..SizeAt(hist, next) /\ Cardinality(DOMAIN db) = SizeAt(hist, next)
<1>1. SizeAt(hist, next) \in Nat
    BY Constants DEF VInv, Sizes
<1>2. db = [p \in 1..SizeAt(hist, next) |-> db[p]]
    BY DEF Describes
<1>3. DOMAIN db = 1..SizeAt(hist, next)
    BY <1>2
<1> QED BY <1>1, <1>3, CountTo

\* Pages are written to the log, or it cannot be written.
LEMMA FlushVInv ==
    ASSUME Policy, Inv, DInv, VInv, OnFramesSpill \/ OnFramesFlush \/ OnFramesFlushFails
    PROVE  VInv'
<1> USE DEF readVars, compVars, mergeVars
<1>0. /\ pushed \in Nat /\ unc \in Nat /\ count \in Nat /\ ver \in Nat /\ ver + unc <= pushed
      /\ MaxTxnLen \in Nat
    BY Counts, MoreConstants DEF VInv, Versions
<1>1. CASE OnFramesSpill
  <2>1. PICK p \in Pages : push_pages(<<p>>, 0)
      BY <1>1 DEF OnFramesSpill
  <2>2. /\ <<p>> \in Seq(Pages) /\ 0 \in 0..MaxPage /\ Len(<<p>>) = 1 /\ <<p>> # <<>>
        /\ unc + Len(<<p>>) <= MaxTxnLen
      BY <1>0, <1>1, Constants DEF OnFramesSpill
  <2>3. /\ wr' = "txn" /\ UNCHANGED <<hist, next, ver, top, db, ino, count, first, up>>
        /\ up /\ wr \in {"idle", "txn"}
      BY <1>1 DEF OnFramesSpill
  <2>4. Transaction' /\ unc' \in Nat /\ pushed' \in Nat /\ pushed' <= MaxVer /\ ver + unc' <= pushed'
      BY <2>1, <2>2, <2>3, PushTransaction
  <2>5. Sizes'
      BY <2>3 DEF VInv, Sizes, SizeAt
  <2>6. Versions'
      BY <2>3, <2>4 DEF VInv, Versions, IsNewest
  <2>7. Announced' /\ Recoverable'
      BY <2>3 DEF VInv, Announced, Recoverable
  <2> QED BY <2>4, <2>5, <2>6, <2>7 DEF VInv
<1>2. CASE OnFramesFlush
  <2>1. PICK pages \in PageLists, size \in Pages :
            /\ Range(pages) \subseteq 1..size
            /\ unc + Len(pages) <= MaxTxnLen
            /\ Shrinks \/ (size >= Cardinality(DOMAIN db) /\ \A p \in DOMAIN txn : p <= size)
            /\ push_pages(pages, size)
      BY <1>2 DEF OnFramesFlush
  <2>2. /\ pages \in Seq(Pages) /\ size \in 0..MaxPage /\ size \in Pages
        /\ Len(pages) \in Nat \ {0} /\ pages # <<>>
    <3>1. pages \in Seq(Pages) /\ size \in 0..MaxPage
        BY PageListsAreSeqs, Constants DEF Pages
    <3>2. Len(pages) > 0
        BY Constants, PageListsAreSeqs DEF PageLists
    <3> QED BY <3>1, <3>2
  <2>3. /\ wr' = "flushed" /\ UNCHANGED <<hist, next, ver, top, db, ino, count, first, up>>
        /\ up /\ wr \in {"idle", "txn"}
      BY <1>2 DEF OnFramesFlush
  <2>4. /\ Transaction' /\ NewSize' = size
        /\ unc' \in Nat /\ pushed' \in Nat /\ pushed' <= MaxVer /\ ver + unc' <= pushed'
      BY <2>1, <2>2, <2>3, PushTransaction
  <2>5. /\ unc' = unc + Len(pages)
        /\ \A k \in count..(count + unc - 1) : file'[ino][k] = file[ino][k]
        /\ \A k \in (count + unc)..(count + unc + Len(pages) - 1) :
              file'[ino][k] =
                  Frame(first + k, pages[k - (count + unc) + 1],
                        IF k = count + unc + Len(pages) - 1 THEN size ELSE 0,
                        pushed + (k - (count + unc)) + 1)
      BY <1>0, <2>1, <2>2, PushedExactly
  <2>6. /\ ~Shrinks /\ size >= Cardinality(DOMAIN db)
        /\ \A p \in DOMAIN txn : p <= size
      BY <2>1 DEF Policy
  <2>7. SizeAt(hist, next) <= size
    <3>1. Describes(hist, next, db)
        BY <2>3 DEF DInv, InSync
    <3> QED BY <2>2, <2>6, <3>1, InSyncSize
  <2>8. ASSUME NEW k \in count..(count + unc' - 1) PROVE file'[ino][k].page \in 1..size
    <3>1. CASE k < count + unc
      <4>1. k \in count..(count + unc - 1) /\ k \in count..((count + unc) - 1)
          BY <1>0, <2>5, <3>1
      <4>2. wr = "txn"
          BY <1>0, <2>3, <4>1 DEF DInv, Phases
      <4>3. file[ino][k].page \in DOMAIN txn
          BY <4>1, <4>2 DEF DInv, Buffered, HoldsPages
      <4>4. file[ino][k].page \in Pages
          BY <4>1, <4>2 DEF VInv, Transaction
      <4> QED BY <2>2, <2>5, <2>6, <4>1, <4>3, <4>4, Constants DEF Pages
    <3>2. CASE k >= count + unc
      <4>1. k \in (count + unc)..(count + unc + Len(pages) - 1)
          BY <1>0, <2>2, <2>5, <3>2
      <4>2. k - (count + unc) + 1 \in 1..Len(pages)
          BY <1>0, <2>2, <4>1
      <4>3. file'[ino][k].page = pages[k - (count + unc) + 1]
        <5>1. \E s : file'[ino][k] = Frame(first + k, pages[k - (count + unc) + 1], s,
                                           pushed + (k - (count + unc)) + 1)
            BY <2>5, <4>1
        <5> QED BY <5>1 DEF Frame
      <4>4. pages[k - (count + unc) + 1] \in Range(pages)
          BY <2>2, <4>2 DEF Range
      <4> QED BY <2>1, <4>3, <4>4
    <3> QED BY <1>0, <2>4, <3>1, <3>2
  <2>9. Sizes'
    <3>1. SizeAt(hist', next') = SizeAt(hist, next)
        BY <2>3 DEF SizeAt
    <3> QED BY <2>2, <2>3, <2>4, <2>7, <2>8, <3>1 DEF VInv, Sizes
  <2>10. Versions'
      BY <2>3, <2>4 DEF VInv, Versions, IsNewest
  <2>11. Announced' /\ Recoverable'
      BY <2>3 DEF VInv, Announced, Recoverable
  <2> QED BY <2>4, <2>9, <2>10, <2>11 DEF VInv
<1>3. CASE OnFramesFlushFails
  <2>1. PICK pages \in PageLists, n \in 0..1 :
            /\ n < Len(pages) /\ unc + n <= MaxTxnLen /\ push_pages(SubSeq(pages, 1, n), 0)
      BY <1>3 DEF OnFramesFlushFails
  <2>2. SubSeq(pages, 1, n) \in Seq(Pages) /\ Len(SubSeq(pages, 1, n)) = n
      BY <2>1, Constants, PageListsAreSeqs
  <2>3. unc' = unc + n /\ pushed' = pushed + n /\ pushed' <= MaxVer
      BY <1>0, <2>1, <2>2 DEF push_pages
  <2>4. /\ wr' = "undo" /\ UNCHANGED <<hist, next, ver, top, db, up>>
        /\ up /\ wr \in {"idle", "txn"}
      BY <1>3 DEF OnFramesFlushFails
  <2>5. Sizes'
      BY <2>4 DEF VInv, Sizes, SizeAt
  <2>6. Transaction' /\ ver + unc' <= pushed'
      BY <1>0, <2>1, <2>3, <2>4 DEF Transaction
  <2>7. Versions'
      BY <2>3, <2>4, <2>6 DEF VInv, Versions, IsNewest
  <2>8. Announced' /\ Recoverable'
      BY <2>4 DEF VInv, Announced, Recoverable
  <2> QED BY <2>5, <2>6, <2>7, <2>8 DEF VInv
<1> QED BY <1>1, <1>2, <1>3

\* SQLite commits the transaction: its last version is the newest in the database.
LEMMA OrigVInv ==
    ASSUME Inv, DInv, VInv, OrigFrames
    PROVE  VInv'
<1> USE DEF OrigFrames, readVars, fileVars
<1> DEFINE last == count + unc - 1
           pg == file[ino][last].page
<1>1. /\ pushed \in Nat /\ unc \in Nat /\ count \in Nat /\ ver \in Nat /\ ver + unc <= pushed
      /\ unc > 0 /\ last \in count..(count + unc - 1)
    BY Counts DEF VInv, Versions, DInv, Phases
<1>2. HoldsPages(file[ino], count, count + unc, txn) /\ IsNewest(ver, db)
    BY DEF DInv, Buffered, VInv, Versions
<1>3. ASSUME NEW k \in count..(count + unc - 1)
      PROVE  /\ file[ino][k].data = pushed - unc + (k - count) + 1
             /\ file[ino][k].data \in 0..pushed /\ (k = last => file[ino][k].data = pushed)
  <2>1. \E s : file[ino][k] = Frame(first + k, file[ino][k].page, s, pushed - unc + (k - count) + 1)
      BY DEF VInv, Transaction
  <2>2. file[ino][k].data = pushed - unc + (k - count) + 1
      BY <2>1 DEF Frame
  <2> QED BY <1>1, <2>2
<1>4. NewSize \in Pages /\ pg \in 1..NewSize
    BY <1>1 DEF VInv, Sizes
<1>5. db' = [p \in 1..NewSize |-> IF p \in DOMAIN txn THEN txn[p] ELSE db[p]]
    BY DEF Apply, NewSize
<1>6. ASSUME NEW p \in 1..NewSize PROVE db'[p] \in 0..pushed
  <2>1. CASE p \in DOMAIN txn
    <3>1. PICK k \in count..((count + unc) - 1) : txn[p] = file[ino][k].data
        BY <1>2, <2>1 DEF HoldsPages
    <3>2. k \in count..(count + unc - 1)
        BY <1>1
    <3> QED BY <1>3, <1>5, <2>1, <3>1, <3>2
  <2>2. CASE p \notin DOMAIN txn
    <3>1. p \in DOMAIN db
        BY <2>2 DEF DInv, Covered, NewSize
    <3>2. db[p] \in 0..ver
        BY <1>2, <3>1 DEF IsNewest
    <3> QED BY <1>1, <1>5, <2>2, <3>2
  <2> QED BY <2>1, <2>2
<1>7. db'[pg] = pushed
  <2>1. pg \in DOMAIN txn
    <3>1. last \in count..((count + unc) - 1)
        BY <1>1
    <3> QED BY <1>2, <3>1 DEF HoldsPages
  <2>2. PICK k \in count..((count + unc) - 1) :
            LastIn(file[ino], count, count + unc, pg, k) /\ txn[pg] = file[ino][k].data
      BY <1>2, <2>1 DEF HoldsPages
  <2>3. k = last
    <3> SUFFICES ASSUME k # last PROVE FALSE
        OBVIOUS
    <3>1. last \in (k + 1)..((count + unc) - 1)
        BY <1>1, <2>2
    <3> HIDE DEF last
    <3> QED BY <2>2, <3>1 DEF LastIn, pg
  <2>4. txn[pg] = pushed
      BY <1>1, <1>3, <2>2, <2>3
  <2> QED BY <1>4, <1>5, <2>1, <2>4
<1>8. IsNewest(pushed, db')
  <2>1. DOMAIN db' = 1..NewSize
      BY <1>5
  <2> QED BY <1>1, <1>4, <1>6, <1>7, <2>1 DEF IsNewest
<1>9. Versions'
    BY <1>8 DEF VInv, Versions
<1>10. Sizes' /\ Transaction'
    BY DEF VInv, Sizes, Transaction, NewSize, SizeAt
<1>11. Announced' /\ Recoverable'
    BY DEF VInv, Announced, Recoverable
<1> QED BY <1>9, <1>10, <1>11 DEF VInv

\* The frames that SQLite has committed and the log is about to are a transaction that
\* can follow.
LEMMA PendingTxn ==
    ASSUME Inv, DInv, VInv, wr = "orig"
    PROVE  \E t : /\ CanFollow(hist, next, ver, t, pushed - unc) /\ Promise!TxnLen(t) = unc
                  /\ Written = Promise!Extend(hist, next, t, pushed - unc)
<1> DEFINE t == [pages |-> [i \in 1..unc |-> file[ino][count + i - 1].page], size |-> NewSize]
           d == pushed - unc
<1>1. /\ pushed \in Nat /\ unc \in Nat /\ count \in Nat /\ first \in Nat /\ next \in Nat
      /\ ver \in Nat /\ ver + unc <= pushed /\ unc > 0 /\ unc <= MaxTxnLen /\ MaxTxnLen \in Nat
      /\ pushed <= MaxVer /\ MaxVer \in Nat /\ next = first + count
    BY Counts, MoreConstants DEF VInv, Versions, Transaction, DInv, Phases
<1>2. /\ NewSize \in Pages /\ SizeAt(hist, next) \in 0..MaxPage /\ SizeAt(hist, next) <= NewSize
      /\ \A k \in count..(count + unc - 1) : file[ino][k].page \in 1..NewSize
      /\ \A f \in 0..(next - 1) : hist[f].page \in 1..SizeAt(hist, next)
    BY DEF VInv, Sizes
<1>3. ASSUME NEW i \in 1..unc PROVE file[ino][count + i - 1].page \in Pages \cap (1..NewSize)
  <2>1. count + i - 1 \in count..(count + unc - 1)
      BY <1>1
  <2>2. file[ino][count + i - 1].page \in 1..NewSize
      BY <1>2, <2>1
  <2> QED BY <1>2, <2>2, Constants DEF Pages
<1>4. t.pages \in [1..unc -> Pages] /\ t.size = NewSize /\ DOMAIN t.pages = 1..unc
    BY <1>3
<1>5. Promise!TxnLen(t) = unc
    BY <1>1, <1>4, CountTo, PromiseFrames DEF Promise!TxnLen
<1>6. t \in Promise!Txns
  <2>1. unc \in 1..MaxTxnLen
      BY <1>1
  <2>2. t.pages \in UNION {[1..n -> Pages] : n \in 1..MaxTxnLen}
      BY <1>4, <2>1
  <2> QED BY <1>2, <2>2, PromiseFrames DEF Promise!Txns
<1>7. d \in ver..(ver + MaxVer) /\ d + unc <= MaxVer /\ d \in Nat
    BY <1>1
<1>8. Promise!Possible(t, SizeAt(hist, next))
  <2>1. ASSUME NEW p \in (SizeAt(hist, next) + 1)..t.size
        PROVE  p \in Promise!Touched(t)
    <3>1. Describes(Written, next + unc, db)
        BY DEF DInv, Pending
    <3>2. /\ \A f \in 0..(next - 1) : Written[f] = hist[f]
          /\ \A k \in count..(count + unc - 1) : Written[first + k] = file[ino][k]
        BY WrittenFrames
    <3>3. SizeAt(Written, next + unc) = NewSize
      <4>1. Written[first + (count + unc - 1)] = file[ino][count + unc - 1]
          BY <1>1, <3>2
      <4>2. first + (count + unc - 1) = (next + unc) - 1 /\ next + unc # 0
          BY <1>1
      <4>3. SizeAt(Written, next + unc) = Written[(next + unc) - 1].size
          BY <4>2 DEF SizeAt
      <4> QED BY <4>1, <4>2, <4>3 DEF NewSize
    <3>4. p \in 1..NewSize
        BY <1>2, <1>4, Constants DEF Pages
    <3>5. PICK f \in 0..(next + unc - 1) : Written[f].page = p
      <4>1. \E f \in 0..((next + unc) - 1) : LastIn(Written, 0, next + unc, p, f)
          BY <3>1, <3>3, <3>4 DEF Describes
      <4> QED BY <1>1, <4>1 DEF LastIn
    <3>6. f >= next
      <4> SUFFICES ASSUME f < next PROVE FALSE
          BY <1>1
      <4>1. f \in 0..(next - 1)
          BY <1>1
      <4>2. p \in 1..SizeAt(hist, next)
          BY <1>2, <3>2, <3>5, <4>1
      <4> QED BY <1>2, <4>2
    <3>7. f - first \in count..(count + unc - 1) /\ first + (f - first) = f
        BY <1>1, <3>6
    <3>8. p = file[ino][f - first].page
        BY <3>2, <3>5, <3>7
    <3>9. f - first - count + 1 \in 1..unc /\ count + (f - first - count + 1) - 1 = f - first
        BY <1>1, <3>7
    <3>10. t.pages[f - first - count + 1] = p
        BY <3>8, <3>9
    <3> QED BY <1>4, <3>9, <3>10 DEF Promise!Touched
  <2>2. t.pages[Promise!TxnLen(t)] <= t.size
    <3>1. unc \in 1..unc
        BY <1>1
    <3>2. t.pages[unc] \in 1..NewSize
        BY <1>3, <3>1
    <3>3. t.pages[unc] <= NewSize
        BY <1>2, <3>2, Constants DEF Pages
    <3> HIDE DEF t
    <3> QED BY <1>4, <1>5, <3>3
  <2> HIDE DEF t
  <2> QED BY <2>1, <2>2 DEF Promise!Possible
<1>9. Written = Promise!Extend(hist, next, t, d)
  <2>1. ASSUME NEW f \in 0..(next + unc - 1), f >= next
        PROVE  file[ino][f - first] = Promise!Frame(f, t.pages[f - next + 1],
                                          IF f = next + unc - 1 THEN t.size ELSE 0,
                                          d + (f - next) + 1)
    <3>1. f - first \in count..(count + unc - 1)
        BY <1>1, <2>1
    <3>2. file[ino][f - first] =
              Frame(first + (f - first), file[ino][f - first].page,
                    IF f - first = count + unc - 1 THEN NewSize ELSE 0,
                    pushed - unc + ((f - first) - count) + 1)
        BY <3>1 DEF VInv, Transaction
    <3>3. /\ first + (f - first) = f /\ (f - first = count + unc - 1 <=> f = next + unc - 1)
          /\ pushed - unc + ((f - first) - count) + 1 = d + (f - next) + 1
          /\ f - next + 1 \in 1..unc /\ count + (f - next + 1) - 1 = f - first
        BY <1>1, <2>1, <3>1
    <3>4. t.pages[f - next + 1] = file[ino][f - first].page
        BY <3>3
    <3> HIDE DEF t, d
    <3> QED BY <1>4, <3>2, <3>3, <3>4 DEF Promise!Frame, Frame
  <2>2. Promise!Extend(hist, next, t, d) =
            [f \in 0..(next + unc - 1) |-> IF f < next THEN hist[f] ELSE file[ino][f - first]]
    <3> HIDE DEF t, d
    <3> QED BY <1>1, <1>5, <2>1 DEF Promise!Extend
  <2> QED BY <2>2 DEF Written
<1>10. CanFollow(hist, next, ver, t, d)
  <2> HIDE DEF t
  <2> QED BY <1>5, <1>6, <1>7, <1>8 DEF CanFollow
<1> HIDE DEF t
<1> QED BY <1>5, <1>9, <1>10

\* The log commits what SQLite has committed.
LEMMA CommitVInv ==
    ASSUME Inv, DInv, VInv, LogCommit
    PROVE  VInv'
<1> USE DEF LogCommit, commit
<1>1. /\ pushed \in Nat /\ unc \in Nat /\ count \in Nat /\ first \in Nat /\ next \in Nat
      /\ ver \in Nat /\ ver + unc <= pushed /\ unc > 0 /\ pushed <= MaxVer
      /\ next = first + count /\ MaxTxnLen \in Nat
      /\ count' = count + unc /\ next' = next + unc /\ unc' = 0
    BY Counts, MoreConstants DEF VInv, Versions, DInv, Phases
<1>2. /\ NewSize \in Pages /\ SizeAt(hist, next) \in 0..MaxPage /\ SizeAt(hist, next) <= NewSize
      /\ \A k \in count..(count + unc - 1) : file[ino][k].page \in 1..NewSize
      /\ \A f \in 0..(next - 1) : hist[f].page \in 1..SizeAt(hist, next)
    BY DEF VInv, Sizes
<1>3. ASSUME NEW f \in 0..(next' - 1)
      PROVE  hist'[f] = IF f < next THEN hist[f] ELSE file[ino][f - first]
  <2>1. f \in 0..(first + count' - 1)
      BY <1>1
  <2> QED BY <2>1
<1>4. count + unc - 1 \in count..(count + unc - 1)
    BY <1>1
<1>5. SizeAt(hist', next') = NewSize
  <2>1. /\ next' # 0 /\ next' - 1 \in 0..(next' - 1) /\ ~(next' - 1 < next)
        /\ (next' - 1) - first = count + unc - 1
      BY <1>1
  <2>2. hist'[next' - 1] = file[ino][count + unc - 1]
      BY <1>3, <2>1
  <2> QED BY <2>1, <2>2 DEF SizeAt, NewSize
<1>6. ASSUME NEW f \in 0..(next' - 1) PROVE hist'[f].page \in 1..NewSize
  <2>1. CASE f < next
    <3>1. f \in 0..(next - 1)
        BY <1>1, <2>1
    <3>2. hist[f].page \in 1..SizeAt(hist, next)
        BY <1>2, <3>1
    <3> QED BY <1>2, <1>3, <2>1, <3>2, Constants DEF Pages
  <2>2. CASE ~(f < next)
    <3>0. next' - 1 = first + count + unc - 1 /\ f \in Int /\ f <= next' - 1
        BY <1>1
    <3>1. f - first \in count..(count + unc - 1)
        BY <1>1, <2>2, <3>0
    <3> QED BY <1>2, <1>3, <2>2, <3>1
  <2> QED BY <2>1, <2>2
<1>7. Sizes'
  <2>1. NewSize \in 0..MaxPage
      BY <1>2, Constants DEF Pages
  <2> QED BY <1>5, <1>6, <2>1 DEF Sizes
<1>8. ver' = pushed
  <2>1. \E s : file[ino][count + unc - 1] =
            Frame(first + (count + unc - 1), file[ino][count + unc - 1].page, s,
                  pushed - unc + ((count + unc - 1) - count) + 1)
      BY <1>4 DEF VInv, Transaction
  <2>2. file[ino][count + unc - 1].data = pushed - unc + ((count + unc - 1) - count) + 1
      BY <2>1 DEF Frame
  <2>3. pushed - unc + ((count + unc - 1) - count) + 1 = pushed
      BY <1>1
  <2> QED BY <1>1, <2>2, <2>3
<1>9. Versions'
    BY <1>1, <1>8 DEF VInv, Versions, pageVars
<1>10. Transaction' /\ Recoverable'
    BY <1>1 DEF Transaction, Recoverable
<1>11. Announced'
    BY <1>1 DEF VInv, Announced
<1> QED BY <1>7, <1>9, <1>10, <1>11 DEF VInv

\* The other steps of the writer, and the periodic compaction.
LEMMA WriterVInv ==
    ASSUME Inv, DInv, VInv,
           \/ OrigFramesFails \/ Notify \/ OnUndo
           \/ WriterNoCompact \/ WriterCompact \/ PeriodicCompact
    PROVE  VInv'
<1> USE DEF readVars, diskVars, fileVars, pageVars
<1>0. /\ pushed \in Nat /\ unc \in Nat /\ ver \in Nat /\ ver + unc <= pushed /\ pushed <= MaxVer
      /\ unc <= MaxTxnLen /\ MaxTxnLen \in Nat /\ next = first + count
      /\ wr \in {"txn", "flushed", "orig"} => unc > 0
    BY Counts, MoreConstants DEF VInv, Versions, Transaction, DInv, Phases
<1>1. CASE OrigFramesFails
    BY <1>0, <1>1, CalmVInv DEF OrigFramesFails
<1>2. CASE Notify
  <2>1. /\ wr' = "notified" /\ wr = "committed" /\ top' = next /\ up
        /\ UNCHANGED <<hist, next, ver, db, up, unc, pushed>>
      BY <1>0, <1>2 DEF Notify
  <2>2. Sizes' /\ Transaction' /\ Versions'
      BY <1>0, <2>1 DEF VInv, Sizes, SizeAt, Transaction, Versions, IsNewest
  <2>3. Announced' /\ Recoverable'
      BY <2>1 DEF Announced, Recoverable
  <2> QED BY <2>2, <2>3 DEF VInv
<1>3. CASE OnUndo
    BY <1>0, <1>3, CalmVInv DEF OnUndo, rollback
<1>4. CASE WriterNoCompact
    BY <1>0, <1>4, CalmVInv DEF WriterNoCompact
<1>5. CASE WriterCompact
    BY <1>0, <1>5, CalmVInv DEF WriterCompact
<1>6. CASE PeriodicCompact
  <2>1. unc = 0
      BY <1>6 DEF PeriodicCompact, should_compact
  <2>2. wr \notin {"txn", "flushed", "orig"}
      BY <1>0, <2>1
  <2> QED BY <1>0, <1>6, <2>2, CalmVInv DEF PeriodicCompact
<1> QED BY <1>1, <1>2, <1>3, <1>4, <1>5, <1>6

\* The steps of the threads.
LEMMA ThreadVInv ==
    ASSUME Inv, DInv, VInv, Compactor \/ Merger
    PROVE  VInv'
<1> USE DEF readVars, diskVars, fileVars, pageVars
<1>0. /\ pushed \in Nat /\ unc \in Nat /\ ver \in Nat /\ ver + unc <= pushed /\ pushed <= MaxVer
      /\ unc <= MaxTxnLen /\ MaxTxnLen \in Nat
    BY Counts, MoreConstants DEF VInv, Versions, Transaction
<1>1. CASE Receive
  <2>1. CASE lock = "writer"
    <3>1. wr = "sending" /\ wr' = "idle"
        BY <1>1, <2>1 DEF Receive, DInv, Phases
    <3> QED BY <1>0, <1>1, <3>1, CalmVInv DEF Receive
  <2>2. CASE lock # "writer"
      BY <1>1, <2>2, SameVInv DEF Receive
  <2> QED BY <2>1, <2>2
<1>2. CASE PerformCompaction \/ RegisterSnapshot \/ RemoveLog \/ CompactorFails
    BY <1>2, SameVInv DEF PerformCompaction, RegisterSnapshot, RemoveLog, CompactorFails
<1>3. CASE Merger
    BY <1>3, SameVInv DEF Merger, MergerInit, MergerReceive, MergeSnapshots, UnlinkMerged
<1> QED BY <1>1, <1>2, <1>3 DEF Compactor

\* The process ends.
LEMMA DieVInv ==
    ASSUME Inv, DInv, VInv, up, Die
    PROVE  VInv'
<1>0. /\ pushed \in Nat /\ unc \in Nat /\ ver \in Nat /\ ver + unc <= pushed /\ pushed <= MaxVer
      /\ next \in Nat /\ MaxTxnLen \in Nat
    BY Counts, MoreConstants DEF VInv, Versions
<1>1. /\ ~up' /\ wr' = "idle" /\ unc' = 0
      /\ UNCHANGED <<hist, next, ver, db, top, pushed>>
    BY DEF Die, readVars
<1>2. Sizes' /\ Transaction' /\ Announced'
    BY <1>0, <1>1 DEF VInv, Sizes, SizeAt, Transaction, Announced
<1>3. Versions'
    BY <1>0, <1>1 DEF VInv, Versions
<1>4. Recoverable'
  <2>1. CASE wr # "orig"
    <3>1. Describes(hist, next, db) /\ IsNewest(ver, db)
        BY <2>1 DEF DInv, InSync, VInv, Versions
    <3> QED BY <1>1, <3>1 DEF Recoverable, Describes, LastIn, SizeAt, IsNewest
  <2>2. CASE wr = "orig"
    <3>1. PICK t : /\ CanFollow(hist, next, ver, t, pushed - unc) /\ Promise!TxnLen(t) = unc
                   /\ Written = Promise!Extend(hist, next, t, pushed - unc)
        BY <2>2, PendingTxn
    <3>2. db = DbAt(Written, next + unc)
        BY <1>0, <2>2, DescribesDbAt DEF DInv, Pending
    <3>3. IsNewest(pushed, db) /\ (pushed - unc) + unc = pushed
        BY <1>0, <2>2 DEF VInv, Versions
    <3>4. top = next
        BY <2>2 DEF VInv, Announced
    <3>5. OneMore(hist, next, ver, pushed, db)
        BY <1>0, <3>1, <3>2, <3>3 DEF OneMore
    <3>6. OneMore(hist, next, ver, pushed, db)'
        BY <1>1, <3>5
    <3> QED BY <1>1, <3>4, <3>6 DEF Recoverable
  <2> QED BY <2>1, <2>2
<1> QED BY <1>2, <1>3, <1>4 DEF VInv

\* The newest version is the maximum of all versions.
LEMMA NewestIsMax ==
    ASSUME NEW d, NEW v, IsNewest(v, d)
    PROVE  Max({0} \cup {d[q] : q \in DOMAIN d}) = v
<1> DEFINE S == {0} \cup {d[q] : q \in DOMAIN d}
<1>1. v \in S /\ v \in Nat /\ \A y \in S : y \in Nat /\ y <= v
    BY DEF IsNewest
<1>2. \A x \in S : (\A y \in S : x >= y) => x = v
    BY <1>1
<1>3. v \in S /\ \A y \in S : v >= y
    BY <1>1
<1> HIDE DEF S
<1>4. Max(S) = v
    BY <1>2, <1>3 DEF Max
<1> QED BY <1>4 DEF S

\* What a recovery writes.
LEMMA RecoveredLog ==
    ASSUME Inv, DInv, RecoverLog
    PROVE  \E n \in 0..MaxPage :
              /\ DOMAIN db = 1..n /\ next' = n /\ top' = n /\ hist' = Dump(db)
              /\ DOMAIN hist' = 0..(n - 1) /\ SizeAt(hist', n) = n
              /\ \A f \in 0..(n - 1) : hist'[f].page = f + 1
              /\ ver' = Max({0} \cup {db[q] : q \in DOMAIN db})
<1> USE DEF RecoverLog
<1>1. PICK n \in 0..MaxPage : DOMAIN db = 1..n
    BY DEF Inv, TypeOK
<1>2. n \in Nat /\ Cardinality(DOMAIN db) = n
    BY <1>1, CountTo, Constants
<1>3. next' = n /\ top' = n /\ hist' = Dump(db)
    BY <1>2
<1>4. Dump(db) = [f \in 0..(n - 1) |->
                     Frame(f, f + 1, IF f = n - 1 THEN n ELSE 0, db[f + 1])]
    BY <1>2 DEF Dump
<1>5. DOMAIN hist' = 0..(n - 1) /\ \A f \in 0..(n - 1) : hist'[f].page = f + 1
    BY <1>3, <1>4 DEF Frame
<1>6. SizeAt(hist', n) = n
  <2>1. CASE n = 0
      BY <2>1 DEF SizeAt
  <2>2. CASE n # 0
    <3>1. n - 1 \in 0..(n - 1)
        BY <1>2, <2>2
    <3> QED BY <1>3, <1>4, <2>2, <3>1 DEF SizeAt, Frame
  <2> QED BY <2>1, <2>2
<1> QED BY <1>1, <1>3, <1>5, <1>6

\* The newest version in the database that a recovery finds.
LEMMA RecoveredVersion ==
    ASSUME Inv, DInv, VInv, ~up
    PROVE  \E v \in Nat : v <= pushed /\ IsNewest(v, db)
<1>1. CASE IsNewest(ver, db)
  <2>1. ver \in Nat /\ ver <= pushed
      BY Counts DEF VInv, Versions
  <2> QED BY <1>1, <2>1
<1>2. CASE OneMore(hist, next, ver, pushed, db)
    BY <1>2 DEF OneMore, IsNewest
<1> QED BY <1>1, <1>2 DEF VInv, Recoverable

\* The log is rebuilt.
LEMMA RecoverVInv ==
    ASSUME Inv, DInv, VInv, RecoverLog
    PROVE  VInv'
<1> USE DEF RecoverLog
<1>1. PICK n \in 0..MaxPage :
              /\ DOMAIN db = 1..n /\ next' = n /\ top' = n /\ hist' = Dump(db)
              /\ DOMAIN hist' = 0..(n - 1) /\ SizeAt(hist', n) = n
              /\ \A f \in 0..(n - 1) : hist'[f].page = f + 1
              /\ ver' = Max({0} \cup {db[q] : q \in DOMAIN db})
    BY RecoveredLog
<1>2. PICK v \in Nat : v <= pushed /\ IsNewest(v, db)
    BY RecoveredVersion
<1>3. ver' = v
    BY <1>1, <1>2, NewestIsMax
<1>4. /\ up' /\ wr' = "idle" /\ unc' = 0 /\ db' = db /\ pushed' = pushed /\ pushed \in Nat
      /\ pushed <= MaxVer /\ MaxTxnLen \in Nat /\ n \in Nat
    BY Constants, MoreConstants DEF DInv, Phases, Values, VInv, Versions, pageVars, Bounded, Inv
<1>5. Sizes'
  <2>1. \A f \in 0..(next' - 1) : hist'[f].page \in 1..n
      BY <1>1, <1>4
  <2> QED BY <1>1, <1>4, <2>1 DEF Sizes
<1>6. Transaction' /\ Announced' /\ Recoverable'
    BY <1>1, <1>4 DEF Transaction, Announced, Recoverable
<1>7. Versions'
  <2>1. IsNewest(ver', db')
      BY <1>2, <1>3, <1>4
  <2> QED BY <1>2, <1>3, <1>4, <2>1 DEF Versions
<1> QED BY <1>5, <1>6, <1>7 DEF VInv

\* Nobody shuts the process down.
LEMMA NoShutdown ==
    ASSUME Policy, SInv
    PROVE  ~BeginShutdown /\ ~EndShutdown /\ ~Start /\ ~LostCommit
<1>1. sentinel /\ ~(shutdowns < MaxShutdowns)
    BY DEF Policy, Setting, SInv, Undisturbed
<1> QED BY <1>1 DEF BeginShutdown, EndShutdown, Start, LostCommit

\* Nothing happens.
LEMMA StutterVInv ==
    ASSUME VInv, UNCHANGED vars
    PROVE  VInv'
<1> USE DEF vars, readVars, primVars, diskVars, fileVars, pageVars
<1>1. CASE up
    BY <1>1, SameVInv
<1>2. CASE ~up
  <2>1. Sizes' /\ Transaction' /\ Announced'
      BY DEF VInv, Sizes, SizeAt, Transaction, Announced, NewSize
  <2>2. Versions'
      BY DEF VInv, Versions, IsNewest
  <2>3. Recoverable'
    <3>1. CASE Describes(hist, next, db) /\ IsNewest(ver, db)
        BY <3>1 DEF Recoverable
    <3>2. CASE top = next /\ OneMore(hist, next, ver, pushed, db)
        BY <3>2 DEF Recoverable
    <3> QED BY <1>2, <3>1, <3>2 DEF VInv, Recoverable
  <2> QED BY <2>1, <2>2, <2>3 DEF VInv
<1> QED BY <1>1, <1>2

\* Every step keeps the pages and versions in order.
LEMMA NextVInv == Policy /\ Inv /\ DInv /\ SInv /\ VInv /\ [Next]_vars => VInv'
<1> SUFFICES ASSUME Policy, Inv, DInv, SInv, VInv, [Next]_vars PROVE VInv'
    OBVIOUS
<1>1. CASE Writer
    BY <1>1, FlushVInv, OrigVInv, CommitVInv, WriterVInv DEF Writer
<1>2. CASE PeriodicCompact \/ Compactor \/ Merger
    BY <1>2, WriterVInv, ThreadVInv
<1>3. CASE SendFails
  <2>1. CASE Die
      BY <1>3, <2>1, DieVInv DEF SendFails
  <2>2. CASE ~Die
      BY <1>3, <2>2, SameVInv DEF SendFails, readVars, diskVars, fileVars, pageVars
  <2> QED BY <2>1, <2>2
<1>4. CASE Kill
    BY <1>4, DieVInv DEF Kill
<1>5. CASE RecoverLog
    BY <1>5, RecoverVInv
<1>6. CASE Idle \/ UNCHANGED vars
    BY <1>6, StutterVInv DEF Idle
<1> QED BY <1>1, <1>2, <1>3, <1>4, <1>5, <1>6, NoShutdown DEF Next, Process

-----------------------------------------------------------------------------
(* Snapshots: what is listed, merged and removed. *)

\* The sum over a list of one snapshot.
LEMMA SumOfOne ==
    ASSUME NEW x, x.n \in Nat
    PROVE  FoldLeft(LAMBDA acc, y : acc + y.n, 0, <<x>>) = x.n
<1> DEFINE D == DOMAIN <<x>>
           P(g) == g = [s \in SUBSET D |->
                           IF s = {} THEN 0 ELSE g[s \ {Max(s)}] + <<x>>[Max(s)].n]
           w == [s \in SUBSET {1} |-> IF s = {} THEN 0 ELSE x.n]
           c == CHOOSE g : P(g)
<1>1. FoldLeft(LAMBDA acc, y : acc + y.n, 0, <<x>>) = c[D]
    BY Zenon DEF FoldLeft, MapThenFoldSet
<1>2. D = {1} /\ <<x>>[1] = x
    OBVIOUS
<1>3. Max({1}) = 1
    BY DEF Max
<1>4. ASSUME NEW s \in SUBSET {1}
      PROVE  w[s] = IF s = {} THEN 0 ELSE w[s \ {Max(s)}] + <<x>>[Max(s)].n
  <2>1. CASE s = {}
      BY <2>1
  <2>2. CASE s # {}
    <3>1. s = {1} /\ s \ {1} = {} /\ Max(s) = 1
        BY <1>3, <2>2
    <3>2. w[s] = x.n /\ w[s \ {Max(s)}] = 0
        BY <3>1
    <3>3. <<x>>[Max(s)].n = x.n /\ 0 + x.n = x.n
        BY <1>2, <3>1
    <3> HIDE DEF w
    <3> QED BY <2>2, <3>2, <3>3
  <2> QED BY <2>1, <2>2
<1>5. P(w)
    BY <1>2, <1>4
<1>6. P(c)
  <2> HIDE DEF P
  <2> QED BY <1>5, Zenon
<1>7. c = [s \in SUBSET {1} |-> IF s = {} THEN 0 ELSE c[s \ {Max(s)}] + <<x>>[Max(s)].n]
    BY <1>2, <1>6
<1> HIDE DEF c, P
<1>8. c[{1}] = c[{1} \ {Max({1})}] + <<x>>[Max({1})].n /\ c[{}] = 0
    BY <1>7
<1>9. {1} \ {1} = {}
    OBVIOUS
<1>10. c[{1}] = x.n
    BY <1>2, <1>3, <1>8, <1>9
<1> QED BY <1>1, <1>2, <1>10

\* One snapshot that is not larger than the database is not merged.
LEMMA OneIsNotMerged ==
    ASSUME Policy, NEW x \in Name, NEW pages \in Nat, Small(x, pages)
    PROVE  ~should_merge(<<x>>, pages)
<1>0. x.n \in Nat
    BY DEF Name
<1>1. FoldLeft(LAMBDA acc, y : acc + y.n, 0, <<x>>) = x.n
    BY <1>0, SumOfOne
<1>2. x.n <= pages /\ pages > 0
    BY DEF Small
<1>3. Amplification \in Nat /\ Amplification >= 2 /\ MaxSnapshots \in Nat /\ MaxSnapshots >= 1
    BY PrimaryAssumption DEF Policy
<1>4. Amplification * pages >= 2 * pages
    BY <1>3
<1>5. Len(<<x>>) = 1
    OBVIOUS
<1> DEFINE a == Amplification * pages
<1>6. a \in Nat /\ a >= 2 * pages
    BY <1>3, <1>4
<1> HIDE DEF a
<1>7. ~(x.n >= a)
    BY <1>0, <1>2, <1>6
<1>8. ~(Len(<<x>>) > MaxSnapshots)
    BY <1>3, <1>5
<1> QED BY <1>1, <1>7, <1>8 DEF should_merge, a

\* Frames with different pages are no more than the pages there are.
LEMMA AsManyAsPages ==
    ASSUME NEW h, NEW n \in Nat, NumberedUpTo(h, n), NEW b \in 0..(n - 1), NEW a \in 0..b,
           NEW p \in Nat, \A f \in a..b : h[f].page \in 1..p
    PROVE  Cardinality(Newest(Stretch(h, a, b))) <= p /\ p > 0
<1> DEFINE S == Newest(Stretch(h, a, b))
           g == [x \in S |-> x.page]
<1>1. \A x \in S : \E f \in a..b : x = h[f] /\ x.no = f
    BY DEF Newest, Stretch, NumberedUpTo
<1>2. \A x \in S : x.page \in 1..p
    BY <1>1
<1>3. ASSUME NEW x \in S, NEW y \in S, x.page = y.page PROVE x = y
  <2>1. x.no <= y.no /\ y.no <= x.no
      BY <1>3 DEF Newest
  <2> HIDE DEF S
  <2> QED BY <1>1, <2>1
<1>4. g \in Injection(S, 1..p)
  <2>1. g \in [S -> 1..p]
      BY <1>2
  <2>2. \A x, y \in S : g[x] = g[y] => x = y
      BY <1>3
  <2> HIDE DEF S
  <2> QED BY <2>1, <2>2 DEF Injection, IsInjective
<1>5. IsFiniteSet(1..p) /\ Cardinality(1..p) = p
  <2>1. 1 \in Int /\ p \in Int
      OBVIOUS
  <2>2. IsFiniteSet(1..p)
      BY <2>1, FS_Interval, Zenon
  <2> QED BY <2>2, CountTo
<1>6. Cardinality(S) <= Cardinality(1..p)
  <2> HIDE DEF S, g
  <2> QED BY <1>4, <1>5, FS_Injection
<1>7. p > 0
  <2>1. a \in a..b
      OBVIOUS
  <2>2. h[a].page \in 1..p
      BY <2>1
  <2> QED BY <2>2
<1> QED BY <1>5, <1>6, <1>7

\* Initially there is nothing to merge.
LEMMA InitGInv == Init => GInv
<1> SUFFICES ASSUME Init PROVE GInv
    OBVIOUS
<1> USE EmptySeq DEF Init
<1>1. Registered /\ Sequel /\ Unlisted
    BY DEF Registered, Sequel, Unlisted, Upcoming
<1>2. Listing /\ LongEnough /\ Unlinking
    BY DEF Listing, LongEnough, Unlinking
<1>3. NothingLost
    BY DEF NothingLost, Done, Waiting
<1> QED BY <1>1, <1>2, <1>3 DEF GInv

\* The threads and their lists.
mergerVars == <<snaps, up, sending, cs, job, ms, mqueue, mlist, mleft>>

\* A log that was swapped out keeps its size.
LEMMA StaysFit ==
    ASSUME HistoryKept, next \in Nat, NEW j, JobOK(j), LogCopy(j), Fits(j)
    PROVE  Fits(j)'
<1>1. j.start \in Nat /\ j.count \in Nat /\ j.start + j.count <= next
    BY Constants DEF JobOK, LogCopy
<1>2. \A f \in j.start..(j.start + j.count - 1) : hist'[f] = hist[f]
    BY <1>1 DEF HistoryKept
<1> QED BY <1>2 DEF Fits

\* Steps that leave them alone.
LEMMA SameGInv ==
    ASSUME Inv, SInv, GInv, HistoryKept, UNCHANGED mergerVars, first' = first
    PROVE  GInv'
<1> USE DEF mergerVars
<1>1. JobOK(sending) /\ JobOK(job) /\ next \in Nat
    BY DEF Inv, TypeOK
<1>2. sending # NoJob => Fits(sending)'
    BY <1>1, StaysFit DEF GInv, Registered, SInv, Closed
<1>3. cs = "compact" => Fits(job)'
    BY <1>1, StaysFit DEF GInv, Registered, SInv, Closed
<1>4. Registered'
    BY <1>2, <1>3 DEF GInv, Registered, Fits, NoJob
<1>5. Sequel' /\ Unlisted' /\ LongEnough'
    BY DEF GInv, Sequel, Unlisted, LongEnough, Upcoming
<1>6. Listing'
    BY DEF GInv, Listing, Doomed, Tiling, Twice, Continues, Upcoming, ListEnd
<1>7. Unlinking' /\ Done' = Done
    BY DEF GInv, Unlinking, Done, Waiting, NoJob
<1>8. NothingLost'
    BY <1>7 DEF GInv, NothingLost
<1> QED BY <1>4, <1>5, <1>6, <1>7, <1>8 DEF GInv

\* The steps of the writer but compaction.
LEMMA WriterGInv ==
    ASSUME Inv, SInv, GInv,
           \/ OnFramesSpill \/ OnFramesFlush \/ OnFramesFlushFails \/ OrigFrames
           \/ OrigFramesFails \/ LogCommit \/ Notify \/ OnUndo \/ WriterNoCompact
    PROVE  GInv'
<1> USE DEF readVars, diskVars, fileVars, compVars, mergeVars
<1>1. first \in Nat /\ count \in Nat /\ unc \in Nat /\ next \in Nat /\ next = first + count
    BY TypeOKNumbers, Constants DEF Inv, OnDisk, TypeOK
<1>2. CASE LogCommit
  <2>1. /\ count' = count + unc /\ next' = first + count'
        /\ hist' = [f \in 0..(first + count' - 1) |->
                       IF f < next THEN hist[f] ELSE file[ino][f - first]]
        /\ UNCHANGED mergerVars /\ first' = first
      BY <1>2 DEF LogCommit, commit, mergerVars
  <2>2. HistoryKept
      BY <1>1, <2>1 DEF HistoryKept
  <2> QED BY <2>1, <2>2, SameGInv
<1>3. CASE ~LogCommit
  <2>1. UNCHANGED mergerVars /\ UNCHANGED <<hist, next, first>>
      BY <1>3 DEF OnFramesSpill, OnFramesFlush, OnFramesFlushFails, OrigFrames,
                  OrigFramesFails, Notify, OnUndo, WriterNoCompact, mergerVars
  <2>2. HistoryKept
      BY <1>1, <2>1 DEF HistoryKept
  <2> QED BY <2>1, <2>2, SameGInv
<1> QED BY <1>2, <1>3

\* A log with frames is swapped for an empty one.
LEMMA SwapGInv ==
    ASSUME Inv, SInv, VInv, GInv, up, lock = "free", count > 0, NEW pages, NEW who,
           pages = SizeAt(hist, next), do_compaction(pages, who),
           UNCHANGED <<hist, next, up, snaps, cs, job, ms, mqueue, mlist, mleft>>
    PROVE  GInv'
<1>1. /\ sending = NoJob /\ next = first + count /\ first \in Nat /\ count \in Nat
      /\ ino \in Inodes /\ next \in Nat
    BY Constants DEF Inv, TypeOK, OnDisk, Handover
<1>2. first' = next /\ sending' = Job(ino, first, count, pages, NoName)
    BY <1>1 DEF do_compaction
<1>3. /\ sending' # NoJob /\ sending'.start = first /\ sending'.count = count
      /\ sending'.pages = pages
    BY <1>1, <1>2 DEF Job, NoJob, Inodes, NoInode
<1>4. Fits(sending)'
  <2>1. pages \in Nat /\ \A f \in 0..(next - 1) : hist[f].page \in 1..pages
      BY Constants DEF VInv, Sizes
  <2> QED BY <1>1, <1>3, <2>1 DEF Fits
<1>5. Registered'
    BY <1>4 DEF GInv, Registered, Fits
<1>6. Sequel' /\ Unlisted' /\ LongEnough' /\ Unlinking'
    BY DEF GInv, Sequel, Unlisted, LongEnough, Upcoming, Unlinking
<1>7. Listing'
    BY DEF GInv, Listing, Doomed, Tiling, Twice, Continues, Upcoming, ListEnd
<1>8. NothingLost'
  <2>1. Done' = Done
      BY <1>1, <1>3 DEF Done, Waiting
  <2> QED BY <2>1 DEF GInv, NothingLost
<1> QED BY <1>5, <1>6, <1>7, <1>8 DEF GInv

\* Compaction by the writer and by the periodic task.
LEMMA CompactionGInv ==
    ASSUME Policy, Inv, DInv, SInv, VInv, GInv, WriterCompact \/ PeriodicCompact
    PROVE  GInv'
<1> USE DEF compVars, mergeVars
<1>1. /\ count \in Nat /\ first \in Nat /\ next = first + count /\ unc \in Nat
      /\ MaxLogFrames \in Nat
    BY Counts, PrimaryAssumption
<1>2. CASE WriterCompact
  <2>1. count > 0
    <3>1. Elapsed = {FALSE}
        BY DEF Policy, Setting, Elapsed
    <3> QED BY <1>1, <1>2, <3>1 DEF WriterCompact, should_compact
  <2>2. Cardinality(DOMAIN db) = SizeAt(hist, next)
      BY <1>2, InSyncSize DEF WriterCompact, DInv, InSync
  <2> QED BY <1>2, <2>1, <2>2, SwapGInv DEF WriterCompact
<1>3. CASE PeriodicCompact
  <2>1. count > 0 /\ up
      BY <1>3 DEF PeriodicCompact
  <2>2. next - 1 \in first..(next - 1) /\ (next - 1) - first = count - 1 /\ next # 0
      BY <1>1, <2>1
  <2>3. file[ino][(next - 1) - first] = hist[next - 1]
      BY <2>2 DEF Inv, OnDisk, frame
  <2>4. file[ino][count - 1].size = SizeAt(hist, next)
      BY <2>2, <2>3 DEF SizeAt
  <2> QED BY <1>3, <2>1, <2>4, SwapGInv DEF PeriodicCompact
<1> QED BY <1>2, <1>3

-----------------------------------------------------------------------------
(* The compactor. *)

\* What there is of the list stays, if no other name is to come.
LEMMA ListingKept ==
    ASSUME Listing, UNCHANGED <<up, ms, mlist>>, \A x : Upcoming(x)' => Upcoming(x)
    PROVE  Listing'
<1>1. Doomed' = Doomed /\ Tiling' = Tiling /\ ListEnd' = ListEnd
    BY DEF Doomed, Tiling, ListEnd
<1>2. Twice => Twice'
    BY DEF Twice
<1>3. Continues => Continues'
    BY <1>1 DEF Continues
<1> QED BY <1>1, <1>2, <1>3 DEF Listing

\* The compactor takes the log that is offered.
LEMMA ReceiveGInv ==
    ASSUME Inv, SInv, GInv, Receive
    PROVE  GInv'
<1> USE DEF Receive, readVars, diskVars, fileVars, mergeVars
<1>1. Registered'
    BY DEF GInv, Registered, Fits
<1>2. ASSUME NEW x PROVE Upcoming(x)' <=> Upcoming(x)
    BY DEF Upcoming
<1>3. Listing'
    BY <1>2, ListingKept DEF GInv
<1>4. Sequel' /\ Unlisted' /\ LongEnough' /\ Unlinking'
    BY <1>2 DEF GInv, Sequel, Unlisted, LongEnough, Unlinking
<1>5. Done' = Done
    BY DEF Done, Waiting
<1>6. NothingLost'
    BY <1>5 DEF GInv, NothingLost
<1> QED BY <1>1, <1>3, <1>4, <1>6 DEF GInv

\* The compactor ends, or fails.
LEMMA CompactorEndsGInv ==
    ASSUME GInv, up, cs' = "dead", sending' \in {sending, NoJob},
           UNCHANGED <<up, hist, snaps, ms, mqueue, mlist, mleft>>
    PROVE  GInv'
<1>1. Registered'
    BY DEF GInv, Registered, Fits
<1>2. ASSUME NEW x PROVE Upcoming(x)' => Upcoming(x)
    BY DEF Upcoming
<1>3. Listing'
    BY <1>2, ListingKept DEF GInv
<1>4. Sequel' /\ Unlisted' /\ LongEnough' /\ Unlinking' /\ NothingLost'
    BY <1>2 DEF GInv, Sequel, Unlisted, LongEnough, Unlinking, NothingLost
<1> QED BY <1>1, <1>3, <1>4 DEF GInv

\* The other steps of the compactor after it has written a snapshot.
LEMMA CompactorGInv ==
    ASSUME Inv, SInv, GInv, RegisterSnapshot \/ RemoveLog \/ CompactorFails
    PROVE  GInv'
<1> USE DEF readVars, diskVars, fileVars, mergeVars
<1>0. up /\ UNCHANGED <<up, hist, snaps, first, ms, mlist, mleft, sending>>
    BY DEF RegisterSnapshot, RemoveLog, CompactorFails
<1>1. CASE cs' = "dead"
  <2>1. mqueue' = mqueue
      BY <1>1 DEF RegisterSnapshot, RemoveLog, CompactorFails
  <2> QED BY <1>0, <1>1, <2>1, CompactorEndsGInv
<1>2. CASE RemoveLog /\ cs' # "dead"
  <2>1. mqueue' = mqueue /\ cs = "remove" /\ cs' = "recv"
      BY <1>2 DEF RemoveLog
  <2>2. Registered'
      BY <1>0, <2>1 DEF GInv, Registered, Fits
  <2>3. ASSUME NEW x PROVE Upcoming(x)' => Upcoming(x)
      BY <2>1 DEF Upcoming
  <2>4. Listing'
      BY <1>0, <2>3, ListingKept DEF GInv
  <2>5. Sequel' /\ Unlisted' /\ LongEnough' /\ Unlinking'
      BY <1>0, <2>1, <2>3 DEF GInv, Sequel, Unlisted, LongEnough, Unlinking
  <2>6. Done' = Done
      BY <1>0, <2>1 DEF Done, Waiting
  <2>7. NothingLost'
      BY <1>0, <2>1, <2>6 DEF GInv, NothingLost
  <2> QED BY <2>2, <2>4, <2>5, <2>7 DEF GInv
<1>3. CASE RegisterSnapshot /\ cs' # "dead"
  <2> DEFINE r == [name |-> job.name, pages |-> job.pages]
  <2>1. cs = "callback" /\ cs' = "remove" /\ mqueue' = Append(mqueue, r) /\ job' = job
      BY <1>3 DEF RegisterSnapshot
  <2>2. mqueue \in Seq(Registration) /\ r \in Registration
      BY <2>1 DEF SInv, ListTypes, Registration, Inv, TypeOK, JobOK
  <2>3. /\ Len(mqueue') = Len(mqueue) + 1 /\ mqueue' # <<>> /\ Len(mqueue) \in Nat
        /\ mqueue'[Len(mqueue) + 1] = r
        /\ \A i \in 1..Len(mqueue) : mqueue'[i] = mqueue[i]
      BY <2>1, <2>2
  <2>4. r.name = job.name /\ r.pages = job.pages
      OBVIOUS
  <2> HIDE DEF r
  <2>5. Registered'
    <3>1. ASSUME NEW i \in 1..Len(mqueue') PROVE Small(mqueue'[i].name, mqueue'[i].pages)
      <4>1. CASE i \in 1..Len(mqueue)
          BY <2>3, <4>1 DEF GInv, Registered
      <4>2. CASE i = Len(mqueue) + 1
          BY <2>1, <2>3, <2>4, <4>2 DEF GInv, Registered
      <4> QED BY <2>3, <4>1, <4>2
    <3> QED BY <1>0, <2>1, <3>1 DEF GInv, Registered, Fits
  <2>6. Sequel'
    <3>1. ASSUME NEW i \in 1..(Len(mqueue') - 1)
          PROVE  mqueue'[i + 1].name.s = mqueue'[i].name.e + 1
      <4>1. CASE i = Len(mqueue)
        <5>1. mqueue # <<>> /\ i \in 1..Len(mqueue)
            BY <2>3, <4>1, EmptySeq
        <5>2. job.name.s = mqueue[Len(mqueue)].name.e + 1
            BY <2>1, <5>1 DEF GInv, Sequel
        <5> QED BY <2>3, <2>4, <4>1, <5>1, <5>2
      <4>2. CASE i # Len(mqueue)
        <5>1. i \in 1..(Len(mqueue) - 1) /\ i \in 1..Len(mqueue) /\ i + 1 \in 1..Len(mqueue)
            BY <2>3, <4>2
        <5> QED BY <2>3, <5>1 DEF GInv, Sequel
      <4> QED BY <4>1, <4>2
    <3> QED BY <2>1, <3>1 DEF Sequel
  <2>7. ASSUME NEW x PROVE Upcoming(x)' => Upcoming(x)
    <3>1. CASE mqueue = <<>>
      <4>1. mqueue'[1] = r
          BY <2>3, <3>1, EmptySeq
      <4> QED BY <2>1, <2>3, <2>4, <3>1, <4>1 DEF Upcoming
    <3>2. CASE mqueue # <<>>
      <4>1. 1 \in 1..Len(mqueue)
          BY <2>2, <2>3, <3>2, EmptySeq
      <4> QED BY <2>3, <3>2, <4>1 DEF Upcoming
    <3> QED BY <3>1, <3>2
  <2>8. Listing'
      BY <1>0, <2>7, ListingKept DEF GInv
  <2>9. Unlisted'
    <3> SUFFICES ASSUME ms = "init" PROVE Unlisted'
        BY <1>0 DEF Unlisted
    <3>1. ASSUME NEW i \in 1..Len(mqueue') PROVE \E x \in snaps : SameName(x, mqueue'[i].name)
      <4>1. CASE i \in 1..Len(mqueue)
          BY <1>0, <2>3, <4>1 DEF GInv, Unlisted
      <4>2. CASE i = Len(mqueue) + 1
          BY <1>0, <2>1, <2>3, <2>4, <4>2 DEF GInv, Unlisted
      <4> QED BY <2>3, <4>1, <4>2
    <3>2. \A x : Upcoming(x)' => x.s = 0
        BY <1>0, <2>7 DEF GInv, Unlisted
    <3> QED BY <1>0, <2>1, <3>1, <3>2 DEF Unlisted
  <2>10. LongEnough' /\ Unlinking'
      BY <1>0 DEF GInv, LongEnough, Unlinking
  <2>11. Done' = Done
      BY <1>0, <2>1 DEF Done, Waiting
  <2>12. NothingLost'
      BY <1>0, <2>1, <2>11 DEF GInv, NothingLost
  <2> QED BY <2>5, <2>6, <2>8, <2>9, <2>10, <2>12 DEF GInv
<1> QED BY <1>1, <1>2, <1>3 DEF CompactorFails

\* Writing a snapshot leaves one of every name there was.
LEMMA PersistKeepsNames ==
    ASSUME NEW s, NEW e, NEW F, PersistSnapshot(s, e, F)
    PROVE  /\ \A x \in snaps : \E y \in snaps' : SameName(y, x)
           /\ \E y \in snaps' : y.s = s /\ y.e = e
<1> DEFINE y == [s |-> s, e |-> e, frames |-> Newest(F)]
<1>1. y.s = s /\ y.e = e /\ y \in snaps'
    BY DEF PersistSnapshot
<1>2. \A x \in snaps : ~(x.s = s /\ x.e = e) => x \in snaps'
    BY DEF PersistSnapshot
<1> HIDE DEF y
<1> QED BY <1>1, <1>2 DEF SameName

\* What the compactor writes: the snapshot of the log it works on, which follows on all
\* the others.
LEMMA CompactedName ==
    ASSUME Inv, SInv, GInv, PerformCompaction, next <= U64Max, cs' # "dead"
    PROVE  \E s, e, F :
              /\ s \in Nat /\ e \in Nat /\ PersistSnapshot(s, e, F) /\ cs' = "callback" /\ s <= e
              /\ job'.name.s = s /\ job'.name.e = e /\ Small(job'.name, job'.pages)
              /\ s = Done /\ s = End /\ e + 1 = Waiting
              /\ s = job.start /\ e + 1 = job.start + job.count
<1> DEFINE slots == rev_frames_iter(job)
           F == UNION {slots[k] : k \in DOMAIN slots}
           s == Min({f.no : f \in F} \cup {U64Max})
           e == Max({f.no : f \in F} \cup {0})
           n == Cardinality(Newest(F))
           b == job.start + job.count - 1
<1>1. /\ up /\ cs = "compact" /\ PersistSnapshot(s, e, F) /\ cs' = "callback"
      /\ job' = Job(NoInode, job.start, job.count, job.pages, [s |-> s, e |-> e, n |-> n])
    BY DEF PerformCompaction
<1>2. /\ LogCopy(job) /\ JobOK(job) /\ NumberedUpTo(hist, next) /\ next \in Nat
      /\ job.start + job.count = Waiting /\ Fits(job) /\ End = Done /\ Done = job.start
    BY <1>1 DEF SInv, Closed, Inv, TypeOK, Numbers, GInv, Registered, Reaches, Done
<1>3. /\ F = Stretch(hist, job.start, b) /\ s = job.start /\ e = b
      /\ s \in Nat /\ e \in Nat /\ s <= e /\ e < next /\ e + 1 = Waiting
  <2> DEFINE G == F
             d == b
  <2>1. G = UNION {rev_frames_iter(job)[k] : k \in DOMAIN rev_frames_iter(job)} /\ d = b
      OBVIOUS
  <2>2. /\ G = Stretch(hist, job.start, d)
        /\ Min({f.no : f \in G} \cup {U64Max}) = job.start
        /\ Max({f.no : f \in G} \cup {0}) = d
        /\ job.start \in Nat /\ d \in Nat /\ job.start <= d /\ d < next
        /\ d + 1 = job.start + job.count
    <3> HIDE DEF G, d
    <3> QED BY <1>2, <2>1, ReadsLog
  <2> QED BY <1>2, <2>2
<1>4. n <= job.pages /\ job.pages > 0
  <2>1. job.pages \in Nat /\ \A f \in job.start..b : hist[f].page \in 1..job.pages
      BY <1>2 DEF Fits
  <2>2. b \in 0..(next - 1) /\ job.start \in 0..b
      BY <1>2, <1>3
  <2>3. Cardinality(Newest(Stretch(hist, job.start, b))) <= job.pages /\ job.pages > 0
    <3> HIDE DEF b
    <3> QED BY <1>2, <2>1, <2>2, AsManyAsPages
  <2> QED BY <1>3, <2>3
<1>5. /\ job'.name.s = s /\ job'.name.e = e /\ job'.name.n = n /\ job'.pages = job.pages
  <2> HIDE DEF s, e, n
  <2> QED BY <1>1 DEF Job
<1>6. Small(job'.name, job'.pages)
  <2> HIDE DEF n
  <2> QED BY <1>4, <1>5 DEF Small
<1> HIDE DEF F, s, e, n
<1> QED BY <1>1, <1>2, <1>3, <1>5, <1>6

\* The compactor writes its snapshot.
LEMMA CompactedGInv ==
    ASSUME Inv, SInv, GInv, PerformCompaction, next <= U64Max
    PROVE  GInv'
<1>0. /\ up /\ cs = "compact" /\ UNCHANGED <<up, hist, first, sending, ms, mqueue, mlist, mleft>>
    BY DEF PerformCompaction, mergeVars
<1>1. CASE cs' = "dead"
  <2>1. snaps' = snaps
      BY <1>1 DEF PerformCompaction
  <2> QED BY <1>0, <1>1, <2>1, CompactorEndsGInv
<1>2. CASE cs' # "dead"
  <2>1. PICK s, e, F :
              /\ s \in Nat /\ e \in Nat /\ PersistSnapshot(s, e, F) /\ cs' = "callback" /\ s <= e
              /\ job'.name.s = s /\ job'.name.e = e /\ Small(job'.name, job'.pages)
              /\ s = Done /\ s = End /\ e + 1 = Waiting
      BY <1>2, CompactedName
  <2>2. /\ \A x \in snaps : \E y \in snaps' : SameName(y, x)
        /\ \E y \in snaps' : y.s = s /\ y.e = e
      BY <2>1, PersistKeepsNames
  <2>3. Registered'
      BY <1>0, <2>1 DEF GInv, Registered, Fits
  <2>4. Sequel'
      BY <1>0, <2>1 DEF GInv, Sequel, End
  <2>5. mqueue # <<>> => \A x : Upcoming(x)' => Upcoming(x)
      BY <1>0 DEF Upcoming
  <2>6. mqueue = <<>> => /\ \A x : Upcoming(x)' => x = job'.name
                         /\ ListEnd = s /\ \A x : ~Upcoming(x)
      BY <1>0, <2>1 DEF Upcoming, End
  <2>7. Unlisted'
    <3> SUFFICES ASSUME ms = "init" PROVE Unlisted'
        BY <1>0 DEF Unlisted
    <3>1. ASSUME NEW i \in 1..Len(mqueue) PROVE \E x \in snaps' : SameName(x, mqueue[i].name)
      <4>1. PICK x \in snaps : SameName(x, mqueue[i].name)
          BY <1>0 DEF GInv, Unlisted
      <4>2. PICK y \in snaps' : SameName(y, x)
          BY <2>2
      <4> QED BY <4>1, <4>2 DEF SameName
    <3>2. \E x \in snaps' : SameName(x, job'.name)
        BY <2>1, <2>2 DEF SameName
    <3>3. ASSUME NEW x, Upcoming(x)' PROVE x.s = 0
      <4>1. CASE mqueue # <<>>
          BY <1>0, <2>5, <3>3, <4>1 DEF GInv, Unlisted
      <4>2. CASE mqueue = <<>>
        <5>1. mlist = <<>>
            BY <1>0 DEF SInv, Directory
        <5> QED BY <2>1, <2>6, <3>3, <4>2, <5>1 DEF ListEnd
      <4> QED BY <4>1, <4>2
    <3> QED BY <1>0, <3>1, <3>2, <3>3 DEF Unlisted
  <2>8. Listing'
    <3>1. CASE mqueue # <<>>
        BY <1>0, <2>5, <3>1, ListingKept DEF GInv
    <3>2. CASE mqueue = <<>>
      <4>1. Doomed' = Doomed /\ Tiling' = Tiling /\ ListEnd' = ListEnd
          BY <1>0 DEF Doomed, Tiling, ListEnd
      <4>2. Continues'
          BY <2>1, <2>6, <3>2, <4>1 DEF Continues
      <4> QED BY <1>0, <4>1, <4>2 DEF GInv, Listing
    <3> QED BY <3>1, <3>2
  <2>9. LongEnough'
      BY <1>0 DEF GInv, LongEnough
  <2>10. Unlinking'
    <3> SUFFICES ASSUME ms = "unlink" PROVE Unlinking'
        BY <1>0 DEF GInv, Unlinking
    <3>1. PICK r \in snaps :
                /\ r.s = 0
                /\ \A i \in 1..Len(mleft) : mleft[i].e <= r.e /\ ~SameName(mleft[i], r)
        BY <1>0 DEF GInv, Unlinking
    <3>2. PICK y \in snaps' : SameName(y, r)
        BY <2>2
    <3>3. y.s = 0 /\ \A i \in 1..Len(mleft) : mleft[i].e <= y.e /\ ~SameName(mleft[i], y)
        BY <3>1, <3>2 DEF SameName
    <3> QED BY <1>0, <3>3 DEF GInv, Unlinking
  <2>11. NothingLost'
    <3>1. Done' = e + 1
        BY <1>0, <2>1 DEF Done, Waiting
    <3>2. ASSUME NEW f \in 0..e PROVE \E x \in snaps' : x.s <= f /\ f <= x.e
      <4>1. CASE f < s
        <5>1. PICK x \in snaps : x.s <= f /\ f <= x.e
            BY <1>0, <2>1, <4>1 DEF GInv, NothingLost
        <5>2. PICK y \in snaps' : SameName(y, x)
            BY <2>2
        <5> QED BY <5>1, <5>2 DEF SameName
      <4>2. CASE s <= f
          BY <2>2, <4>2
      <4> QED BY <2>1, <4>1, <4>2
    <3> QED BY <2>1, <3>1, <3>2 DEF NothingLost
  <2> QED BY <2>3, <2>4, <2>7, <2>8, <2>9, <2>10, <2>11 DEF GInv
<1> QED BY <1>1, <1>2

-----------------------------------------------------------------------------
(* The merger. *)

\* The merger lists the directory, with all that the compactor has put there.
LEMMA MergerInitGInv ==
    ASSUME Inv, SInv, GInv, MergerInit
    PROVE  GInv'
<1> USE DEF MergerInit, readVars, diskVars, fileVars, compVars
<1>0. /\ up /\ ms = "init" /\ ms' = "recv"
      /\ UNCHANGED <<up, hist, snaps, first, sending, cs, job, mqueue, mleft>>
    OBVIOUS
<1>1. Registered' /\ Sequel' /\ Unlisted' /\ LongEnough' /\ Unlinking'
    BY <1>0 DEF GInv, Registered, Fits, Sequel, Unlisted, LongEnough, Unlinking
<1>2. Done' = Done /\ NothingLost'
    BY <1>0 DEF GInv, NothingLost, Done, Waiting
<1>3. Consecutive(Listed)
    BY <1>0, ListedConsecutive
<1>4. mlist' \in SetToSeqs(Listed) /\ \A i, j \in DOMAIN mlist' : i < j => mlist'[i].s <= mlist'[j].s
    BY DEF SnapshotLists, Listed
<1>5. /\ mlist' \in Seq(Name)
      /\ \A i \in 1..(Len(mlist') - 1) :
            mlist'[i + 1].s <= mlist'[i].e + 1 /\ mlist'[i].e < mlist'[i + 1].s
      /\ \A y \in Listed : \E j \in 1..Len(mlist') : mlist'[j] = y
    BY <1>3, <1>4, SortedNoHoles
<1>6. Tiling'
  <2> SUFFICES ASSUME NEW i \in 1..(Len(mlist') - 1) PROVE mlist'[i + 1].s = mlist'[i].e + 1
      BY DEF Tiling
  <2>1. i \in 1..Len(mlist') /\ i + 1 \in 1..Len(mlist')
      BY <1>5
  <2>2. mlist'[i] \in Name /\ mlist'[i + 1] \in Name
      BY <1>5, <2>1, ElementOfSeq
  <2>3. mlist'[i].e \in Nat /\ mlist'[i + 1].s \in Nat
      BY <2>2 DEF Name
  <2> QED BY <1>5, <2>3
<1>7. Twice'
  <2> SUFFICES ASSUME NEW x, Upcoming(x)'
               PROVE  \E i \in 1..Len(mlist') : SameName(mlist'[i], x)
      BY <1>0 DEF Twice
  <2>1. Upcoming(x)
      BY <1>0 DEF Upcoming
  <2>2. \E y \in snaps : SameName(y, x)
    <3>1. CASE mqueue = <<>>
        BY <1>0, <2>1, <3>1 DEF GInv, Unlisted, Upcoming
    <3>2. CASE mqueue # <<>>
      <4>1. 1 \in 1..Len(mqueue)
          BY <3>2, EmptySeq DEF SInv, ListTypes
      <4> QED BY <1>0, <2>1, <3>2, <4>1 DEF GInv, Unlisted, Upcoming
    <3> QED BY <3>1, <3>2
  <2>3. PICK y \in snaps : SameName(y, x)
      BY <2>2
  <2>4. [s |-> y.s, e |-> y.e, n |-> Cardinality(y.frames)] \in Listed
      BY DEF Listed
  <2>5. PICK i \in 1..Len(mlist') : mlist'[i] = [s |-> y.s, e |-> y.e, n |-> Cardinality(y.frames)]
      BY <1>5, <2>4
  <2> QED BY <2>3, <2>5 DEF SameName
<1>8. Listing'
    BY <1>6, <1>7 DEF Listing
<1> QED BY <1>1, <1>2, <1>8 DEF GInv

\* The merger receives a name.
LEMMA MergerReceiveGInv ==
    ASSUME Policy, Inv, SInv, GInv, MergerReceive
    PROVE  GInv'
<1> USE DEF MergerReceive, readVars, diskVars, fileVars, compVars
<1> DEFINE h == mqueue[1].name
           p == mqueue[1].pages
<1>0. /\ up /\ ms = "recv" /\ ms' \in {"recv", "merge"} /\ mqueue # <<>>
      /\ UNCHANGED <<up, hist, snaps, first, sending, cs, job, mleft>>
    OBVIOUS
<1>1. mlist \in Seq(Name) /\ mqueue \in Seq(Registration)
    BY DEF SInv, ListTypes
<1>2. /\ Len(mqueue) \in Nat /\ Len(mqueue) >= 1 /\ Len(mqueue') = Len(mqueue) - 1
      /\ mqueue' \in Seq(Registration)
      /\ \A i \in 1..(Len(mqueue) - 1) : mqueue'[i] = mqueue[i + 1]
      /\ Head(mqueue) = mqueue[1] /\ mqueue[1] \in Registration
    BY <1>0, <1>1, EmptySeq, LastInSeq
<1>3. /\ h \in Name /\ p \in Nat /\ h.s \in Nat /\ h.e \in Nat
    BY <1>2 DEF Registration, Name
<1>4. /\ mlist' = Append(mlist, h) /\ Len(mlist') = Len(mlist) + 1 /\ Len(mlist) \in Nat
      /\ mlist'[Len(mlist) + 1] = h /\ mlist' # <<>>
      /\ \A i \in 1..Len(mlist) : mlist'[i] = mlist[i]
      /\ ms' = IF should_merge(mlist', p) THEN "merge" ELSE "recv"
  <2>1. mlist' = Append(mlist, h) /\ ms' = IF should_merge(mlist', p) THEN "merge" ELSE "recv"
      BY <1>2
  <2> HIDE DEF h, p
  <2> QED BY <1>1, <1>3, <2>1
<1>5. Upcoming(h) /\ Small(h, p)
    BY <1>0, <1>2 DEF Upcoming, GInv, Registered
<1>6. Registered'
  <2>1. ASSUME NEW i \in 1..Len(mqueue') PROVE Small(mqueue'[i].name, mqueue'[i].pages)
    <3>1. i \in 1..(Len(mqueue) - 1) /\ i + 1 \in 1..Len(mqueue)
        BY <1>2
    <3> QED BY <1>2, <3>1 DEF GInv, Registered
  <2> QED BY <1>0, <2>1 DEF GInv, Registered, Fits
<1>7. Sequel'
  <2>1. ASSUME NEW i \in 1..(Len(mqueue') - 1)
        PROVE  mqueue'[i + 1].name.s = mqueue'[i].name.e + 1
    <3>1. /\ i \in 1..(Len(mqueue) - 1) /\ i + 1 \in 1..(Len(mqueue) - 1)
        BY <1>2
    <3>2. mqueue'[i] = mqueue[i + 1] /\ mqueue'[i + 1] = mqueue[(i + 1) + 1]
        BY <1>2, <3>1
    <3> QED BY <3>1, <3>2 DEF GInv, Sequel
  <2>2. ASSUME cs = "callback", mqueue' # <<>>
        PROVE  job.name.s = mqueue'[Len(mqueue')].name.e + 1
    <3>1. Len(mqueue') \in 1..(Len(mqueue) - 1) /\ Len(mqueue') + 1 = Len(mqueue)
        BY <1>2, <2>2, EmptySeq
    <3>2. mqueue'[Len(mqueue')] = mqueue[Len(mqueue)]
        BY <1>2, <3>1
    <3> QED BY <1>0, <2>2, <3>2 DEF GInv, Sequel
  <2> QED BY <1>0, <2>1, <2>2 DEF Sequel
<1>8. Unlisted' /\ Unlinking'
    BY <1>0 DEF GInv, Unlisted, Unlinking
<1>9. Done' = Done /\ NothingLost'
    BY <1>0 DEF GInv, NothingLost, Done, Waiting
<1>10. ASSUME ms' = "merge" PROVE Len(mlist') >= 2
  <2> SUFFICES ASSUME mlist = <<>> PROVE FALSE
      BY <1>1, <1>4, EmptySeq
  <2>1. mlist' = <<h>>
      BY <1>4
  <2>2. ~should_merge(<<h>>, p)
    <3> HIDE DEF h, p
    <3> QED BY <1>3, <1>5, OneIsNotMerged
  <2> HIDE DEF h, p
  <2> QED BY <1>4, <1>10, <2>1, <2>2
<1>11. LongEnough'
    BY <1>10 DEF LongEnough
<1> HIDE DEF p
<1>12. Listing'
  <2>1. CASE Doomed
    <3>1. PICK i \in 1..Len(mlist), j \in 1..Len(mlist) : i < j /\ SameName(mlist[i], mlist[j])
        BY <2>1 DEF Doomed
    <3>2. i \in 1..Len(mlist') /\ j \in 1..Len(mlist') /\ SameName(mlist'[i], mlist'[j])
        BY <1>4, <3>1
    <3>3. Doomed'
        BY <3>1, <3>2 DEF Doomed
    <3> QED BY <3>3 DEF Listing
  <2>2. CASE Twice
    <3>1. PICK i \in 1..Len(mlist) : SameName(mlist[i], h)
        BY <1>5, <2>2 DEF Twice
    <3>2. /\ i \in 1..Len(mlist') /\ Len(mlist) + 1 \in 1..Len(mlist') /\ i < Len(mlist) + 1
          /\ SameName(mlist'[i], mlist'[Len(mlist) + 1])
        BY <1>4, <3>1
    <3>3. Doomed'
        BY <3>2 DEF Doomed
    <3> QED BY <3>3 DEF Listing
  <2>3. CASE Tiling /\ Continues
    <3>1. h.s = ListEnd
        BY <1>5, <2>3 DEF Continues
    <3>2. ASSUME NEW i \in 1..(Len(mlist') - 1) PROVE mlist'[i + 1].s = mlist'[i].e + 1
      <4>1. CASE i = Len(mlist)
        <5>1. mlist # <<>> /\ i \in 1..Len(mlist)
            BY <1>4, <4>1, EmptySeq
        <5> QED BY <1>4, <3>1, <4>1, <5>1 DEF ListEnd
      <4>2. CASE i # Len(mlist)
        <5>1. i \in 1..(Len(mlist) - 1) /\ i \in 1..Len(mlist) /\ i + 1 \in 1..Len(mlist)
            BY <1>4, <4>2
        <5> QED BY <1>4, <2>3, <5>1 DEF Tiling
      <4> QED BY <4>1, <4>2
    <3>3. ListEnd' = h.e + 1
        BY <1>4 DEF ListEnd
    <3>4. ASSUME NEW x, Upcoming(x)' PROVE x.s = ListEnd'
      <4>1. CASE mqueue' # <<>>
        <5>1. 1 \in 1..(Len(mqueue) - 1)
            BY <1>2, <4>1, EmptySeq
        <5>2. mqueue'[1] = mqueue[1 + 1] /\ mqueue[1 + 1].name.s = mqueue[1].name.e + 1
            BY <1>2, <5>1 DEF GInv, Sequel
        <5> QED BY <3>3, <3>4, <4>1, <5>2 DEF Upcoming
      <4>2. CASE mqueue' = <<>>
        <5>1. Len(mqueue) = 1
            BY <1>2, <4>2, EmptySeq
        <5>2. cs = "callback" /\ x = job.name
            BY <1>0, <3>4, <4>2 DEF Upcoming
        <5>3. job.name.s = mqueue[Len(mqueue)].name.e + 1
            BY <1>0, <5>2 DEF GInv, Sequel
        <5> QED BY <3>3, <5>1, <5>2, <5>3
      <4> QED BY <4>1, <4>2
    <3>5. Tiling' /\ Continues'
        BY <3>2, <3>4 DEF Tiling, Continues
    <3> QED BY <3>5 DEF Listing
  <2> QED BY <1>0, <2>1, <2>2, <2>3 DEF GInv, Listing
<1> QED BY <1>6, <1>7, <1>8, <1>9, <1>11, <1>12 DEF GInv

\* The merger writes the merged snapshot, which has none of the names it is made of.
LEMMA MergeGInv ==
    ASSUME Inv, SInv, GInv, MergeSnapshots
    PROVE  GInv'
<1> USE DEF readVars, fileVars, compVars
<1> DEFINE frames == [i \in DOMAIN mlist |-> UNION {y.frames : y \in Files(mlist[i])}]
           F == UNION {frames[i] : i \in DOMAIN frames}
           s == mlist[1].s
           e == mlist[Len(mlist)].e
           k == Len(mlist)
           ok == (\A i \in DOMAIN mlist : Files(mlist[i]) # {}) /\ Descending(frames)
<1>0. /\ up /\ ms = "merge" /\ ms' \in {"unlink", "dead"}
      /\ UNCHANGED <<up, hist, first, sending, cs, job, mqueue>>
    BY DEF MergeSnapshots
<1>1. Registered' /\ Sequel' /\ Unlisted' /\ LongEnough'
    BY <1>0 DEF GInv, Registered, Fits, Sequel, Unlisted, LongEnough
<1>2. Done' = Done
    BY <1>0 DEF Done, Waiting
<1>3. CASE ~ok
  <2>1. ms' = "dead" /\ UNCHANGED <<snaps, mlist, mleft>>
      BY <1>3 DEF MergeSnapshots
  <2>2. NothingLost' /\ Unlinking' /\ Listing'
      BY <1>0, <1>2, <2>1 DEF GInv, NothingLost, Unlinking, Listing
  <2> QED BY <1>1, <2>2 DEF GInv
<1>4. CASE ok
  <2>1. /\ PersistSnapshot(s, e, F) /\ ms' = "unlink" /\ mleft' = mlist
        /\ mlist' = <<[s |-> s, e |-> e, n |-> Cardinality(Newest(F))]>>
      BY <1>4 DEF MergeSnapshots
  <2>2. mlist \in Seq(Name) /\ mlist # <<>> /\ k \in Nat /\ k >= 2
      BY <1>0 DEF SInv, Linked, ListTypes, GInv, LongEnough
  <2>3. s = 0 /\ \A i, j \in 1..k : i < j => mlist[i].e < mlist[j].e
    <3> DEFINE fr == frames
               G == F
               b == e
    <3>1. Merging(fr, G, b)
        BY <1>4, <2>2 DEF Merging
    <3>2. mlist[1].s = 0 /\ \A i, j \in 1..Len(mlist) : i < j => mlist[i].e < mlist[j].e
      <4> HIDE DEF fr, G, b
      <4> QED BY <3>1, MergesAll
    <3> QED BY <3>2
  <2> HIDE DEF ok, frames, F
  <2>4. /\ \A x \in snaps : \E y \in snaps' : SameName(y, x)
        /\ \E y \in snaps' : y.s = s /\ y.e = e
      BY <2>1, PersistKeepsNames
  <2>5. \A i \in 1..k : mlist[i] \in Name /\ mlist[i].s \in Nat /\ mlist[i].e \in Nat
    <3>1. \A i \in 1..k : mlist[i] \in Name
        BY <2>2, ElementOfSeq
    <3> HIDE DEF k
    <3> QED BY <3>1 DEF Name
  <2>6. ~Doomed
      BY <2>3, <2>5 DEF Doomed, SameName
  <2>7. Tiling /\ Continues
      BY <1>0, <2>6 DEF GInv, Listing, Twice
  <2>8. ASSUME NEW i \in 1..k PROVE mlist[i].e <= e /\ ~(mlist[i].s = 0 /\ mlist[i].e = e)
    <3>1. CASE i < k
        BY <2>2, <2>3, <2>5, <3>1
    <3>2. CASE i = k
      <4>1. k - 1 \in 1..(k - 1) /\ (k - 1) + 1 = k /\ k - 1 \in 1..k
          BY <2>2
      <4>2. mlist[(k - 1) + 1].s = mlist[k - 1].e + 1
          BY <2>7, <4>1 DEF Tiling
      <4>3. mlist[k].s # 0
          BY <2>5, <4>1, <4>2
      <4> QED BY <2>5, <3>2, <4>3
    <3> QED BY <2>2, <3>1, <3>2
  <2>9. Unlinking'
    <3>1. PICK y \in snaps' : y.s = 0 /\ y.e = e
        BY <2>3, <2>4
    <3>2. \A i \in 1..Len(mleft') : mleft'[i].e <= y.e /\ ~SameName(mleft'[i], y)
        BY <2>1, <2>8, <3>1 DEF SameName
    <3> QED BY <2>1, <2>2, <3>1, <3>2 DEF Unlinking
  <2>10. Len(mlist') = 1 /\ mlist' # <<>> /\ mlist'[1].e = e
    <3> DEFINE r == [s |-> s, e |-> e, n |-> Cardinality(Newest(F))]
    <3>1. r.e = e
        OBVIOUS
    <3> HIDE DEF r
    <3>2. mlist' = <<r>>
        BY <2>1 DEF r
    <3> QED BY <3>1, <3>2
  <2>11. Tiling' /\ ListEnd' = ListEnd
      BY <2>2, <2>10 DEF Tiling, ListEnd
  <2>12. Continues'
      BY <1>0, <2>7, <2>11 DEF Continues, Upcoming
  <2>13. Listing'
      BY <2>11, <2>12 DEF Listing
  <2>14. NothingLost'
    <3> SUFFICES ASSUME cs # "dead", NEW f \in 0..(Done - 1)
                 PROVE  \E x \in snaps' : x.s <= f /\ f <= x.e
        BY <1>0, <1>2 DEF NothingLost
    <3>1. PICK x \in snaps : x.s <= f /\ f <= x.e
        BY <1>0 DEF GInv, NothingLost
    <3>2. PICK y \in snaps' : SameName(y, x)
        BY <2>4
    <3> QED BY <3>1, <3>2 DEF SameName
  <2> QED BY <1>1, <2>9, <2>13, <2>14 DEF GInv
<1> QED BY <1>3, <1>4

\* The merger removes a file that it has merged.
LEMMA UnlinkGInv ==
    ASSUME Inv, SInv, GInv, UnlinkMerged
    PROVE  GInv'
<1> USE DEF UnlinkMerged, readVars, fileVars, compVars
<1>0. /\ up /\ ms = "unlink" /\ ms' \in {"unlink", "dead", "recv"}
      /\ UNCHANGED <<up, hist, first, sending, cs, job, mqueue, mlist>>
    OBVIOUS
<1>1. Registered' /\ Sequel' /\ Unlisted' /\ LongEnough'
    BY <1>0 DEF GInv, Registered, Fits, Sequel, Unlisted, LongEnough
<1>2. Doomed' = Doomed /\ Tiling' = Tiling /\ ListEnd' = ListEnd
    BY <1>0 DEF Doomed, Tiling, ListEnd
<1>3. Continues => Continues'
    BY <1>0, <1>2 DEF Continues, Upcoming
<1>4. Listing'
    BY <1>0, <1>2, <1>3 DEF GInv, Listing, Twice
<1>5. mleft \in Seq(Name) /\ mleft # <<>>
    BY <1>0 DEF GInv, Unlinking
<1>6. PICK r \in snaps :
                /\ r.s = 0
                /\ \A i \in 1..Len(mleft) : mleft[i].e <= r.e /\ ~SameName(mleft[i], r)
    BY <1>0 DEF GInv, Unlinking
<1>7. /\ mleft' \in Seq(Name) /\ Len(mleft') = Len(mleft) - 1 /\ Len(mleft) \in Nat
      /\ \A i \in 1..(Len(mleft) - 1) : mleft'[i] = mleft[i + 1]
      /\ Head(mleft) = mleft[1] /\ 1 \in 1..Len(mleft)
    BY <1>5, EmptySeq
<1>8. r \in snaps'
    BY <1>6, <1>7 DEF Files, SameName
<1>9. Unlinking'
  <2>1. ASSUME NEW i \in 1..Len(mleft') PROVE mleft'[i].e <= r.e /\ ~SameName(mleft'[i], r)
    <3>1. i \in 1..(Len(mleft) - 1) /\ i + 1 \in 1..Len(mleft)
        BY <1>7
    <3> QED BY <1>6, <1>7, <3>1
  <2> QED BY <1>6, <1>7, <1>8, <2>1 DEF Unlinking
<1>10. NothingLost'
  <2>1. Done' = Done
      BY <1>0 DEF Done, Waiting
  <2> SUFFICES ASSUME cs # "dead", NEW f \in 0..(Done - 1)
               PROVE  \E x \in snaps' : x.s <= f /\ f <= x.e
      BY <1>0, <2>1 DEF NothingLost
  <2>2. PICK x \in snaps : x.s <= f /\ f <= x.e
      BY <1>0 DEF GInv, NothingLost
  <2>3. CASE x \in snaps'
      BY <2>2, <2>3
  <2>4. CASE x \notin snaps'
    <3>1. x.e = mleft[1].e
        BY <1>7, <2>4 DEF Files
    <3>2. x.e <= r.e /\ r.s <= f
        BY <1>6, <1>7, <3>1
    <3>3. x.e \in Int /\ r.e \in Int
        BY <1>6 DEF SInv, Snapshots, Faithful
    <3>4. f <= r.e
        BY <2>2, <3>2, <3>3
    <3> QED BY <1>8, <3>2, <3>4
  <2> QED BY <2>3, <2>4
<1> QED BY <1>1, <1>4, <1>9, <1>10 DEF GInv

-----------------------------------------------------------------------------
(* The life of the process, and no gap. *)

\* The end of a process.
LEMMA DieGInv ==
    ASSUME Inv, SInv, GInv, Die
    PROVE  GInv'
<1> USE EmptySeq DEF Die
<1>1. Registered' /\ Sequel' /\ Unlisted'
    BY DEF Registered, Sequel, Unlisted
<1>2. Listing' /\ LongEnough' /\ Unlinking' /\ NothingLost'
    BY DEF Listing, LongEnough, Unlinking, NothingLost
<1> QED BY <1>1, <1>2 DEF GInv

\* The log is rebuilt, without snapshots.
LEMMA RecoverGInv ==
    ASSUME Inv, SInv, GInv, RecoverLog
    PROVE  GInv'
<1>1. /\ sending' = NoJob /\ cs' = "recv" /\ ms' = "init" /\ mqueue' = <<>> /\ mlist' = <<>>
      /\ first' = 0 /\ mleft' = mleft
    BY DEF RecoverLog, SInv, Down, compVars, mergeVars
<1> USE <1>1, EmptySeq
<1>2. Registered' /\ Sequel' /\ Unlisted'
    BY DEF Registered, Sequel, Unlisted, Upcoming
<1>3. Listing' /\ LongEnough' /\ Unlinking'
    BY DEF GInv, Listing, LongEnough, Unlinking
<1>4. NothingLost'
    BY DEF NothingLost, Done, Waiting
<1> QED BY <1>2, <1>3, <1>4 DEF GInv

\* Every step keeps the snapshots together.
LEMMA NextGInv ==
    /\ Policy /\ next <= U64Max /\ Inv /\ DInv /\ SInv /\ VInv /\ GInv /\ [Next]_vars
    => GInv'
<1> SUFFICES ASSUME Policy, next <= U64Max, Inv, DInv, SInv, VInv, GInv, [Next]_vars
             PROVE  GInv'
    OBVIOUS
<1>1. CASE Writer
    BY <1>1, WriterGInv, CompactionGInv DEF Writer
<1>2. CASE PeriodicCompact
    BY <1>2, CompactionGInv
<1>3. CASE Compactor
    BY <1>3, ReceiveGInv, CompactedGInv, CompactorGInv DEF Compactor
<1>4. CASE Merger
    BY <1>4, MergerInitGInv, MergerReceiveGInv, MergeGInv, UnlinkGInv DEF Merger
<1>5. CASE SendFails
  <2>1. CASE Die
      BY <2>1, DieGInv
  <2>2. CASE ~Die
      BY <1>5, <2>2, CompactorEndsGInv
         DEF SendFails, readVars, diskVars, compVars, mergeVars
  <2> QED BY <2>1, <2>2
<1>6. CASE Kill
    BY <1>6, DieGInv DEF Kill
<1>7. CASE RecoverLog
    BY <1>7, RecoverGInv
<1>8. CASE Idle \/ UNCHANGED vars
  <2>1. UNCHANGED mergerVars /\ UNCHANGED <<hist, next, first>>
      BY <1>8 DEF Idle, vars, readVars, primVars, diskVars, compVars, mergeVars, mergerVars
  <2>2. HistoryKept
      BY <2>1 DEF HistoryKept, Inv, TypeOK
  <2> QED BY <2>1, <2>2, SameGInv
<1> QED BY <1>1, <1>2, <1>3, <1>4, <1>5, <1>6, <1>7, <1>8, NoShutdown DEF Next, Process

\* All of the invariant.
PInv == Inv /\ DInv /\ SInv /\ VInv /\ GInv

\* It holds as long as frame numbers fit.
THEOREM PInvHolds == Policy /\ Spec /\ [](next <= U64Max) => []PInv
<1> SUFFICES ASSUME Policy PROVE Spec /\ [](next <= U64Max) => []PInv
    OBVIOUS
<1>1. Init => PInv
    BY InitInv, InitDInv, InitSInv, InitVInv, InitGInv DEF PInv
<1>2. next <= U64Max /\ PInv /\ [Next]_vars => PInv'
  <2> SUFFICES ASSUME next <= U64Max, PInv, [Next]_vars PROVE PInv'
      OBVIOUS
  <2>1. Setting /\ [~LostCommit]_vars
      BY NoShutdown DEF PInv, Policy
  <2> QED BY <2>1, NextInv, NextDInv, NextSInv, NextVInv, NextGInv DEF PInv
<1> QED BY <1>1, <1>2, PTL DEF Spec

\* As long as the compactor runs, a frame that has left the live log is in a snapshot or
\* on its way to one: whatever the merger removes, and whichever of the two threads is
\* the slower.
THEOREM NothingIsLost == Policy /\ Spec /\ [](next <= U64Max) => []NoGap
<1>1. PInv => NoGap
  <2> SUFFICES ASSUME PInv, up, cs # "dead", NEW f \in 0..(first - 1)
               PROVE  \/ \E x \in snaps : x.s <= f /\ f <= x.e
                      \/ InFlight(sending, f) \/ InFlight(job, f)
      BY DEF NoGap
  <2> USE DEF PInv
  <2>1. first \in Nat /\ JobOK(sending) /\ JobOK(job)
      BY DEF Inv, TypeOK
  <2>2. CASE f < Done
    <3>1. f \in 0..(Done - 1)
      <4>1. Done \in Int
          BY <2>1 DEF Done, Waiting, JobOK
      <4> QED BY <2>2, <4>1
    <3> QED BY <3>1 DEF GInv, NothingLost
  <2>3. CASE f >= Done /\ f < Waiting
    <3>1. cs = "compact" /\ f >= job.start
        BY <2>1, <2>3 DEF Done, Waiting, JobOK
    <3>2. job.ino # NoInode /\ job.start + job.count = Waiting
        BY <3>1 DEF SInv, Closed, LogCopy
    <3> QED BY <2>1, <2>3, <3>1, <3>2, Constants DEF InFlight, JobOK
  <2>4. CASE f >= Waiting
    <3>1. sending # NoJob /\ f >= sending.start
        BY <2>1, <2>4 DEF Waiting
    <3>2. sending.ino # NoInode /\ sending.start + sending.count = first
        BY <3>1 DEF SInv, Closed, LogCopy
    <3> QED BY <2>1, <3>1, <3>2, Constants DEF InFlight, JobOK
  <2>5. Done \in Int /\ Waiting \in Int
      BY <2>1 DEF Done, Waiting, JobOK
  <2> QED BY <2>2, <2>3, <2>4, <2>5
<1> QED BY <1>1, PInvHolds, PTL

-----------------------------------------------------------------------------
(* The promise to the readers, step by step. *)

\* The range of a log, and of a snapshot.
RangeOf(j) == <<j.start, j.start + j.count>>
Ranges == {<<x.s, x.e + 1>> : x \in snaps}

\* Short sequences.
LEMMA OneOrTwo ==
    ASSUME NEW a, NEW b
    PROVE  /\ <<a>> \o <<>> = <<a>> /\ <<>> \o <<b>> = <<b>> /\ <<>> \o <<>> = <<>>
           /\ <<a>> \o <<b>> = <<a, b>> /\ Append(<<a>>, b) = <<a, b>> /\ Append(<<>>, b) = <<b>>
           /\ Head(<<a>>) = a /\ Tail(<<a>>) = <<>> /\ Head(<<a, b>>) = a /\ Tail(<<a, b>>) = <<b>>
           /\ SubSeq(<<a, b>>, 1 + 1, Len(<<a, b>>)) = <<b>>
<1> DEFINE S == {a, b}
           ab == <<a, b>>
<1>1. /\ <<a>> \in Seq(S) /\ <<b>> \in Seq(S) /\ ab \in Seq(S) /\ <<>> \in Seq(S)
      /\ Len(<<a>>) = 1 /\ Len(<<b>>) = 1 /\ Len(ab) = 2
      /\ <<a>>[1] = a /\ <<b>>[1] = b /\ ab[1] = a /\ ab[2] = b
    OBVIOUS
<1> HIDE DEF S, ab
<1>2. <<a>> \o <<>> = <<a>> /\ <<>> \o <<b>> = <<b>> /\ <<>> \o <<>> = <<>>
    BY <1>1, ConcatEmptySeq
<1>3. <<a>> \o <<b>> = ab
  <2>1. /\ <<a>> \o <<b>> \in Seq(S) /\ Len(<<a>> \o <<b>>) = 2
        /\ \A i \in 1..2 : (<<a>> \o <<b>>)[i] = IF i <= 1 THEN <<a>>[i] ELSE <<b>>[i - 1]
      BY <1>1, ConcatProperties
  <2>2. \A i \in 1..2 : (<<a>> \o <<b>>)[i] = ab[i]
      BY <1>1, <2>1
  <2> QED BY <1>1, <2>1, <2>2, SeqEqual
<1>4. Append(<<a>>, b) = ab
  <2>1. /\ b \in S /\ Append(<<a>>, b) \in Seq(S) /\ Len(Append(<<a>>, b)) = 2
        /\ \A i \in 1..2 : Append(<<a>>, b)[i] = ab[i]
      BY <1>1 DEF S
  <2> QED BY <1>1, <2>1, SeqEqual
<1>5. Append(<<>>, b) = <<b>>
    OBVIOUS
<1>6. SubSeq(ab, 2, 2) = <<b>>
  <2>1. \A i \in 2..2 : ab[i] \in S
      BY <1>1 DEF S
  <2>2. /\ SubSeq(ab, 2, 2) \in Seq(S) /\ Len(SubSeq(ab, 2, 2)) = 1
        /\ \A i \in 1..(2 - 2 + 1) : SubSeq(ab, 2, 2)[i] = ab[2 + i - 1]
      BY <2>1, SubSeqProperties
  <2>3. \A i \in 1..1 : SubSeq(ab, 2, 2)[i] = <<b>>[i]
      BY <1>1, <2>2
  <2> DEFINE u == SubSeq(ab, 2, 2)
             v == <<b>>
  <2>4. u \in Seq(S) /\ v \in Seq(S) /\ Len(u) = Len(v) /\ \A i \in 1..Len(u) : u[i] = v[i]
      BY <1>1, <2>2, <2>3
  <2> HIDE DEF u, v
  <2>5. u = v
      BY <2>4, SeqEqual
  <2> QED BY <2>5 DEF u, v
<1>7. Tail(ab) = <<b>>
  <2>1. ab # <<>>
      BY <1>1, EmptySeq
  <2> QED BY <1>1, <1>6, <2>1, TailIsSubSeq
<1>8. Head(<<a>>) = a /\ Tail(<<a>>) = <<>> /\ Head(ab) = a
    BY <1>1 DEF ab
<1> QED BY <1>1, <1>2, <1>3, <1>4, <1>5, <1>6, <1>7, <1>8 DEF ab

\* The logs on their way.
Shape ==
    Queue = IF cs = "compact"
            THEN IF sending = NoJob THEN <<RangeOf(job)>> ELSE <<RangeOf(job), RangeOf(sending)>>
            ELSE IF sending = NoJob THEN <<>> ELSE <<RangeOf(sending)>>

\* They are at most two.
LEMMA QueueShape == Shape /\ Shape'
<1>1. ASSUME NEW c, NEW d, NEW a, NEW b
      PROVE  (IF c THEN <<a>> ELSE <<>>) \o (IF ~d THEN <<b>> ELSE <<>>)
             = IF c THEN IF d THEN <<a>> ELSE <<a, b>> ELSE IF d THEN <<>> ELSE <<b>>
  <2>1. CASE c
      BY <2>1, OneOrTwo
  <2>2. CASE ~c
      BY <2>2, OneOrTwo
  <2> QED BY <2>1, <2>2
<1>2. Shape
    BY <1>1 DEF Shape, Queue, RangeOf
<1>3. Shape'
    BY <1>1 DEF Shape, Queue, RangeOf
<1> QED BY <1>2, <1>3

\* A step that readers do not see.
LEMMA Unseen ==
    ASSUME UNCHANGED readVars, snaps' = snaps, Queue' = Queue
    PROVE  UNCHANGED Promise!logVars
    BY DEF readVars, Promise!logVars

\* The logs on their way are forgotten, if there are any.
LEMMA AbandonAll ==
    ASSUME UNCHANGED readVars, snaps' = snaps, Queue' = <<>>
    PROVE  [Promise!LogNext]_(Promise!logVars)
<1>1. CASE Queue = <<>>
    BY <1>1, Unseen
<1>2. CASE Queue # <<>>
  <2>1. Len(Queue) \in 1..Len(Queue) /\ SubSeq(Queue, Len(Queue) + 1, Len(Queue)) = <<>>
    <3> DEFINE q == Queue
               a == RangeOf(job)
               b == RangeOf(sending)
    <3>0. q = <<a>> \/ q = <<a, b>> \/ q = <<>> \/ q = <<b>>
        BY QueueShape DEF Shape
    <3> HIDE DEF a, b
    <3>1. q \in Seq({a, b})
      <4>1. <<a>> \in Seq({a, b}) /\ <<a, b>> \in Seq({a, b}) /\ <<>> \in Seq({a, b})
            /\ <<b>> \in Seq({a, b})
          OBVIOUS
      <4> HIDE DEF q
      <4> QED BY <3>0, <4>1
    <3> HIDE DEF q
    <3>2. Len(q) \in Nat /\ (q # <<>> => Len(q) >= 1)
        BY <3>1, EmptySeq
    <3>3. SubSeq(q, Len(q) + 1, Len(q)) = <<>>
        BY <3>1, <3>2
    <3> QED BY <1>2, <3>2, <3>3 DEF q
  <2>2. Promise!Abandon
      BY <2>1 DEF Promise!Abandon, readVars
  <2> QED BY <2>2 DEF Promise!LogNext
<1> QED BY <1>1, <1>2

\* The compactor gives up the log it works on.
LEMMA AbandonOne ==
    ASSUME UNCHANGED readVars, snaps' = snaps, sending' = sending, cs = "compact", cs' # "compact"
    PROVE  [Promise!LogNext]_(Promise!logVars)
<1> DEFINE a == RangeOf(job)
           b == RangeOf(sending)
<1>1. CASE sending = NoJob
  <2>1. Queue' = <<>>
      BY <1>1, QueueShape DEF Shape
  <2> QED BY <2>1, AbandonAll
<1>2. CASE sending # NoJob
  <2>1. Queue = <<a, b>> /\ Queue' = <<b>>
      BY <1>2, QueueShape DEF Shape, RangeOf
  <2> HIDE DEF a, b
  <2>2. SubSeq(<<a, b>>, 1 + 1, Len(<<a, b>>)) = <<b>>
      BY OneOrTwo
  <2>4. 1 \in 1..Len(<<a, b>>)
      OBVIOUS
  <2>3. Promise!Abandon
      BY <2>1, <2>2, <2>4 DEF Promise!Abandon, readVars
  <2> QED BY <2>3 DEF Promise!LogNext
<1> QED BY <1>1, <1>2

\* A transaction commits to the log and is announced.
LEMMA CommitStep ==
    ASSUME Inv, DInv, SInv, VInv, LogCommit \/ Notify
    PROVE  Promise!LogNext
<1> USE DEF compVars, mergeVars, diskVars
<1>0. /\ up /\ UNCHANGED <<dbid, gen, genStart, first, snaps, sending, cs, job>>
      /\ Queue' = Queue
    BY DEF LogCommit, Notify, Queue
<1>1. CASE Notify
  <2>1. top' = next /\ top < next /\ UNCHANGED <<hist, next, ver>>
      BY <1>1 DEF Notify, Inv, OnDisk, VInv, Announced
  <2>2. Promise!Publish
      BY <1>0, <2>1 DEF Promise!Publish
  <2> QED BY <2>2 DEF Promise!LogNext
<1>2. CASE LogCommit
  <2>1. /\ wr = "orig" /\ top' = top /\ top = next /\ unc > 0 /\ unc \in Nat /\ pushed \in Nat
        /\ first \in Nat /\ count \in Nat /\ next = first + count
        /\ pushed - unc \in Int
      BY <1>0, <1>2, Counts DEF LogCommit, VInv, Announced, DInv, Phases
  <2>2. PICK t : /\ CanFollow(hist, next, ver, t, pushed - unc) /\ Promise!TxnLen(t) = unc
                 /\ Written = Promise!Extend(hist, next, t, pushed - unc)
      BY <2>1, PendingTxn
  <2>3. hist' = Written /\ next' = next + unc
    <3>1. first + (count + unc) = next + unc
        BY <2>1
    <3> QED BY <1>2, <2>1, <3>1 DEF LogCommit, commit, Written
  <2>4. ver' = (pushed - unc) + unc
    <3> DEFINE k == count + unc - 1
    <3>1. k \in count..(count + unc - 1) /\ k = count + unc - 1
        BY <2>1
    <3>2. ver' = file[ino][k].data
      <4>1. ver' = file[ino][count' - 1].data /\ count' = count + unc
          BY <1>2 DEF LogCommit, commit
      <4>2. count' - 1 = k
          BY <2>1, <4>1
      <4> HIDE DEF k
      <4> QED BY <4>1, <4>2
    <3> HIDE DEF k
    <3>3. \E z : file[ino][k] = Frame(first + k, file[ino][k].page, z, pushed - unc + (k - count) + 1)
        BY <2>1, <3>1 DEF VInv, Transaction
    <3>4. file[ino][k].data = pushed - unc + (k - count) + 1
        BY <3>3 DEF Frame
    <3> QED BY <2>1, <3>1, <3>2, <3>4
  <2>5. Promise!Commit
    <3>1. /\ t \in Promise!Txns /\ pushed - unc \in ver..(ver + MaxVer)
          /\ Promise!Possible(t, Promise!SizeAt(hist, next))
          /\ (pushed - unc) + Promise!TxnLen(t) <= MaxVer
        BY <2>2, PromiseFrames DEF CanFollow
    <3>2. /\ next' = next + Promise!TxnLen(t) /\ ver' = (pushed - unc) + Promise!TxnLen(t)
          /\ hist' = Promise!Extend(hist, next, t, pushed - unc)
        BY <2>2, <2>3, <2>4
    <3> QED BY <1>0, <2>1, <3>1, <3>2 DEF Promise!Commit
  <2> QED BY <2>5 DEF Promise!LogNext
<1> QED BY <1>1, <1>2

\* The live log is swapped for an empty one.
LEMMA CompactStep ==
    ASSUME Policy, Inv, DInv, WriterCompact \/ PeriodicCompact
    PROVE  Promise!LogNext
<1> USE DEF compVars
<1>1. /\ count \in Nat /\ first \in Nat /\ next = first + count /\ MaxLogFrames \in Nat
      /\ sending = NoJob /\ ino \in Inodes
    BY Counts, PrimaryAssumption DEF Inv, Handover, WriterCompact, PeriodicCompact, TypeOK
<1>2. count > 0
  <2>1. Elapsed = {FALSE}
      BY DEF Policy, Setting, Elapsed
  <2> QED BY <1>1, <2>1 DEF WriterCompact, PeriodicCompact, should_compact
<1>3. /\ first' = next /\ \E p : sending' = Job(ino, first, count, p, NoName)
      /\ UNCHANGED <<dbid, gen, genStart, hist, next, top, ver, snaps, cs, job>>
    BY <1>1 DEF WriterCompact, PeriodicCompact, do_compaction
<1>4. sending' # NoJob /\ RangeOf(sending)' = <<first, next>>
    BY <1>1, <1>3 DEF Job, NoJob, RangeOf, Inodes, NoInode
<1>5. Queue' = Append(Queue, <<first, next>>)
  <2> DEFINE a == RangeOf(job)
             b == <<first, next>>
  <2>1. RangeOf(job)' = RangeOf(job)
      BY <1>3 DEF RangeOf
  <2>2. CASE cs = "compact"
    <3>1. Queue = <<a>> /\ Queue' = <<a, b>>
        BY <1>1, <1>3, <1>4, <2>1, <2>2, QueueShape DEF Shape
    <3> HIDE DEF a, b
    <3>2. Append(<<a>>, b) = <<a, b>>
        BY OneOrTwo
    <3> QED BY <3>1, <3>2 DEF b
  <2>3. CASE cs # "compact"
    <3>1. Queue = <<>> /\ Queue' = <<b>>
        BY <1>1, <1>3, <1>4, <2>3, QueueShape DEF Shape
    <3> HIDE DEF b
    <3>2. Append(<<>>, b) = <<b>>
        OBVIOUS
    <3> QED BY <3>1, <3>2 DEF b
  <2> QED BY <2>2, <2>3
<1>6. first < next
    BY <1>1, <1>2
<1>7. Promise!Compact
    BY <1>3, <1>5, <1>6 DEF Promise!Compact
<1> QED BY <1>7 DEF Promise!LogNext

\* The directory once a snapshot is written, for its readers.
LEMMA PersistRanges ==
    ASSUME Snapshots, NEW s \in Nat, NEW e \in Nat, NEW F, PersistSnapshot(s, e, F)
    PROVE  Ranges' = Ranges \cup {<<s, e + 1>>}
<1> DEFINE y == [s |-> s, e |-> e, frames |-> Newest(F)]
           kept == {x \in snaps : ~(x.s = s /\ x.e = e)}
<1>1. snaps' = kept \cup {y} /\ y.s = s /\ y.e = e
    BY DEF PersistSnapshot
<1> HIDE DEF y
<1>2. ASSUME NEW z PROVE z \in Ranges' <=> z \in Ranges \cup {<<s, e + 1>>}
  <2>1. z \in Ranges' <=> \E x \in snaps' : z = <<x.s, x.e + 1>>
      BY DEF Ranges
  <2>2. z \in Ranges <=> \E x \in snaps : z = <<x.s, x.e + 1>>
      BY DEF Ranges
  <2>3. ASSUME NEW x \in snaps, x \notin kept PROVE <<x.s, x.e + 1>> = <<s, e + 1>>
      BY <2>3
  <2>4. kept \subseteq snaps
      OBVIOUS
  <2> HIDE DEF kept
  <2> QED BY <1>1, <2>1, <2>2, <2>3, <2>4
<1> QED BY <1>2

\* The compactor takes a log, writes its snapshot, or fails.
LEMMA CompactorStep ==
    ASSUME Inv, SInv, GInv, next <= U64Max, Compactor
    PROVE  [Promise!LogNext]_(Promise!logVars)
<1> USE DEF diskVars, mergeVars
<1>1. CASE Receive
  <2>1. /\ sending' = NoJob /\ cs' = "compact" /\ job' = sending /\ cs = "recv" /\ sending # NoJob
        /\ UNCHANGED readVars /\ snaps' = snaps
      BY <1>1 DEF Receive
  <2>2. Queue' = Queue
      BY <2>1, QueueShape DEF Shape, RangeOf
  <2> QED BY <2>1, <2>2, Unseen
<1>2. CASE RegisterSnapshot \/ RemoveLog
  <2>1. /\ cs # "compact" /\ cs' # "compact" /\ sending' = sending /\ UNCHANGED readVars
        /\ snaps' = snaps
      BY <1>2 DEF RegisterSnapshot, RemoveLog
  <2>2. Queue' = Queue
      BY <2>1 DEF Queue
  <2> QED BY <2>1, <2>2, Unseen
<1>3. CASE CompactorFails \/ (PerformCompaction /\ cs' = "dead")
  <2>1. /\ cs \in {"compact", "callback"} /\ cs' = "dead" /\ sending' = sending
        /\ UNCHANGED readVars /\ snaps' = snaps
      BY <1>3 DEF CompactorFails, PerformCompaction, readVars
  <2>2. CASE cs = "compact"
      BY <2>1, <2>2, AbandonOne
  <2>3. CASE cs # "compact"
    <3>1. Queue' = Queue
        BY <2>1, <2>3 DEF Queue
    <3> QED BY <2>1, <3>1, Unseen
  <2> QED BY <2>2, <2>3
<1>4. CASE PerformCompaction /\ cs' # "dead"
  <2>1. PICK s, e, F :
              /\ s \in Nat /\ e \in Nat /\ PersistSnapshot(s, e, F) /\ cs' = "callback"
              /\ s = job.start /\ e + 1 = job.start + job.count
      BY <1>4, CompactedName
  <2>2. Ranges' = Ranges \cup {RangeOf(job)}
    <3>1. Ranges' = Ranges \cup {<<s, e + 1>>}
        BY <2>1, PersistRanges DEF SInv
    <3> QED BY <2>1, <3>1 DEF RangeOf
  <2>3. cs = "compact" /\ sending' = sending /\ UNCHANGED readVars
      BY <1>4 DEF PerformCompaction, readVars
  <2>4. Queue # <<>> /\ Head(Queue) = RangeOf(job) /\ Queue' = Tail(Queue)
    <3> DEFINE a == RangeOf(job)
               b == RangeOf(sending)
    <3>1. CASE sending = NoJob
      <4>1. Queue = <<a>> /\ Queue' = <<>>
          BY <2>1, <2>3, <3>1, QueueShape DEF Shape
      <4> HIDE DEF a
      <4>2. <<a>> # <<>> /\ Head(<<a>>) = a /\ Tail(<<a>>) = <<>>
          BY OneOrTwo
      <4> QED BY <4>1, <4>2 DEF a
    <3>2. CASE sending # NoJob
      <4>1. Queue = <<a, b>> /\ Queue' = <<b>>
          BY <2>1, <2>3, <3>2, QueueShape DEF Shape, RangeOf
      <4> HIDE DEF a, b
      <4>2. <<a, b>> # <<>> /\ Head(<<a, b>>) = a /\ Tail(<<a, b>>) = <<b>>
          BY OneOrTwo
      <4> QED BY <4>1, <4>2 DEF a
    <3> QED BY <3>1, <3>2
  <2>5. Promise!Persist
      BY <2>2, <2>3, <2>4 DEF Promise!Persist, readVars, Ranges
  <2> QED BY <2>5 DEF Promise!LogNext
<1> QED BY <1>1, <1>2, <1>3, <1>4 DEF Compactor

\* The merger writes a snapshot of neighbouring ones.
LEMMA MergeStep ==
    ASSUME Inv, SInv, GInv, MergeSnapshots
    PROVE  [Promise!LogNext]_(Promise!logVars)
<1> USE DEF compVars
<1> DEFINE frames == [i \in DOMAIN mlist |-> UNION {y.frames : y \in Files(mlist[i])}]
           F == UNION {frames[i] : i \in DOMAIN frames}
           k == Len(mlist)
           s == [i \in 1..k |-> mlist[i].s]
           e == [i \in 1..k |-> mlist[i].e]
           ok == (\A i \in DOMAIN mlist : Files(mlist[i]) # {}) /\ Descending(frames)
<1>0. ms = "merge" /\ UNCHANGED readVars /\ UNCHANGED <<sending, cs, job>> /\ Queue' = Queue
    BY DEF MergeSnapshots, Queue
<1>1. CASE ~ok
  <2>1. snaps' = snaps
      BY <1>1 DEF MergeSnapshots
  <2> QED BY <1>0, <2>1, Unseen
<1>2. CASE ok
  <2>1. PersistSnapshot(mlist[1].s, mlist[k].e, F)
      BY <1>2 DEF MergeSnapshots
  <2>2. mlist \in Seq(Name) /\ k \in Nat \ {0} /\ DOMAIN mlist = 1..k
      BY <1>0, EmptySeq DEF SInv, Linked, ListTypes
  <2>3. mlist[1].s = 0 /\ \A i, j \in 1..k : i < j => mlist[i].e < mlist[j].e
    <3> DEFINE fr == frames
               G == F
               b == mlist[k].e
    <3>1. Merging(fr, G, b)
        BY <1>0, <1>2 DEF Merging, SInv, Linked
    <3>2. mlist[1].s = 0 /\ \A i, j \in 1..Len(mlist) : i < j => mlist[i].e < mlist[j].e
      <4> HIDE DEF fr, G, b
      <4> QED BY <3>1, MergesAll
    <3> QED BY <3>2
  <2> HIDE DEF F
  <2>4. ASSUME NEW i \in 1..k
        PROVE  /\ s[i] \in Nat /\ e[i] \in Nat /\ s[i] = mlist[i].s /\ e[i] = mlist[i].e
               /\ <<s[i], e[i] + 1>> \in Ranges
    <3>1. mlist[i] \in Name
        BY <2>2, ElementOfSeq
    <3>2. s[i] = mlist[i].s /\ e[i] = mlist[i].e
        OBVIOUS
    <3>3. PICK y \in snaps : y.s = mlist[i].s /\ y.e = mlist[i].e
        BY <1>2, <2>2 DEF Files
    <3>4. <<y.s, y.e + 1>> \in Ranges
        BY DEF Ranges
    <3> HIDE DEF s, e, k
    <3> QED BY <3>1, <3>2, <3>3, <3>4 DEF Name
  <2>5. /\ s[1] = 0 /\ \A i \in 1..(k - 1) : s[i + 1] <= e[i] + 1
        /\ \A i, j \in 1..k : i < j => e[i] < e[j]
    <3>1. \A i \in 1..(k - 1) : mlist[i + 1].s <= mlist[i].e + 1
        BY DEF SInv, Linked
    <3>2. \A i \in 1..(k - 1) : i \in 1..k /\ i + 1 \in 1..k
        BY <2>2
    <3>3. 1 \in 1..k
        BY <2>2
    <3> QED BY <2>3, <2>4, <3>1, <3>2, <3>3
  <2>6. \A i \in 1..k : s[i] \in Nat /\ e[i] \in Nat /\ <<s[i], e[i] + 1>> \in Ranges
      BY <2>4
  <2>7. 1 \in 1..k /\ k \in 1..k /\ mlist[k].e = e[k]
      BY <2>2
  <2> HIDE DEF s, e, k, ok, frames
  <2>8. Ranges' = Ranges \cup {<<0, e[k] + 1>>}
    <3>1. PersistSnapshot(0, e[k], F)
        BY <2>1, <2>3, <2>7
    <3>2. e[k] \in Nat /\ 0 \in Nat
        BY <2>6, <2>7
    <3> QED BY <3>1, <3>2, PersistRanges DEF SInv
  <2> DEFINE q1 == <<s[1], e[1] + 1>>
             q2 == <<s[k], e[k] + 1>>
             r == <<q1[1], q2[2]>>
  <2>9. q1 \in Ranges /\ q2 \in Ranges /\ q1[1] = 0 /\ q2[2] = e[k] + 1 /\ q1[1] <= q2[1]
      BY <2>5, <2>6, <2>7
  <2>10. r[1] = 0 /\ r[2] = e[k] + 1 /\ r = <<0, e[k] + 1>>
      BY <2>9
  <2>11. Promise!Tiled(r)
    <3> SUFFICES ASSUME NEW f \in r[1]..(r[2] - 1)
                 PROVE  \E q \in Ranges : Promise!Within(q, r) /\ q[1] <= f /\ f < q[2]
        BY DEF Promise!Tiled, Ranges
    <3>0. \A i \in 1..k : s[i] \in Nat /\ e[i] \in Nat
        BY <2>6
    <3>1. f \in 0..e[k] /\ e[k] \in Nat
      <4> HIDE DEF r
      <4> QED BY <2>7, <2>10, <3>0
    <3>2. PICK i \in 1..k : f \in s[i]..e[i]
        BY <2>2, <2>5, <3>0, <3>1, NoHoles
    <3>3. e[i] <= e[k] /\ e[i] \in Nat /\ s[i] \in Nat /\ e[k] \in Nat
      <4>1. e[i] \in Nat /\ s[i] \in Nat /\ e[k] \in Nat /\ (i < k => e[i] < e[k])
          BY <2>5, <2>7, <3>0
      <4>2. i < k \/ i = k
          BY <2>2
      <4> QED BY <4>1, <4>2
    <3> DEFINE q == <<s[i], e[i] + 1>>
    <3>4. q \in Ranges /\ q[1] = s[i] /\ q[2] = e[i] + 1
        BY <2>6
    <3> HIDE DEF q, r
    <3>5. Promise!Within(q, r)
        BY <2>10, <3>3, <3>4 DEF Promise!Within
    <3> QED BY <3>2, <3>3, <3>4, <3>5
  <2>12. Promise!Merge
    <3>1. Ranges' = Ranges \cup {r}
        BY <2>8, <2>10
    <3> HIDE DEF q1, q2
    <3> QED BY <1>0, <2>9, <2>11, <3>1 DEF Promise!Merge, Ranges, readVars
  <2> QED BY <2>12 DEF Promise!LogNext
<1> QED BY <1>1, <1>2

\* The merger removes a file that it has merged.
LEMMA UnlinkStep ==
    ASSUME Inv, SInv, GInv, UnlinkMerged
    PROVE  [Promise!LogNext]_(Promise!logVars)
<1> USE DEF UnlinkMerged, compVars
<1>0. up /\ ms = "unlink" /\ UNCHANGED readVars /\ UNCHANGED <<sending, cs, job>> /\ Queue' = Queue
    BY DEF Queue
<1>1. PICK r \in snaps :
                /\ r.s = 0
                /\ \A i \in 1..Len(mleft) : mleft[i].e <= r.e /\ ~SameName(mleft[i], r)
    BY <1>0 DEF GInv, Unlinking
<1>2. /\ mleft \in Seq(Name) /\ Head(mleft) = mleft[1] /\ 1 \in 1..Len(mleft)
      /\ mleft[1] \in Name
  <2>1. mleft \in Seq(Name) /\ mleft # <<>>
      BY <1>0 DEF GInv, Unlinking
  <2> QED BY <2>1, EmptySeq, LastInSeq
<1> DEFINE h == mleft[1]
<1>3. h.s \in Nat /\ h.e \in Nat /\ h.e <= r.e /\ ~SameName(h, r) /\ r.e \in Nat
  <2>1. h.s \in Nat /\ h.e \in Nat
      BY <1>2 DEF Name
  <2>2. r.e \in Nat
      BY DEF SInv, Snapshots, Faithful
  <2> QED BY <1>1, <1>2, <2>1, <2>2
<1>4. snaps' = snaps \ Files(h)
    BY <1>2
<1> HIDE DEF h
<1>5. CASE Files(h) = {}
  <2>1. snaps' = snaps
      BY <1>4, <1>5
  <2> QED BY <1>0, <2>1, Unseen
<1>6. CASE Files(h) # {}
  <2> DEFINE a == <<h.s, h.e + 1>>
             q == <<r.s, r.e + 1>>
  <2>1. a[1] = h.s /\ a[2] = h.e + 1 /\ q[1] = 0 /\ q[2] = r.e + 1 /\ q \in Ranges
      BY <1>1 DEF Ranges
  <2>2. a \in Ranges
    <3>1. PICK y \in snaps : y.s = h.s /\ y.e = h.e
        BY <1>6 DEF Files
    <3>2. <<y.s, y.e + 1>> \in Ranges
        BY DEF Ranges
    <3> QED BY <3>1, <3>2
  <2>3. a # q
      BY <1>1, <1>3, <2>1 DEF SameName
  <2>4. Promise!Within(a, q)
    <3> HIDE DEF a, q
    <3> QED BY <1>3, <2>1 DEF Promise!Within
  <2>5. Ranges' = Ranges \ {a}
    <3>1. ASSUME NEW z PROVE z \in Ranges' <=> z \in Ranges \ {a}
      <4>1. z \in Ranges' <=> \E x \in snaps' : z = <<x.s, x.e + 1>>
          BY DEF Ranges
      <4>2. z \in Ranges <=> \E x \in snaps : z = <<x.s, x.e + 1>>
          BY DEF Ranges
      <4>3. ASSUME NEW x \in snaps PROVE x \in snaps' <=> <<x.s, x.e + 1>> # a
        <5>1. x.s \in Nat /\ x.e \in Nat
            BY DEF SInv, Snapshots, Faithful
        <5>2. <<x.s, x.e + 1>> = a <=> (x.s = h.s /\ x.e + 1 = h.e + 1)
            OBVIOUS
        <5>3. x \in Files(h) <=> (x.s = h.s /\ x.e = h.e)
            BY DEF Files
        <5> QED BY <1>3, <1>4, <5>1, <5>2, <5>3
      <4>4. snaps' \subseteq snaps
          BY <1>4
      <4> HIDE DEF a
      <4> QED BY <4>1, <4>2, <4>3, <4>4
    <3> QED BY <3>1
  <2>6. Promise!Unlink
    <3> HIDE DEF a, q
    <3> QED BY <1>0, <2>1, <2>2, <2>3, <2>4, <2>5 DEF Promise!Unlink, Ranges, readVars
  <2> QED BY <2>6 DEF Promise!LogNext
<1> QED BY <1>5, <1>6

\* The log is rebuilt from the database.
LEMMA RecoverStep ==
    ASSUME Inv, DInv, SInv, VInv, RecoverLog
    PROVE  Promise!LogNext
<1> USE DEF RecoverLog
<1>1. PICK n \in 0..MaxPage :
              /\ DOMAIN db = 1..n /\ next' = n /\ top' = n /\ hist' = Dump(db)
              /\ DOMAIN hist' = 0..(n - 1) /\ SizeAt(hist', n) = n
              /\ ver' = Max({0} \cup {db[q] : q \in DOMAIN db})
    BY RecoveredLog
<1>2. Promise!Cardinality(DOMAIN hist') = n
  <2>1. n \in Nat /\ 0 \in Int /\ n - 1 \in Int
      BY Constants
  <2>2. Cardinality(0..(n - 1)) = IF 0 > n - 1 THEN 0 ELSE (n - 1) - 0 + 1
      BY <2>1, FS_Interval, Zenon
  <2>3. Cardinality(0..(n - 1)) = n
      BY <2>1, <2>2
  <2> QED BY <1>1, <2>3, PromiseFrames
<1>3. /\ gen < MaxRestarts /\ dbid' = dbid + 1 /\ gen' = gen + 1 /\ genStart' = next'
      /\ first' = 0 /\ next' = n /\ top' = n /\ ~up
      /\ {<<x.s, x.e + 1>> : x \in snaps}' = {}
    BY <1>1
<1>4. Queue' = <<>>
  <2>1. cs' = "recv" /\ sending' = NoJob
      BY DEF SInv, Down, compVars
  <2> QED BY <2>1, QueueShape DEF Shape
<1>5. CASE Describes(hist, next, db) /\ IsNewest(ver, db)
  <2>1. ver' = ver
      BY <1>1, <1>5, NewestIsMax
  <2>2. db = DbAt(hist, next) /\ next \in Nat
      BY <1>5, Counts, DescribesDbAt
  <2>3. hist' = Promise!Dump(Promise!DbAt(hist, next))
      BY <1>1, <2>2, PromiseFrames
  <2>4. Promise!Recover
      BY <1>2, <1>3, <1>4, <2>1, <2>3 DEF Promise!Recover
  <2> QED BY <2>4 DEF Promise!LogNext
<1>6. CASE top = next /\ OneMore(hist, next, ver, pushed, db)
  <2>1. PICK t, d : /\ CanFollow(hist, next, ver, t, d)
                    /\ db = DbAt(Promise!Extend(hist, next, t, d), next + Promise!TxnLen(t))
                    /\ IsNewest(d + Promise!TxnLen(t), db)
      BY <1>6 DEF OneMore
  <2>2. ver' = d + Promise!TxnLen(t)
      BY <1>1, <2>1, NewestIsMax
  <2>3. hist' = Promise!Dump(Promise!DbAt(Promise!Extend(hist, next, t, d), next + Promise!TxnLen(t)))
      BY <1>1, <2>1, PromiseFrames
  <2>4. /\ t \in Promise!Txns /\ d \in ver..(ver + MaxVer)
        /\ Promise!Possible(t, Promise!SizeAt(hist, next)) /\ d + Promise!TxnLen(t) <= MaxVer
      BY <2>1, PromiseFrames DEF CanFollow
  <2>5. Promise!Recover
      BY <1>2, <1>3, <1>4, <1>6, <2>2, <2>3, <2>4 DEF Promise!Recover
  <2> QED BY <2>5 DEF Promise!LogNext
<1> QED BY <1>3, <1>5, <1>6 DEF VInv, Recoverable

\* Every step is one that the promise allows, or none.
LEMMA NextStep ==
    ASSUME Policy, next <= U64Max, PInv, [Next]_vars
    PROVE  [Promise!LogNext]_(Promise!logVars)
<1> USE DEF PInv
<1>1. CASE LogCommit \/ Notify \/ WriterCompact \/ PeriodicCompact
    BY <1>1, CommitStep, CompactStep
<1>2. CASE Compactor
    BY <1>2, CompactorStep
<1>3. CASE MergeSnapshots \/ UnlinkMerged
    BY <1>3, MergeStep, UnlinkStep
<1>4. CASE Kill \/ SendFails
  <2>1. /\ UNCHANGED readVars /\ snaps' = snaps /\ sending' = NoJob /\ cs' # "compact"
      BY <1>4 DEF Kill, SendFails, Die, diskVars, compVars
  <2>2. Queue' = <<>>
      BY <2>1, QueueShape DEF Shape
  <2> QED BY <2>1, <2>2, AbandonAll
<1>5. CASE RecoverLog
    BY <1>5, RecoverStep
<1>6. CASE \/ OnFramesSpill \/ OnFramesFlush \/ OnFramesFlushFails \/ OrigFrames
           \/ OrigFramesFails \/ OnUndo \/ WriterNoCompact \/ MergerInit \/ MergerReceive
           \/ Idle \/ UNCHANGED vars
  <2>1. UNCHANGED readVars /\ snaps' = snaps /\ UNCHANGED <<sending, cs, job>>
      BY <1>6 DEF OnFramesSpill, OnFramesFlush, OnFramesFlushFails, OrigFrames,
                  OrigFramesFails, OnUndo, WriterNoCompact, MergerInit, MergerReceive,
                  Idle, vars, primVars, diskVars, compVars
  <2>2. Queue' = Queue
      BY <2>1 DEF Queue
  <2> QED BY <2>1, <2>2, Unseen
<1> QED BY <1>1, <1>2, <1>3, <1>4, <1>5, <1>6, NoShutdown DEF Next, Writer, Merger, Process

\* The primary keeps its promise to the readers of its log: on what they see, every step
\* of a connection, a thread, a crash or a recovery is a step of FrameLog, or none.
THEOREM PrimaryImplementsFrameLog ==
    Policy /\ Spec /\ [](next <= U64Max) => ImplementsFrameLog
<1> SUFFICES ASSUME Policy PROVE Spec /\ [](next <= U64Max) => ImplementsFrameLog
    OBVIOUS
<1>1. Init => Promise!LogInit
  <2> SUFFICES ASSUME Init PROVE Promise!LogInit
      OBVIOUS
  <2>1. Queue = <<>>
      BY QueueShape DEF Shape, Init
  <2> QED BY <2>1 DEF Init, Promise!LogInit
<1>2. next <= U64Max /\ PInv /\ [Next]_vars => [Promise!LogNext]_(Promise!logVars)
    BY NextStep
<1>3. Spec /\ [](next <= U64Max) => []PInv
    BY PInvHolds
<1> QED BY <1>1, <1>2, <1>3, PTL DEF Spec, ImplementsFrameLog, Promise!LogSpec

=============================================================================
