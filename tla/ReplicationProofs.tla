-------------------------- MODULE ReplicationProofs --------------------------
(***************************************************************************)
(* A replica never mixes two databases: every page it shows is a content   *)
(* that page had in the database it follows.                               *)
(*                                                                         *)
(* Frames are on their way in four places (the buffer of the replicator,   *)
(* its channel, the batch and the uncommitted pages of the injector), and  *)
(* the primary may rebuild its log while they are. What keeps the          *)
(* databases apart is the id that the replica keeps for as long as it has  *)
(* anything of it (OneDatabase, Started), that is on file before the first *)
(* page is committed (Recorded), and that is never given a second time     *)
(* (Ids).                                                                  *)
(***************************************************************************)
EXTENDS Replication, Extremes, SequenceTheorems, FiniteSetTheorems

\* Frames of a log, and of a batch.
LogFrame == [no : Nat, page : Pages, size : 0..MaxPage, data : Nat]
BatchFrame == [no : 0..(FrameNoMax - 1), page : Pages, size : 0..MaxPage, data : Nat]

-----------------------------------------------------------------------------
(* The invariant of the log. *)

\* A log of n frames: they have their numbers, and every page of the database that the
\* last one leaves has been written.
LogOK(h, n) ==
    /\ n \in Nat /\ DOMAIN h = 0..(n - 1)
    /\ \A f \in 0..(n - 1) : h[f] \in LogFrame /\ h[f].no = f
    /\ \A p \in 1..SizeAt(h, n) : \E f \in 0..(n - 1) : h[f].page = p

\* Logs that were swapped out and snapshots lie within the log.
RangesOK ==
    /\ queue \in Seq(Nat \X Nat) /\ \A i \in 1..Len(queue) : queue[i][2] <= next
    /\ files \subseteq Nat \X Nat /\ \A r \in files : r[2] <= next

\* What a primary promises, and its frame numbers stay below FrameNo::MAX.
LogInv ==
    /\ LogOK(hist, next) /\ RangesOK
    /\ ver \in 0..MaxVer /\ next <= MaxPage + ver
    /\ dbid \in Nat /\ gen \in Nat /\ genStart \in Nat /\ first \in Nat /\ top \in Nat

-----------------------------------------------------------------------------
(* The invariant of the replica. *)

\* What is on its way are frames.
BatchTypes ==
    /\ buf \in Seq(BatchFrame) /\ batch \in Seq(BatchFrame)
    /\ chan # <<>> => chan[1] \in Seq(BatchFrame)
    /\ DOMAIN pend \subseteq Pages

\* Ids of databases are never given twice.
Ids ==
    /\ mfile # NoMeta => mfile.db <= dbid
    /\ meta # NoMeta => meta.db <= dbid

\* The process and the disk of a replica agree on the database.
OneDatabase == meta # NoMeta /\ mfile # NoMeta => meta.db = mfile.db

\* Before the handshake nothing is on its way.
Started ==
    meta = NoMeta =>
        /\ buf = <<>> /\ chan = <<>> /\ batch = <<>> /\ DOMAIN pend = {} /\ inj = "idle"
        /\ rp \in {"handshake", "incompatible", "lagging"}

\* A transaction is committed only after its database is on file.
Recorded ==
    /\ inj \in {"write", "post"} /\ size_after(batch) # 0 => mfile # NoMeta
    /\ mfile = NoMeta => DOMAIN rdb = {}

\* The frame x, and the content d of page p, are in a log h of n frames.
HasFrame(h, n, x) == \E f \in 0..(n - 1) : h[f] = x
HasPage(h, n, p, d) == \E f \in 0..(n - 1) : h[f].page = p /\ h[f].data = d
InLog(x) == HasFrame(hist, next, x)
Held(p, d) == HasPage(hist, next, p, d)

\* What is on its way is in the log of the database the replica follows.
Follows ==
    SameDatabase =>
        /\ \A i \in 1..Len(buf) : InLog(buf[i])
        /\ \A i \in 1..Len(batch) : InLog(batch[i])
        /\ chan # <<>> => \A i \in 1..Len(chan[1]) : InLog(chan[1][i])
        /\ \A p \in DOMAIN pend : Held(p, pend[p])

\* What the replica has committed is in the log of the database on file.
Committed ==
    mfile # NoMeta /\ mfile.db = dbid =>
        \A p \in DOMAIN rdb : rdb[p] = Hole \/ Held(p, rdb[p])

\* The inductive invariant.
PInv ==
    /\ LogInv /\ TypeOK /\ BatchTypes /\ Ids /\ OneDatabase /\ Started /\ Recorded
    /\ Follows /\ Committed

-----------------------------------------------------------------------------
(* The log. *)

\* The types of the constants.
LEMMA Constants ==
    /\ MaxPage \in Nat \ {0} /\ MaxTxnLen \in Nat \ {0} /\ MaxVer \in Nat /\ MaxSkip \in Nat
    /\ MaxPage + MaxVer < FrameNoMax /\ FrameNoMax \in Nat
    BY FramesAssumption, FrameLogAssumption, ReplicationAssumption DEF FrameNoMax

\* The size of the database a log describes.
LEMMA SizeOK ==
    ASSUME NEW h, NEW n, LogOK(h, n)
    PROVE  SizeAt(h, n) \in 0..MaxPage
<1>1. CASE n = 0
    BY <1>1, Constants DEF SizeAt
<1>2. CASE n # 0
  <2>1. n - 1 \in 0..(n - 1)
      BY <1>2 DEF LogOK
  <2> QED BY <1>2, <2>1 DEF SizeAt, LogOK, LogFrame
<1> QED BY <1>1, <1>2

\* The number of elements of 1..n and of 0..(n - 1).
LEMMA Interval ==
    ASSUME NEW n \in Nat
    PROVE  Cardinality(1..n) = n /\ Cardinality(0..(n - 1)) = n
<1>1. 1 \in Int /\ n \in Int /\ 0 \in Int /\ n - 1 \in Int
    OBVIOUS
<1>2. Cardinality(1..n) = IF 1 > n THEN 0 ELSE n - 1 + 1
    BY <1>1, FS_Interval, Zenon
<1>3. Cardinality(0..(n - 1)) = IF 0 > (n - 1) THEN 0 ELSE (n - 1) - 0 + 1
    BY <1>1, FS_Interval, Zenon
<1> QED BY <1>2, <1>3

\* The length of a transaction.
LEMMA TxnLength ==
    ASSUME NEW t \in Txns
    PROVE  /\ TxnLen(t) \in Nat \ {0} /\ t.size \in Pages
           /\ t.pages \in [1..TxnLen(t) -> Pages]
<1>1. PICK n \in 1..MaxTxnLen : t.pages \in [1..n -> Pages]
    BY DEF Txns
<1>2. TxnLen(t) = n
    BY <1>1, Interval, Constants DEF TxnLen
<1> QED BY <1>1, <1>2, Constants DEF Txns

\* The parts of a frame.
LEMMA FrameParts ==
    ASSUME NEW f, NEW p, NEW s, NEW d
    PROVE  /\ Frame(f, p, s, d).no = f /\ Frame(f, p, s, d).page = p
           /\ Frame(f, p, s, d).size = s /\ Frame(f, p, s, d).data = d
           /\ f \in Nat /\ p \in Pages /\ s \in 0..MaxPage /\ d \in Nat
              => Frame(f, p, s, d) \in LogFrame
    BY DEF Frame, LogFrame

\* A transaction makes a longer log.
LEMMA ExtendOK ==
    ASSUME NEW h, NEW n, LogOK(h, n), NEW t \in Txns, NEW d \in Nat, Possible(t, SizeAt(h, n))
    PROVE  /\ LogOK(Extend(h, n, t, d), n + TxnLen(t))
           /\ \A f \in 0..(n - 1) : Extend(h, n, t, d)[f] = h[f]
<1> DEFINE l == TxnLen(t)
           m == n + l
           g == Extend(h, n, t, d)
<1>1. /\ l \in Nat \ {0} /\ t.size \in Pages /\ t.pages \in [1..l -> Pages]
      /\ n \in Nat /\ m \in Nat /\ n < m /\ n + (l - 1) = m - 1
    BY TxnLength DEF LogOK
<1>2. g = [f \in 0..(m - 1) |->
              IF f < n THEN h[f]
              ELSE Frame(f, t.pages[(f - n) + 1],
                         IF f = m - 1 THEN t.size ELSE 0,
                         (d + (f - n)) + 1)]
  <2>1. n + TxnLen(t) - 1 = m - 1
      BY <1>1
  <2> QED BY <2>1, Zenon DEF Extend
<1> DEFINE page(f) == t.pages[(f - n) + 1]
           size(f) == IF f = m - 1 THEN t.size ELSE 0
           data(f) == (d + (f - n)) + 1
<1> HIDE DEF g, m, l
<1>3. DOMAIN g = 0..(m - 1)
    BY <1>2
<1>4. ASSUME NEW f \in 0..(n - 1) PROVE g[f] = h[f]
    BY <1>1, <1>2
<1>5. ASSUME NEW f \in n..(m - 1)
      PROVE  /\ g[f] \in LogFrame /\ g[f].no = f /\ g[f].page = page(f)
             /\ g[f].size = size(f)
  <2>1. (f - n) + 1 \in 1..l /\ f \in 0..(m - 1) /\ ~(f < n) /\ f \in Nat
      BY <1>1
  <2>2. g[f] = Frame(f, page(f), size(f), data(f))
      BY <1>2, <2>1
  <2>3. page(f) \in Pages
      BY <1>1, <2>1
  <2>4. size(f) \in 0..MaxPage
      BY <1>1, Constants DEF Pages
  <2>5. data(f) \in Nat
      BY <1>1
  <2> HIDE DEF page, size, data
  <2> QED BY <2>1, <2>2, <2>3, <2>4, <2>5, FrameParts
<1>6. ASSUME NEW f \in 0..(m - 1) PROVE g[f] \in LogFrame /\ g[f].no = f
  <2>1. CASE f < n
      BY <1>1, <1>4, <2>1 DEF LogOK
  <2>2. CASE ~(f < n)
    <3>1. f \in n..(m - 1)
        BY <1>1, <2>2
    <3> QED BY <1>5, <3>1
  <2> QED BY <2>1, <2>2
<1>7. SizeAt(g, m) = t.size
  <2>1. m - 1 \in n..(m - 1) /\ m # 0
      BY <1>1
  <2>2. g[m - 1].size = t.size
      BY <1>5, <2>1
  <2> QED BY <2>1, <2>2 DEF SizeAt
<1>8. ASSUME NEW p \in 1..t.size PROVE \E f \in 0..(m - 1) : g[f].page = p
  <2>1. CASE p \in 1..SizeAt(h, n)
    <3>1. PICK f \in 0..(n - 1) : h[f].page = p
        BY <2>1 DEF LogOK
    <3> QED BY <1>1, <1>4, <3>1
  <2>2. CASE p \notin 1..SizeAt(h, n)
    <3>1. p \in (SizeAt(h, n) + 1)..t.size
        BY <1>1, <2>2, SizeOK, Constants DEF Pages
    <3>2. PICK i \in 1..l : t.pages[i] = p
        BY <1>1, <3>1 DEF Possible, Touched
    <3> DEFINE f == n + (i - 1)
    <3>3. f \in n..(m - 1) /\ (f - n) + 1 = i /\ f \in 0..(m - 1)
        BY <1>1
    <3> HIDE DEF f
    <3>4. g[f].page = t.pages[i]
        BY <1>5, <3>3
    <3> QED BY <3>2, <3>3, <3>4
  <2> QED BY <2>1, <2>2
<1>9. LogOK(g, m)
    BY <1>1, <1>3, <1>6, <1>7, <1>8 DEF LogOK
<1> QED BY <1>4, <1>9 DEF g, m, l

\* The contents of a described database are numbers.
LEMMA DbAtOK ==
    ASSUME NEW h, NEW n, LogOK(h, n), NEW p \in 1..SizeAt(h, n)
    PROVE  DbAt(h, n)[p] \in Nat
<1> DEFINE S == {f \in 0..(n - 1) : h[f].page = p}
<1>1. S # {} /\ S \subseteq 0..(n - 1)
    BY DEF LogOK
<1>2. n - 1 \in Nat
    BY <1>1 DEF LogOK
<1>3. Max(S) \in S
  <2>1. \E m \in S : \A z \in S : m >= z
    <3> HIDE DEF S
    <3> QED BY <1>1, <1>2, GreatestBelow
  <2> HIDE DEF S
  <2> QED BY <2>1, Zenon DEF Max
<1>4. h[Max(S)].data \in Nat
    BY <1>3 DEF LogOK, LogFrame
<1> QED BY <1>4 DEF DbAt

\* The log that is rebuilt from a database.
LEMMA DumpOK ==
    ASSUME NEW h, NEW n, LogOK(h, n), NEW g, g = Dump(DbAt(h, n))
    PROVE  /\ Cardinality(DOMAIN g) \in 0..MaxPage
           /\ LogOK(g, Cardinality(DOMAIN g))
<1> DEFINE d == DbAt(h, n)
           s == SizeAt(h, n)
<1>1. s \in 0..MaxPage /\ s \in Nat
    BY SizeOK, Constants
<1>2. DOMAIN d = 1..s
    BY DEF DbAt
<1>3. Cardinality(DOMAIN d) = s
  <2> HIDE DEF s, d
  <2> QED BY <1>1, <1>2, Interval
<1>4. ASSUME NEW f \in 0..(s - 1) PROVE d[f + 1] \in Nat
  <2>1. f + 1 \in 1..s
      BY <1>1
  <2> QED BY <2>1, DbAtOK
<1> HIDE DEF d, s
<1>5. g = [f \in 0..(s - 1) |-> Frame(f, f + 1, IF f = s - 1 THEN s ELSE 0, d[f + 1])]
    BY <1>3 DEF Dump, d
<1>6. DOMAIN g = 0..(s - 1) /\ Cardinality(DOMAIN g) = s
  <2>1. DOMAIN g = 0..(s - 1)
      BY <1>5
  <2> QED BY <1>1, <2>1, Interval
<1>7. ASSUME NEW f \in 0..(s - 1)
      PROVE  /\ g[f] \in LogFrame /\ g[f].no = f /\ g[f].page = f + 1
             /\ g[f].size = IF f = s - 1 THEN s ELSE 0
  <2>1. g[f] = Frame(f, f + 1, IF f = s - 1 THEN s ELSE 0, d[f + 1])
      BY <1>5
  <2>2. f \in Nat /\ f + 1 \in Pages /\ (IF f = s - 1 THEN s ELSE 0) \in 0..MaxPage
      BY <1>1, Constants DEF Pages
  <2> QED BY <1>4, <2>1, <2>2 DEF Frame, LogFrame
<1>8. SizeAt(g, s) = s
    BY <1>1, <1>7 DEF SizeAt
<1>9. ASSUME NEW p \in 1..s PROVE \E f \in 0..(s - 1) : g[f].page = p
  <2>1. p - 1 \in 0..(s - 1) /\ (p - 1) + 1 = p
      BY <1>1
  <2> QED BY <1>7, <2>1
<1> QED BY <1>1, <1>6, <1>7, <1>8, <1>9 DEF LogOK

\* A step of the log that keeps it: what was in it stays.
Kept == next <= next' /\ \A f \in 0..(next - 1) : hist'[f] = hist[f]

\* A transaction is appended.
LEMMA CommitLog ==
    ASSUME LogInv, Commit
    PROVE  LogInv' /\ dbid' = dbid /\ Kept
<1>1. PICK t \in Txns, d \in ver..(ver + MaxSkip) :
        /\ Possible(t, SizeAt(hist, next))
        /\ d + TxnLen(t) <= MaxVer
        /\ next' = next + TxnLen(t)
        /\ ver' = d + TxnLen(t)
        /\ hist' = Extend(hist, next, t, d)
    BY DEF Commit
<1>2. d \in Nat /\ ver <= d
    BY Constants DEF LogInv
<1>3. LogOK(hist', next') /\ \A f \in 0..(next - 1) : hist'[f] = hist[f]
    BY <1>1, <1>2, ExtendOK DEF LogInv
<1>4. /\ next \in Nat /\ TxnLen(t) \in Nat /\ ver \in Nat /\ next <= MaxPage + ver
      /\ MaxPage \in Nat /\ MaxVer \in Nat
    BY TxnLength, Constants DEF LogInv, LogOK
<1>5. next <= next' /\ ver' \in 0..MaxVer /\ next' <= MaxPage + ver'
    BY <1>1, <1>2, <1>4
<1>6. RangesOK'
  <2>1. /\ queue' = queue /\ files' = files
        /\ \A x \in Nat : x <= next => x <= next'
      BY <1>1, <1>4, <1>5 DEF Commit
  <2>2. \A i \in 1..Len(queue) : queue[i] \in Nat \X Nat
      BY ElementOfSeq DEF LogInv, RangesOK
  <2>3. \A i \in 1..Len(queue) : queue[i][2] \in Nat /\ queue[i][2] <= next
      BY <2>2 DEF LogInv, RangesOK
  <2>4. \A r \in files : r[2] \in Nat /\ r[2] <= next
      BY DEF LogInv, RangesOK
  <2> QED BY <2>1, <2>3, <2>4 DEF LogInv, RangesOK
<1>7. UNCHANGED <<dbid, gen, genStart, first, top>>
    BY DEF Commit
<1> QED BY <1>3, <1>5, <1>6, <1>7 DEF LogInv, Kept

\* The live log is swapped, compacted, merged; or the primary starts again with its log.
LEMMA KeepLog ==
    ASSUME LogInv, Publish \/ Compact \/ Persist \/ Merge \/ Unlink \/ CleanRestart
    PROVE  LogInv' /\ dbid' = dbid /\ Kept
<1>1. /\ hist' = hist /\ next' = next /\ ver' = ver /\ dbid' = dbid
      /\ next \in Nat /\ first \in Nat /\ gen \in Nat
      /\ queue \in Seq(Nat \X Nat) /\ files \subseteq Nat \X Nat
    BY DEF LogInv, LogOK, RangesOK, Publish, Compact, Persist, Merge, Unlink, CleanRestart
<1>2. gen' \in Nat /\ genStart' \in Nat /\ first' \in Nat /\ top' \in Nat
  <2>1. genStart \in Nat /\ top \in Nat
      BY DEF LogInv
  <2>2. CASE Publish
      BY <1>1, <2>1, <2>2 DEF Publish
  <2>3. CASE Compact
      BY <1>1, <2>1, <2>3 DEF Compact
  <2>4. CASE Persist \/ Merge \/ Unlink
      BY <1>1, <2>1, <2>4 DEF Persist, Merge, Unlink
  <2>5. CASE CleanRestart
      BY <1>1, <2>1, <2>5 DEF CleanRestart
  <2> QED BY <2>2, <2>3, <2>4, <2>5
<1>3. RangesOK'
  <2>1. CASE UNCHANGED <<queue, files>>
      BY <1>1, <2>1 DEF LogInv, RangesOK
  <2>2. CASE Compact
    <3>1. queue' = Append(queue, <<first, next>>) /\ files' = files
        BY <2>2 DEF Compact
    <3>2. <<first, next>> \in Nat \X Nat
        BY <1>1
    <3>3. /\ queue' \in Seq(Nat \X Nat) /\ Len(queue') = Len(queue) + 1
          /\ \A i \in 1..Len(queue) : queue'[i] = queue[i]
          /\ queue'[Len(queue) + 1] = <<first, next>>
        BY <1>1, <3>1, <3>2, AppendProperties
    <3>4. ASSUME NEW i \in 1..Len(queue') PROVE queue'[i][2] <= next
      <4>1. CASE i \in 1..Len(queue)
          BY <3>3, <4>1 DEF LogInv, RangesOK
      <4>2. CASE i = Len(queue) + 1
          BY <1>1, <3>3, <4>2
      <4> QED BY <1>1, <3>3, <4>1, <4>2, LenProperties
    <3> QED BY <1>1, <3>1, <3>3, <3>4 DEF LogInv, RangesOK
  <2>3. CASE Persist
    <3>1. queue # <<>> /\ queue' = Tail(queue) /\ files' = files \cup {Head(queue)}
        BY <2>3 DEF Persist
    <3>2. /\ Head(queue) \in Nat \X Nat /\ Head(queue) = queue[1] /\ Len(queue) \in Nat \ {0}
          /\ Tail(queue) \in Seq(Nat \X Nat) /\ Len(Tail(queue)) = Len(queue) - 1
          /\ \A i \in 1..Len(Tail(queue)) : Tail(queue)[i] = queue[i + 1]
        BY <1>1, <3>1, HeadTailProperties, EmptySeq, LenProperties
    <3>3. Head(queue)[2] <= next
        BY <3>2 DEF LogInv, RangesOK
    <3>4. ASSUME NEW i \in 1..Len(Tail(queue)) PROVE Tail(queue)[i][2] <= next
      <4>1. i + 1 \in 1..Len(queue)
          BY <3>2
      <4> QED BY <3>2, <4>1 DEF LogInv, RangesOK
    <3> QED BY <1>1, <3>1, <3>2, <3>3, <3>4 DEF LogInv, RangesOK
  <2>4. CASE Merge
    <3>1. PICK q1, q2 \in files : files' = files \cup {<<q1[1], q2[2]>>}
        BY <2>4 DEF Merge
    <3>2. <<q1[1], q2[2]>> \in Nat \X Nat /\ <<q1[1], q2[2]>>[2] <= next
        BY <1>1, <3>1 DEF LogInv, RangesOK
    <3>3. queue' = queue
        BY <2>4 DEF Merge
    <3> QED BY <1>1, <3>1, <3>2, <3>3 DEF LogInv, RangesOK
  <2>5. CASE Unlink
    <3>1. files' \subseteq files /\ queue' = queue
        BY <2>5 DEF Unlink
    <3> QED BY <1>1, <3>1 DEF LogInv, RangesOK
  <2> QED BY <2>1, <2>2, <2>3, <2>4, <2>5 DEF Publish, CleanRestart
<1> QED BY <1>1, <1>2, <1>3 DEF LogInv, Kept

\* The log is rebuilt: a database with an id of its own.
LEMMA RecoverLog ==
    ASSUME LogInv, Recover
    PROVE  LogInv' /\ dbid' = dbid + 1
<1>1. next' = Cardinality(DOMAIN hist')
    BY DEF Recover
<1>2. /\ LogOK(hist', next') /\ next' \in 0..MaxPage
      /\ ver' \in 0..MaxVer
  <2>1. CASE hist' = Dump(DbAt(hist, next)) /\ ver' = ver
      BY <1>1, <2>1, DumpOK DEF LogInv
  <2>2. ASSUME NEW t \in Txns, NEW d \in ver..(ver + MaxSkip),
               Possible(t, SizeAt(hist, next)),
               d + TxnLen(t) <= MaxVer,
               hist' = Dump(DbAt(Extend(hist, next, t, d), next + TxnLen(t))),
               ver' = d + TxnLen(t)
        PROVE  LogOK(hist', next') /\ next' \in 0..MaxPage /\ ver' \in 0..MaxVer
    <3>1. d \in Nat
        BY Constants DEF LogInv
    <3>2. LogOK(Extend(hist, next, t, d), next + TxnLen(t))
        BY <2>2, <3>1, ExtendOK DEF LogInv
    <3>3. LogOK(hist', next') /\ next' \in 0..MaxPage
        BY <1>1, <2>2, <3>2, DumpOK
    <3>4. ver' \in 0..MaxVer
        BY <2>2, <3>1, TxnLength, Constants
    <3> QED BY <3>3, <3>4
  <2> QED BY <2>1, <2>2 DEF Recover
<1>3. next' <= MaxPage + ver'
  <2>1. next' \in Nat /\ next' <= MaxPage /\ ver' \in Nat /\ MaxPage \in Nat
      BY <1>2, Constants
  <2>2. \A x, y, z \in Nat : x <= y => x <= y + z
      OBVIOUS
  <2> QED BY <2>1, <2>2
<1>4. dbid' \in Nat /\ gen' \in Nat /\ genStart' \in Nat /\ first' \in Nat /\ top' \in Nat
    BY <1>2 DEF LogInv, LogOK, Recover
<1>5. RangesOK'
    BY DEF RangesOK, Recover
<1> QED BY <1>2, <1>3, <1>4, <1>5 DEF LogInv, Recover

-----------------------------------------------------------------------------
(* Batches of frames. *)

\* The frames of the log fit a batch.
LEMMA FramesFit ==
    ASSUME LogInv, NEW f \in 0..(next - 1)
    PROVE  hist[f] \in BatchFrame /\ InLog(hist[f])
<1>1. hist[f] \in LogFrame /\ hist[f].no = f /\ next \in Nat
    BY DEF LogInv, LogOK
<1>2. next < FrameNoMax
    BY <1>1, Constants DEF LogInv
<1>3. f \in 0..(FrameNoMax - 1)
    BY <1>1, <1>2, Constants
<1> QED BY <1>1, <1>3 DEF LogFrame, BatchFrame, InLog, HasFrame

\* The number a batch ends at.
LEMMA LastFrame ==
    ASSUME NEW b \in Seq(BatchFrame)
    PROVE  /\ last_frame_no(b) \in 0..(FrameNoMax - 1)
           /\ last_frame_no(b) # 0 => \E i \in DOMAIN b : b[i].no = last_frame_no(b)
<1> DEFINE S == {0} \cup {b[i].no : i \in DOMAIN b}
<1>1. \A i \in DOMAIN b : b[i] \in BatchFrame
    BY ElementOfSeq, LenProperties
<1>2. S # {} /\ S \subseteq 0..(FrameNoMax - 1) /\ FrameNoMax - 1 \in Nat
  <2>1. \A i \in DOMAIN b : b[i].no \in 0..(FrameNoMax - 1)
      BY <1>1 DEF BatchFrame
  <2>2. 0 \in 0..(FrameNoMax - 1) /\ FrameNoMax - 1 \in Nat
      BY DEF FrameNoMax
  <2> QED BY <2>1, <2>2
<1>3. \E m \in S : \A z \in S : m >= z
  <2> HIDE DEF S
  <2> QED BY <1>2, GreatestBelow
<1>4. Max(S) \in S
  <2> HIDE DEF S
  <2> QED BY <1>3, Zenon DEF Max
<1>5. last_frame_no(b) = Max(S)
    BY DEF last_frame_no
<1> QED BY <1>2, <1>4, <1>5

\* The size a batch leaves.
LEMMA SizeAfter ==
    ASSUME NEW b \in Seq(BatchFrame)
    PROVE  size_after(b) \in 0..MaxPage
<1>1. CASE last_frame_no(b) = 0
    BY <1>1, Constants DEF size_after
<1>2. CASE last_frame_no(b) # 0
  <2>1. \E i \in DOMAIN b : b[i].no = last_frame_no(b)
      BY <1>2, LastFrame
  <2> DEFINE i == CHOOSE i \in DOMAIN b : b[i].no = last_frame_no(b)
  <2>2. i \in DOMAIN b
      BY <2>1
  <2>3. size_after(b) = b[i].size
      BY <1>2 DEF size_after
  <2>4. b[i] \in BatchFrame
    <3> HIDE DEF i
    <3> QED BY <2>2, ElementOfSeq, LenProperties
  <2> HIDE DEF i
  <2> QED BY <2>3, <2>4 DEF BatchFrame
<1> QED BY <1>1, <1>2

\* A page of an overlay comes from a frame of the batch or from below.
LEMMA OverlayPages ==
    ASSUME NEW d, NEW b \in Seq(BatchFrame), NEW p \in DOMAIN Overlay(d, b)
    PROVE  \/ \E i \in 1..Len(b) : b[i].page = p /\ Overlay(d, b)[p] = b[i].data
           \/ p \in DOMAIN d /\ Overlay(d, b)[p] = d[p]
<1> DEFINE written == {b[i].page : i \in DOMAIN b}
           S == {i \in DOMAIN b : b[i].page = p}
<1>1. DOMAIN b = 1..Len(b) /\ Len(b) \in Nat
    BY LenProperties
<1>2. CASE p \in written
  <2>1. S # {} /\ S \subseteq 0..Len(b)
      BY <1>1, <1>2
  <2>2. \E m \in S : \A z \in S : m >= z
    <3> HIDE DEF S
    <3> QED BY <1>1, <2>1, GreatestBelow
  <2>3. Max(S) \in S
    <3> HIDE DEF S
    <3> QED BY <2>2, Zenon DEF Max
  <2>4. Overlay(d, b)[p] = b[Max(S)].data
      BY <1>2 DEF Overlay
  <2> QED BY <1>1, <2>3, <2>4
<1>3. CASE p \notin written
    BY <1>3 DEF Overlay
<1> QED BY <1>2, <1>3

\* Every page of an overlay is a page.
LEMMA OverlayDomain ==
    ASSUME NEW d, DOMAIN d \subseteq Pages, NEW b \in Seq(BatchFrame)
    PROVE  DOMAIN Overlay(d, b) \subseteq Pages
<1>1. \A i \in DOMAIN b : b[i] \in BatchFrame
    BY ElementOfSeq, LenProperties
<1>2. \A i \in DOMAIN b : b[i].page \in Pages
    BY <1>1 DEF BatchFrame
<1> QED BY <1>2 DEF Overlay

\* A snapshot file holds frames of the log.
LEMMA SnapshotBatch ==
    ASSUME LogInv, NEW r \in files, NEW f, NEW q \in InFileOrder(SnapshotFrames(r, f))
    PROVE  q \in Seq(BatchFrame) /\ \A i \in 1..Len(q) : InLog(q[i])
<1> DEFINE D == r[1]..(r[2] - 1)
           F == {hist[i] : i \in D}
           S == SnapshotFrames(r, f)
<1>1. r[1] \in Nat /\ r[2] \in Nat /\ r[2] <= next /\ next \in Nat
    BY DEF LogInv, RangesOK, LogOK
<1>2. D \subseteq 0..(next - 1)
    BY <1>1
<1>3. F \subseteq BatchFrame /\ \A x \in F : InLog(x)
    BY <1>2, FramesFit
<1>4. S \subseteq F
    BY DEF SnapshotFrames, Newest
<1>5. IsFiniteSet(D)
  <2>1. r[1] \in Int /\ r[2] - 1 \in Int
      BY <1>1
  <2> QED BY <2>1, FS_Interval, Zenon
<1>6. IsFiniteSet(F)
  <2> DEFINE g == [i \in D |-> hist[i]]
  <2>1. g \in Surjection(D, F)
      BY DEF Surjection
  <2> HIDE DEF g, D, F
  <2> QED BY <1>5, <2>1, FS_Surjection
<1> HIDE DEF F, D
<1>7. Cardinality(S) \in Nat
    BY <1>4, <1>6, FS_Subset, FS_CardinalityType
<1>8. q \in [1..Cardinality(S) -> S]
    BY DEF InFileOrder, SetToSeqs
<1> HIDE DEF S
<1>9. q \in Seq(S) /\ Len(q) = Cardinality(S)
    BY <1>7, <1>8
<1>10. \A i \in 1..Len(q) : q[i] \in S
    BY <1>8, <1>9
<1> QED BY <1>3, <1>4, <1>9, <1>10

-----------------------------------------------------------------------------
(* The steps of the primary. *)

\* What is in a log stays in it while the log is kept.
LEMMA KeptInLog ==
    ASSUME LogInv, LogInv', Kept
    PROVE  /\ \A x : HasFrame(hist, next, x) => HasFrame(hist', next', x)
           /\ \A p, d : HasPage(hist, next, p, d) => HasPage(hist', next', p, d)
<1>1. next \in Nat /\ next' \in Nat /\ next <= next'
    BY DEF LogInv, LogOK, Kept
<1>2. \A f \in 0..(next - 1) : f \in 0..(next' - 1) /\ hist'[f] = hist[f]
  <2>1. \A a, b \in Nat : a <= b => \A f \in 0..(a - 1) : f \in 0..(b - 1)
      OBVIOUS
  <2>2. \A f \in 0..(next - 1) : f \in 0..(next' - 1)
      BY <1>1, <2>1, Zenon
  <2> QED BY <2>2 DEF Kept
<1>3. ASSUME NEW x, HasFrame(hist, next, x) PROVE HasFrame(hist', next', x)
  <2>1. PICK f \in 0..(next - 1) : hist[f] = x
      BY <1>3 DEF HasFrame
  <2>2. f \in 0..(next' - 1) /\ hist'[f] = x
      BY <1>2, <2>1
  <2> QED BY <2>2 DEF HasFrame
<1>4. ASSUME NEW p, NEW d, HasPage(hist, next, p, d) PROVE HasPage(hist', next', p, d)
  <2>1. PICK f \in 0..(next - 1) : hist[f].page = p /\ hist[f].data = d
      BY <1>4 DEF HasPage
  <2>2. f \in 0..(next' - 1) /\ hist'[f].page = p /\ hist'[f].data = d
      BY <1>2, <2>1
  <2> QED BY <2>2 DEF HasPage
<1> QED BY <1>3, <1>4, Zenon

\* The replica's own state stays.
LEMMA ReplicaKept ==
    ASSUME TypeOK, BatchTypes, OneDatabase, Started, Recorded,
           UNCHANGED <<rdb, mfile, rp, buf, meta, applied, chan, inj, batch, pend>>,
           hello' \in BOOLEAN, st' \in {"closed", "frame", "ahead", "wait", "broken"},
           cur' \in Nat, avail' \in Nat, sub' \in Nat
    PROVE  TypeOK' /\ BatchTypes' /\ OneDatabase' /\ Started' /\ Recorded'
<1>1. TypeOK'
    BY DEF TypeOK
<1>2. BatchTypes' /\ OneDatabase' /\ Started'
    BY DEF BatchTypes, OneDatabase, Started
<1>3. Recorded'
    BY DEF Recorded, size_after, last_frame_no
<1> QED BY <1>1, <1>2, <1>3

\* A step that keeps the log.
LEMMA KeptStep ==
    ASSUME PInv, LogInv', dbid' = dbid, Kept,
           UNCHANGED <<rdb, mfile, rp, buf, meta, applied, chan, inj, batch, pend>>,
           hello' \in BOOLEAN, st' \in {"closed", "frame", "ahead", "wait", "broken"},
           cur' \in Nat, avail' \in Nat, sub' \in Nat
    PROVE  PInv'
<1>1. TypeOK' /\ BatchTypes' /\ OneDatabase' /\ Started' /\ Recorded'
    BY ReplicaKept DEF PInv
<1>2. Ids'
    BY DEF PInv, Ids
<1>3. /\ \A x : HasFrame(hist, next, x) => HasFrame(hist', next', x)
      /\ \A p, d : HasPage(hist, next, p, d) => HasPage(hist', next', p, d)
    BY KeptInLog DEF PInv
<1>4. Follows'
    BY <1>3 DEF PInv, Follows, SameDatabase, InLog, Held
<1>5. Committed'
    BY <1>3 DEF PInv, Committed, Held
<1> QED BY <1>1, <1>2, <1>4, <1>5 DEF PInv

\* A step that rebuilds the log: the replica follows another database now.
LEMMA RebuiltStep ==
    ASSUME PInv, LogInv', dbid' = dbid + 1,
           UNCHANGED <<rdb, mfile, rp, buf, meta, applied, chan, inj, batch, pend>>,
           hello' \in BOOLEAN, st' \in {"closed", "frame", "ahead", "wait", "broken"},
           cur' \in Nat, avail' \in Nat, sub' \in Nat
    PROVE  PInv'
<1>1. TypeOK' /\ BatchTypes' /\ OneDatabase' /\ Started' /\ Recorded'
    BY ReplicaKept DEF PInv
<1>2. dbid \in Nat /\ mfile \in Metas \cup {NoMeta} /\ meta \in Metas \cup {NoMeta}
    BY DEF PInv, LogInv, TypeOK
<1>3. /\ mfile # NoMeta => mfile.db \in Nat /\ mfile.db <= dbid
      /\ meta # NoMeta => meta.db \in Nat /\ meta.db <= dbid
    BY <1>2 DEF PInv, Ids, Metas
<1>4. /\ mfile # NoMeta => mfile.db <= dbid + 1 /\ mfile.db # dbid + 1
      /\ meta # NoMeta => meta.db <= dbid + 1 /\ meta.db # dbid + 1
    BY <1>2, <1>3
<1>5. Ids'
    BY <1>4 DEF Ids
<1>6. Follows'
    BY <1>4 DEF Follows, SameDatabase
<1>7. Committed'
    BY <1>4 DEF Committed
<1> QED BY <1>1, <1>5, <1>6, <1>7 DEF PInv

\* The threads of the primary.
LEMMA PrimaryStepPInv == ASSUME PInv, PrimaryStep PROVE PInv'
<1>1. /\ UNCHANGED <<rdb, mfile, rp, buf, meta, applied, chan, inj, batch, pend>>
      /\ UNCHANGED <<hello, st, cur, avail, sub>>
    BY DEF PrimaryStep, replVars, streamVars, injVars
<1>2. LogInv' /\ dbid' = dbid /\ Kept
    BY CommitLog, KeepLog DEF PInv, PrimaryStep
<1>3. /\ hello' \in BOOLEAN /\ st' \in {"closed", "frame", "ahead", "wait", "broken"}
      /\ cur' \in Nat /\ avail' \in Nat /\ sub' \in Nat
    BY <1>1 DEF PInv, TypeOK
<1> QED BY <1>1, <1>2, <1>3, KeptStep

\* The primary restarts.
LEMMA PrimaryRestartPInv == ASSUME PInv, PrimaryRestart PROVE PInv'
<1>1. UNCHANGED <<rdb, mfile, rp, buf, meta, applied, chan, inj, batch, pend>>
    BY DEF PrimaryRestart, injVars
<1>2. /\ hello' \in BOOLEAN /\ st' \in {"closed", "frame", "ahead", "wait", "broken"}
      /\ cur' \in Nat /\ avail' \in Nat /\ sub' \in Nat
    BY DEF PrimaryRestart, DropStream
<1>3. CASE CleanRestart
  <2>1. LogInv' /\ dbid' = dbid /\ Kept
      BY <1>3, KeepLog DEF PInv
  <2> QED BY <1>1, <1>2, <2>1, KeptStep
<1>4. CASE Recover
  <2>1. LogInv' /\ dbid' = dbid + 1
      BY <1>4, RecoverLog DEF PInv
  <2> QED BY <1>1, <1>2, <2>1, RebuiltStep
<1> QED BY <1>3, <1>4 DEF PrimaryRestart

-----------------------------------------------------------------------------
(* The steps of the replicator. *)

\* b is a batch, and in the log of the database if the replica follows that one.
BatchOK(b) ==
    /\ b \in Seq(BatchFrame)
    /\ SameDatabase => \A i \in 1..Len(b) : InLog(b[i])

\* What the replicator changes: its own state, the stream, its buffer and the channel.
\* All of it before the steps that follow.
ReplicatorTypes ==
    /\ hello \in BOOLEAN /\ st \in {"closed", "frame", "ahead", "wait", "broken"}
    /\ cur \in Nat /\ avail \in Nat /\ sub \in Nat
    /\ rp \in {"handshake", "connect", "stream", "snapshot", "send", "lagging", "incompatible"}
    /\ Len(chan) <= 1

\* No frames are no batch out of order.
LEMMA EmptyBatch == BatchOK(<<>>)
<1>1. <<>> \in Seq(BatchFrame) /\ Len(<<>>) = 0
    OBVIOUS
<1> QED BY <1>1 DEF BatchOK

\* A step that changes none but these.
LEMMA BufferStep ==
    ASSUME PInv, UNCHANGED <<logVars, rdb, mfile, meta, applied, injVars>>,
           ReplicatorTypes', BatchOK(buf'), chan' # <<>> => BatchOK(chan'[1]),
           meta = NoMeta => /\ buf' = <<>> /\ chan' = <<>>
                            /\ rp' \in {"handshake", "incompatible", "lagging"}
    PROVE  PInv'
<1>1. /\ UNCHANGED <<dbid, gen, genStart, hist, next, first, top, queue, files, ver>>
      /\ UNCHANGED <<rdb, mfile, meta, applied, inj, batch, pend>>
    BY DEF logVars, injVars
<1>2. LogInv'
    BY <1>1 DEF PInv, LogInv, RangesOK
<1>3. TypeOK'
    BY <1>1 DEF PInv, TypeOK, ReplicatorTypes
<1>4. BatchTypes'
    BY <1>1 DEF PInv, BatchTypes, BatchOK
<1>5. Ids' /\ OneDatabase' /\ Committed'
    BY <1>1 DEF PInv, Ids, OneDatabase, Committed, Held
<1>6. Started'
    BY <1>1 DEF PInv, Started
<1>7. Recorded'
    BY <1>1 DEF PInv, Recorded, size_after, last_frame_no
<1>8. Follows'
    BY <1>1 DEF PInv, Follows, BatchOK, SameDatabase, InLog, Held
<1> QED BY <1>2, <1>3, <1>4, <1>5, <1>6, <1>7, <1>8 DEF PInv

\* The buffer, and what is in the channel, are batches.
LEMMA BuffersOK ==
    ASSUME PInv
    PROVE  /\ BatchOK(buf) /\ BatchOK(batch)
           /\ chan # <<>> => BatchOK(chan[1])
           /\ ReplicatorTypes
           /\ meta = NoMeta => /\ buf = <<>> /\ chan = <<>>
                               /\ rp \in {"handshake", "incompatible", "lagging"}
<1>1. BatchOK(buf) /\ BatchOK(batch)
    BY DEF PInv, BatchTypes, Follows, BatchOK
<1>2. chan # <<>> => BatchOK(chan[1])
    BY DEF PInv, BatchTypes, Follows, BatchOK
<1>3. ReplicatorTypes
    BY DEF PInv, TypeOK, ReplicatorTypes
<1> QED BY <1>1, <1>2, <1>3 DEF PInv, Started

\* The steps that leave the buffer and the channel alone.
LEMMA StreamSteps ==
    ASSUME PInv,
           \/ HandshakeRejected \/ LogEntriesRefused \/ StreamAhead \/ StreamSubscribe
           \/ StreamNotified \/ SnapshotNotFound \/ Break \/ SnapshotBreaks
    PROVE  PInv'
<1>1. UNCHANGED <<logVars, rdb, mfile, meta, applied, injVars>> /\ UNCHANGED <<buf, chan>>
    BY DEF HandshakeRejected, LogEntriesRefused, StreamAhead, StreamSubscribe, StreamNotified,
           SnapshotNotFound, Break, SnapshotBreaks, streamVars
<1>2. top \in Nat
    BY DEF PInv, LogInv
<1>3. ReplicatorTypes'
  <2>1. ReplicatorTypes /\ chan' = chan
      BY <1>1, BuffersOK
  <2>2. CASE HandshakeRejected
      BY <2>1, <2>2 DEF HandshakeRejected, SayHello, ReplicatorTypes
  <2>3. CASE LogEntriesRefused \/ SnapshotNotFound \/ SnapshotBreaks
      BY <2>1, <2>3
         DEF LogEntriesRefused, SnapshotNotFound, SnapshotBreaks, streamVars, ReplicatorTypes
  <2>4. CASE StreamAhead \/ StreamSubscribe \/ StreamNotified
      BY <1>2, <2>1, <2>4 DEF StreamAhead, StreamSubscribe, StreamNotified, ReplicatorTypes
  <2>5. CASE Break
      BY <2>1, <2>5 DEF Break, DropStream, ReplicatorTypes
  <2> QED BY <2>2, <2>3, <2>4, <2>5
<1>4. meta = NoMeta => rp' \in {"handshake", "incompatible", "lagging"}
    BY BuffersOK
       DEF HandshakeRejected, LogEntriesRefused, StreamAhead, StreamSubscribe, StreamNotified,
           SnapshotNotFound, Break, SnapshotBreaks
<1> QED BY <1>1, <1>3, <1>4, BuffersOK, BufferStep

\* The steps that start with an empty buffer.
LEMMA EmptyBufferSteps ==
    ASSUME PInv, LogEntries \/ StreamNeedSnapshot \/ StreamError
    PROVE  PInv'
<1>1. UNCHANGED <<logVars, rdb, mfile, meta, applied, injVars>> /\ chan' = chan /\ buf' = <<>>
    BY DEF LogEntries, StreamNeedSnapshot, StreamError
<1>2. top \in Nat /\ next_offset \in Nat
  <2>1. applied \in 0..FrameNoMax
      BY DEF PInv, TypeOK
  <2> QED BY <2>1, Constants DEF PInv, LogInv, next_offset
<1>3. ReplicatorTypes'
    BY <1>1, <1>2, BuffersOK
       DEF LogEntries, StreamNeedSnapshot, StreamError, DropStream, ReplicatorTypes
<1>4. meta # NoMeta
    BY BuffersOK DEF LogEntries, StreamNeedSnapshot, StreamError
<1> QED BY <1>1, <1>3, <1>4, BuffersOK, EmptyBatch, BufferStep

\* A frame of the live log.
LEMMA StreamFramePInv == ASSUME PInv, StreamFrame PROVE PInv'
<1>1. UNCHANGED <<logVars, rdb, mfile, meta, applied, injVars>> /\ chan' = chan
    BY DEF StreamFrame
<1>2. cur \in 0..(next - 1) /\ cur + 1 \in Nat
    BY DEF StreamFrame, PInv, LogInv, LogOK, TypeOK
<1>3. hist[cur] \in BatchFrame /\ InLog(hist[cur])
    BY <1>2, FramesFit DEF PInv
<1>4. BatchOK(buf')
  <2>1. buf' = Append(buf, hist[cur]) /\ buf \in Seq(BatchFrame)
      BY BuffersOK DEF StreamFrame, BatchOK
  <2>2. /\ buf' \in Seq(BatchFrame) /\ Len(buf') = Len(buf) + 1 /\ Len(buf) \in Nat
        /\ \A i \in 1..Len(buf) : buf'[i] = buf[i]
        /\ buf'[Len(buf) + 1] = hist[cur]
      BY <1>3, <2>1, AppendProperties, LenProperties
  <2>3. ASSUME SameDatabase, NEW i \in 1..Len(buf') PROVE InLog(buf'[i])
    <3>1. CASE i \in 1..Len(buf)
        BY <2>2, <2>3, <3>1, BuffersOK DEF BatchOK
    <3>2. CASE i = Len(buf) + 1
        BY <1>3, <2>2, <3>2
    <3> QED BY <2>2, <3>1, <3>2
  <2> QED BY <2>2, <2>3 DEF BatchOK
<1>5. ReplicatorTypes'
    BY <1>1, <1>2, BuffersOK DEF StreamFrame, ReplicatorTypes
<1>6. meta # NoMeta
    BY BuffersOK DEF StreamFrame
<1> QED BY <1>1, <1>4, <1>5, <1>6, BuffersOK, BufferStep

\* The frames of a snapshot.
LEMMA LoadSnapshotPInv == ASSUME PInv, LoadSnapshot PROVE PInv'
<1>1. UNCHANGED <<logVars, rdb, mfile, meta, applied, injVars>> /\ chan' = chan
    BY DEF LoadSnapshot
<1>2. PICK r \in SnapshotsOf(next_offset) : buf' \in InFileOrder(SnapshotFrames(r, next_offset))
    BY DEF LoadSnapshot
<1>3. r \in files
    BY DEF SnapshotsOf
<1>4. BatchOK(buf')
  <2>1. LogInv
      BY DEF PInv
  <2>2. buf' \in Seq(BatchFrame) /\ \A i \in 1..Len(buf') : InLog(buf'[i])
      BY <1>2, <1>3, <2>1, SnapshotBatch
  <2> QED BY <2>2 DEF BatchOK
<1>5. ReplicatorTypes'
    BY <1>1, BuffersOK DEF LoadSnapshot, streamVars, ReplicatorTypes
<1>6. meta # NoMeta
    BY BuffersOK DEF LoadSnapshot
<1> QED BY <1>1, <1>4, <1>5, <1>6, BuffersOK, BufferStep

\* The buffer is handed over.
LEMMA SendFramesPInv == ASSUME PInv, SendFrames PROVE PInv'
<1>1. /\ UNCHANGED <<logVars, rdb, mfile, meta, applied, injVars>>
      /\ buf' = <<>> /\ chan' = <<buf>>
    BY DEF SendFrames
<1>2. Len(chan') = 1 /\ chan'[1] = buf
    BY <1>1
<1>3. ReplicatorTypes'
    BY <1>2, BuffersOK DEF SendFrames, streamVars, ReplicatorTypes
<1>4. meta # NoMeta
    BY BuffersOK DEF SendFrames
<1> QED BY <1>1, <1>2, <1>3, <1>4, BuffersOK, EmptyBatch, BufferStep

\* The replica takes over the database of the hello: it has nothing of any other one.
LEMMA HandshakeOkPInv == ASSUME PInv, HandshakeOk PROVE PInv'
<1>1. /\ UNCHANGED <<dbid, gen, genStart, hist, next, first, top, queue, files, ver>>
      /\ UNCHANGED <<st, cur, avail, sub, rdb, mfile, buf, applied, chan, inj, batch, pend>>
      /\ hello' = TRUE /\ rp' = "connect"
    BY DEF HandshakeOk, SayHello, logVars, injVars
<1>2. dbid \in Nat /\ gen \in Nat /\ mfile \in Metas \cup {NoMeta} /\ meta \in Metas \cup {NoMeta}
    BY DEF PInv, LogInv, TypeOK
<1>3. /\ meta' \in Metas /\ meta'.db = dbid
      /\ meta # NoMeta => meta.db = dbid
      /\ mfile # NoMeta => mfile.db = dbid
  <2>1. CASE CurrentMeta = NoMeta /\ meta' = new_from_hello
    <3>1. meta = NoMeta /\ mfile = NoMeta
        BY <2>1 DEF CurrentMeta
    <3>2. meta' = [db |-> dbid, gen |-> gen, pre |-> FrameNoMax, post |-> FrameNoMax]
        BY <2>1 DEF new_from_hello
    <3>3. FrameNoMax \in 0..FrameNoMax
        BY Constants
    <3> QED BY <1>2, <3>1, <3>2, <3>3 DEF Metas
  <2>2. CASE CurrentMeta # NoMeta /\ Mergeable(CurrentMeta)
             /\ meta' = [CurrentMeta EXCEPT !.gen = gen]
    <3>1. CurrentMeta \in Metas /\ CurrentMeta.db = dbid
        BY <1>2, <2>2 DEF CurrentMeta, Mergeable
    <3>2. meta' \in Metas /\ meta'.db = dbid
        BY <1>2, <2>2, <3>1 DEF Metas
    <3>3. CASE meta = NoMeta
        BY <3>1, <3>2, <3>3 DEF CurrentMeta
    <3>4. CASE meta # NoMeta
      <4>1. meta.db = dbid
          BY <3>1, <3>4 DEF CurrentMeta
      <4>2. mfile # NoMeta => mfile.db = dbid
          BY <3>4, <4>1 DEF PInv, OneDatabase
      <4> QED BY <3>2, <4>1, <4>2
    <3> QED BY <3>3, <3>4
  <2> QED BY <2>1, <2>2 DEF HandshakeOk
<1>4. meta' # NoMeta
  <2>1. NoMeta.db = -1 /\ dbid # -1
      BY <1>2 DEF NoMeta
  <2> QED BY <1>3, <2>1
<1>5. LogInv'
    BY <1>1 DEF PInv, LogInv, RangesOK
<1>6. TypeOK'
    BY <1>1, <1>3, <1>4 DEF PInv, TypeOK
<1>7. BatchTypes'
    BY <1>1 DEF PInv, BatchTypes
<1>8. Ids' /\ OneDatabase' /\ Started'
  <2>1. dbid <= dbid
      BY <1>2
  <2> QED BY <1>1, <1>3, <1>4, <2>1 DEF PInv, Ids, OneDatabase, Started
<1>9. Recorded'
    BY <1>1 DEF PInv, Recorded, size_after, last_frame_no
<1>10. Committed'
    BY <1>1 DEF PInv, Committed, Held
<1>11. Follows'
  <2>1. CASE meta = NoMeta
    <3>1. buf = <<>> /\ chan = <<>> /\ batch = <<>> /\ DOMAIN pend = {} /\ Len(<<>>) = 0
        BY <2>1 DEF PInv, Started
    <3> QED BY <1>1, <3>1 DEF Follows
  <2>2. CASE meta # NoMeta
      BY <1>1, <1>3, <2>2 DEF PInv, Follows, SameDatabase, InLog, Held
  <2> QED BY <2>1, <2>2
<1> QED BY <1>5, <1>6, <1>7, <1>8, <1>9, <1>10, <1>11 DEF PInv

-----------------------------------------------------------------------------
(* The steps of the injector. *)

\* The batch is taken from the channel.
LEMMA InjectReceivePInv == ASSUME PInv, InjectReceive PROVE PInv'
<1>1. /\ UNCHANGED <<dbid, gen, genStart, hist, next, first, top, queue, files, ver>>
      /\ UNCHANGED <<hello, st, cur, avail, sub, rdb, mfile, rp, buf, meta, applied, pend>>
      /\ chan # <<>> /\ chan' = <<>> /\ batch' = Head(chan)
      /\ inj' = IF size_after(batch') # 0 THEN "pre" ELSE "write"
    BY DEF InjectReceive, logVars, streamVars
<1>2. Head(chan) = chan[1] /\ meta # NoMeta /\ Len(<<>>) = 0
    BY <1>1 DEF PInv, Started
<1>3. BatchOK(batch')
    BY <1>1, <1>2, BuffersOK
<1>4. LogInv'
    BY <1>1 DEF PInv, LogInv, RangesOK
<1>5. TypeOK'
    BY <1>1, <1>2 DEF PInv, TypeOK
<1>6. BatchTypes'
    BY <1>1, <1>3 DEF PInv, BatchTypes, BatchOK
<1>7. Ids' /\ OneDatabase' /\ Started' /\ Committed'
    BY <1>1, <1>2 DEF PInv, Ids, OneDatabase, Started, Committed, Held
<1>8. Recorded'
  <2>1. inj' \in {"write", "post"} => size_after(batch') = 0
      BY <1>1
  <2>2. size_after(batch)' = size_after(batch')
      BY DEF size_after, last_frame_no
  <2> QED BY <1>1, <2>1, <2>2 DEF PInv, Recorded
<1>9. Follows'
    BY <1>1, <1>3 DEF PInv, Follows, BatchOK, SameDatabase, InLog, Held
<1> QED BY <1>4, <1>5, <1>6, <1>7, <1>8, <1>9 DEF PInv

\* The meta of the process is written to disk, before or after a commit.
LEMMA MetaWritten ==
    ASSUME PInv, meta # NoMeta,
           UNCHANGED <<dbid, gen, genStart, hist, next, first, top, queue, files, ver>>,
           UNCHANGED <<hello, st, cur, avail, sub, rdb, rp, buf, chan, pend>>,
           meta' \in Metas, meta'.db = meta.db, mfile' = meta',
           applied' \in 0..FrameNoMax, inj' \in {"idle", "write"},
           batch' = batch \/ batch' = <<>>
    PROVE  PInv'
<1>1. dbid \in Nat /\ meta' # NoMeta /\ meta \in Metas
  <2>1. meta \in Metas /\ dbid \in Nat
      BY DEF PInv, LogInv, TypeOK
  <2>2. meta.db \in Nat /\ NoMeta.db = -1
      BY <2>1 DEF Metas, NoMeta
  <2>3. meta.db # -1
      BY <2>2
  <2> QED BY <2>1, <2>2, <2>3
<1>2. BatchOK(batch')
    BY BuffersOK, EmptyBatch
<1>3. LogInv'
    BY DEF PInv, LogInv, RangesOK
<1>4. TypeOK'
    BY <1>1 DEF PInv, TypeOK
<1>5. BatchTypes'
    BY <1>2 DEF PInv, BatchTypes, BatchOK
<1>6. Ids' /\ OneDatabase' /\ Started' /\ Recorded'
    BY <1>1 DEF PInv, Ids, OneDatabase, Started, Recorded
<1>7. Committed'
  <2>1. CASE mfile = NoMeta
      BY <2>1 DEF PInv, Recorded, Committed
  <2>2. CASE mfile # NoMeta
    <3>1. mfile.db = meta.db
        BY <2>2 DEF PInv, OneDatabase
    <3> QED BY <2>2, <3>1 DEF PInv, Committed, Held
  <2> QED BY <2>1, <2>2
<1>8. Follows'
    BY <1>2 DEF PInv, Follows, BatchOK, SameDatabase, InLog, Held
<1> QED BY <1>3, <1>4, <1>5, <1>6, <1>7, <1>8 DEF PInv

\* Before a commit, and after it.
LEMMA CommitHooksPInv == ASSUME PInv, PreCommit \/ PostCommit PROVE PInv'
<1>1. /\ UNCHANGED <<dbid, gen, genStart, hist, next, first, top, queue, files, ver>>
      /\ UNCHANGED <<hello, st, cur, avail, sub, rdb, rp, buf, chan, pend>>
      /\ mfile' = meta' /\ inj' \in {"idle", "write"}
      /\ batch' = batch \/ batch' = <<>>
    BY DEF PreCommit, PostCommit, logVars, streamVars
<1>2. meta # NoMeta /\ meta \in Metas
    BY DEF PreCommit, PostCommit, PInv, TypeOK
<1>3. last_frame_no(batch) \in 0..FrameNoMax
  <2>1. last_frame_no(batch) \in 0..(FrameNoMax - 1)
      BY LastFrame DEF PInv, BatchTypes
  <2> QED BY <2>1, Constants
<1>4. /\ meta' \in Metas /\ meta'.db = meta.db
      /\ applied' \in 0..FrameNoMax
    BY <1>2, <1>3 DEF PreCommit, PostCommit, PInv, TypeOK, Metas
<1> QED BY <1>1, <1>2, <1>4, MetaWritten

\* The pages of the injector are in the log.
LEMMA PagesHeld ==
    ASSUME PInv, SameDatabase, NEW p \in DOMAIN Overlay(pend, batch)
    PROVE  Held(p, Overlay(pend, batch)[p])
<1>1. batch \in Seq(BatchFrame)
    BY DEF PInv, BatchTypes
<1>2. \/ \E i \in 1..Len(batch) : batch[i].page = p /\ Overlay(pend, batch)[p] = batch[i].data
      \/ p \in DOMAIN pend /\ Overlay(pend, batch)[p] = pend[p]
    BY <1>1, OverlayPages
<1>3. CASE p \in DOMAIN pend /\ Overlay(pend, batch)[p] = pend[p]
    BY <1>3 DEF PInv, Follows
<1>4. CASE \E i \in 1..Len(batch) : batch[i].page = p /\ Overlay(pend, batch)[p] = batch[i].data
  <2>1. PICK i \in 1..Len(batch) : batch[i].page = p /\ Overlay(pend, batch)[p] = batch[i].data
      BY <1>4
  <2>2. PICK f \in 0..(next - 1) : hist[f] = batch[i]
      BY DEF PInv, Follows, InLog, HasFrame
  <2> QED BY <2>1, <2>2 DEF Held, HasPage
<1> QED BY <1>2, <1>3, <1>4

\* Pages are written: they stay uncommitted, or become the replica's database.
LEMMA InjectFramesPInv == ASSUME PInv, InjectFrames PROVE PInv'
<1> DEFINE pages == Overlay(pend, batch)
           size == size_after(batch)
<1>1. /\ UNCHANGED <<dbid, gen, genStart, hist, next, first, top, queue, files, ver>>
      /\ UNCHANGED <<hello, st, cur, avail, sub, mfile, rp, buf, meta, applied, chan>>
      /\ inj = "write"
    BY DEF InjectFrames, logVars, streamVars
<1>2. \/ /\ size = 0 /\ pend' = pages
         /\ inj' = "idle" /\ batch' = <<>> /\ rdb' = rdb
      \/ /\ size # 0 /\ pend' = [p \in {} |-> 0]
         /\ inj' = "post" /\ batch' = batch
         /\ rdb' = [p \in 1..size |-> IF p \in DOMAIN pages THEN pages[p]
                                      ELSE IF p \in DOMAIN rdb THEN rdb[p] ELSE Hole]
    BY DEF InjectFrames
<1>3. meta # NoMeta
    BY <1>1 DEF PInv, TypeOK
<1>4. size \in 0..MaxPage /\ DOMAIN pages \subseteq Pages
    BY SizeAfter, OverlayDomain DEF PInv, BatchTypes
<1>5. SameDatabase => \A p \in DOMAIN pages : Held(p, pages[p])
    BY PagesHeld
<1>6. size # 0 => mfile # NoMeta
    BY <1>1 DEF PInv, Recorded
<1> HIDE DEF pages, size
<1>7. LogInv'
    BY <1>1 DEF PInv, LogInv, RangesOK
<1>8. BatchOK(batch') /\ Len(<<>>) = 0
    BY <1>2, BuffersOK, EmptyBatch
<1>9. DOMAIN rdb' \subseteq Pages /\ DOMAIN pend' \subseteq Pages
  <2>1. CASE size = 0
      BY <1>2, <1>4, <2>1 DEF PInv, TypeOK
  <2>2. CASE size # 0
    <3>1. DOMAIN rdb' = 1..size /\ DOMAIN pend' = {}
        BY <1>2, <2>2
    <3> QED BY <1>4, <3>1, Constants DEF Pages
  <2> QED BY <2>1, <2>2
<1>10. TypeOK'
    BY <1>1, <1>2, <1>3, <1>9 DEF PInv, TypeOK
<1>11. BatchTypes'
    BY <1>1, <1>8, <1>9 DEF PInv, BatchTypes, BatchOK
<1>12. Ids' /\ OneDatabase' /\ Started'
    BY <1>1, <1>3 DEF PInv, Ids, OneDatabase, Started
<1>13. Recorded'
    BY <1>1, <1>2, <1>6 DEF PInv, Recorded
<1>14. Follows'
  <2>1. ASSUME SameDatabase PROVE \A p \in DOMAIN pend' : Held(p, pend'[p])
      BY <1>2, <1>5, <2>1
  <2> QED BY <1>1, <1>8, <2>1 DEF PInv, Follows, BatchOK, SameDatabase, InLog, Held
<1>15. Committed'
  <2>1. CASE size = 0
      BY <1>1, <1>2, <2>1 DEF PInv, Committed, Held
  <2>2. CASE size # 0
    <3> SUFFICES ASSUME mfile # NoMeta, mfile.db = dbid, NEW p \in DOMAIN rdb'
                 PROVE  rdb'[p] = Hole \/ Held(p, rdb'[p])
        BY <1>1 DEF Committed, Held
    <3>1. SameDatabase
        BY <1>3 DEF PInv, OneDatabase, SameDatabase
    <3>2. p \in 1..size
        BY <1>2, <2>2
    <3>3. CASE p \in DOMAIN pages
        BY <1>2, <1>5, <2>2, <3>1, <3>2, <3>3
    <3>4. CASE p \notin DOMAIN pages /\ p \in DOMAIN rdb
      <4>1. rdb'[p] = rdb[p]
          BY <1>2, <2>2, <3>2, <3>4
      <4> QED BY <3>4, <4>1 DEF PInv, Committed
    <3>5. CASE p \notin DOMAIN pages /\ p \notin DOMAIN rdb
        BY <1>2, <2>2, <3>2, <3>5
    <3> QED BY <3>3, <3>4, <3>5
  <2> QED BY <2>1, <2>2
<1> QED BY <1>7, <1>10, <1>11, <1>12, <1>13, <1>14, <1>15 DEF PInv

\* The replica starts again.
LEMMA RestartReplicaPInv == ASSUME PInv, RestartReplica PROVE PInv'
<1>1. /\ UNCHANGED <<dbid, gen, genStart, hist, next, first, top, queue, files, ver>>
      /\ UNCHANGED <<hello, rdb, mfile>>
      /\ rp' = "handshake" /\ buf' = <<>> /\ meta' = NoMeta
      /\ applied' = FrameNoMax /\ chan' = <<>>
      /\ inj' = "idle" /\ batch' = <<>> /\ pend' = [p \in {} |-> 0]
      /\ st' = "closed" /\ cur' = 0 /\ avail' = 0 /\ sub' = 0
    BY DEF RestartReplica, DropStream, logVars
<1>2. LogInv'
    BY <1>1 DEF PInv, LogInv, RangesOK
<1>3. DOMAIN pend' = {} /\ Len(<<>>) = 0 /\ FrameNoMax \in 0..FrameNoMax
      /\ <<>> \in Seq(BatchFrame)
    BY <1>1, Constants
<1>4. TypeOK'
    BY <1>1, <1>3 DEF PInv, TypeOK
<1>5. BatchTypes' /\ Started'
    BY <1>1, <1>3 DEF BatchTypes, Started
<1>6. Ids' /\ OneDatabase' /\ Recorded'
    BY <1>1 DEF PInv, Ids, OneDatabase, Recorded
<1>7. Committed' /\ Follows'
    BY <1>1 DEF PInv, Committed, Held, Follows, SameDatabase
<1> QED BY <1>2, <1>4, <1>5, <1>6, <1>7 DEF PInv

-----------------------------------------------------------------------------
(* The theorems. *)

\* A state in which nothing changes.
LEMMA StutterPInv == ASSUME PInv, UNCHANGED vars PROVE PInv'
<1>1. /\ UNCHANGED <<logVars, rdb, mfile, meta, applied, injVars>>
      /\ UNCHANGED <<hello, st, cur, avail, sub, rp, buf, chan>>
    BY DEF vars, replVars, streamVars
<1>2. ReplicatorTypes'
    BY <1>1, BuffersOK DEF ReplicatorTypes
<1> QED BY <1>1, <1>2, BuffersOK, BufferStep

\* The invariant holds at the start.
LEMMA InitPInv == ASSUME Init PROVE PInv
<1>1. /\ hist = [f \in {} |-> 0] /\ next = 0 /\ ver = 0 /\ queue = <<>> /\ files = {}
      /\ dbid = 0 /\ gen = 0 /\ genStart = 0 /\ first = 0 /\ top = 0
    BY DEF Init, LogInit
<1>2. LogOK(hist, next)
  <2>1. DOMAIN hist = {} /\ 0..(next - 1) = {} /\ SizeAt(hist, next) = 0
      BY <1>1 DEF SizeAt
  <2> QED BY <1>1, <2>1 DEF LogOK
<1>3. LogInv
    BY <1>1, <1>2, Constants DEF LogInv, RangesOK
<1>4. Len(<<>>) = 0 /\ <<>> \in Seq(BatchFrame) /\ FrameNoMax \in 0..FrameNoMax
    BY Constants
<1>5. TypeOK
  <2>1. DOMAIN rdb = {} /\ Len(chan) <= 1
      BY <1>4 DEF Init
  <2> QED BY <1>4, <2>1 DEF Init, TypeOK
<1>6. BatchTypes /\ Started
    BY <1>4 DEF Init, BatchTypes, Started
<1>7. Ids /\ OneDatabase /\ Recorded /\ Committed /\ Follows
    BY DEF Init, Ids, OneDatabase, Recorded, Committed, Follows, SameDatabase
<1> QED BY <1>3, <1>5, <1>6, <1>7 DEF PInv

\* Every step keeps the invariant.
LEMMA NextPInv == ASSUME PInv, [Next]_vars PROVE PInv'
<1>1. CASE PrimaryStep \/ PrimaryRestart
    BY <1>1, PrimaryStepPInv, PrimaryRestartPInv
<1>2. CASE \/ HandshakeRejected \/ LogEntriesRefused \/ StreamAhead \/ StreamSubscribe
           \/ StreamNotified \/ SnapshotNotFound \/ Break \/ SnapshotBreaks
    BY <1>2, StreamSteps
<1>3. CASE LogEntries \/ StreamNeedSnapshot \/ StreamError
    BY <1>3, EmptyBufferSteps
<1>4. CASE HandshakeOk \/ StreamFrame \/ LoadSnapshot \/ SendFrames
    BY <1>4, HandshakeOkPInv, StreamFramePInv, LoadSnapshotPInv, SendFramesPInv
<1>5. CASE Injector \/ RestartReplica
    BY <1>5, InjectReceivePInv, CommitHooksPInv, InjectFramesPInv, RestartReplicaPInv DEF Injector
<1>6. CASE Idle \/ UNCHANGED vars
    BY <1>6, StutterPInv DEF Idle
<1> QED BY <1>1, <1>2, <1>3, <1>4, <1>5, <1>6 DEF Next, Replicator, Faults

\* The inductive invariant holds, for every size of transactions, databases, buffers and
\* batches, and every number of restarts, crashes and broken connections.
THEOREM PInvHolds == Spec => []PInv
<1>1. Init => PInv
    BY InitPInv
<1>2. PInv /\ [Next]_vars => PInv'
    BY NextPInv
<1> QED BY <1>1, <1>2, PTL DEF Spec

\* The replica's state has its types: no batch, meta record or page is out of range and the
\* injector works only after a handshake (replicator.rs, hook.rs, meta.rs).
THEOREM ReplicaTypes == Spec => []TypeOK
<1>1. PInv => TypeOK
    BY DEF PInv
<1> QED BY <1>1, PInvHolds, PTL

\* Frames of different databases are never mixed: every page of a replica is a content that
\* page had in the database it follows, whatever is replayed, cut off or restarted
\* (WalIndexMeta::merge_from_hello, InjectorHook::on_frames).
THEOREM ReplicasNeverMixDatabases == Spec => []PagesAreHistory
<1>1. ASSUME PInv PROVE PagesAreHistory
  <2> SUFFICES ASSUME SameDatabase, NEW p \in DOMAIN rdb, rdb[p] # Hole
               PROVE  \E f \in 0..(next - 1) : hist[f].page = p /\ hist[f].data = rdb[p]
      BY DEF PagesAreHistory
  <2>1. mfile # NoMeta
      BY <1>1 DEF PInv, Recorded
  <2>2. mfile.db = dbid
      BY <1>1, <2>1 DEF PInv, OneDatabase, SameDatabase
  <2>3. Held(p, rdb[p])
      BY <1>1, <2>1, <2>2 DEF PInv, Committed
  <2> QED BY <2>3 DEF Held, HasPage
<1> QED BY <1>1, PInvHolds, PTL
=============================================================================
