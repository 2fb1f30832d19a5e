--------------------------- MODULE NamespacesProofs ---------------------------
(***************************************************************************)
(* A fork holds a state that its source had while it was forked            *)
(* (ForkIsCommitted), and a namespace that no operation is busy with holds *)
(* what its clients left in it (NamespacesAsAsked).                        *)
(*                                                                         *)
(* For the first, the log of a loaded namespace describes its database and *)
(* what was compacted ends with a transaction (Dirs), and a fork's copy is *)
(* what the log said at the frame it has reached, where every end of a     *)
(* transaction since the fork began is a state that was seen (Operation,   *)
(* Copied).                                                                *)
(*                                                                         *)
(* For the second, a database that is missing or empty may be restored     *)
(* from its backup, so the backup must be what the namespace may hold or   *)
(* have a tombstone that outlives it (Kept, Covered); and every operation  *)
(* knows something of the names it works on when it goes on, although      *)
(* deletions in the background, crashes and failures come in between       *)
(* (Promised).                                                             *)
(***************************************************************************)
EXTENDS Namespaces, Extremes, FiniteSetTheorems, SequenceTheorems

-----------------------------------------------------------------------------
(* The invariant: directories. *)

\* The content of a database: its pages are 1..k.
IsData(x) ==
    /\ Cardinality(DOMAIN x) \in Nat /\ DOMAIN x = 1..Cardinality(DOMAIN x)
    /\ x = [p \in DOMAIN x |-> x[p]]
IsDb(x) == x = NoDb \/ IsData(x)

\* A transaction ends before frame b of the history h.
Boundary(h, b) == b = 0 \/ h[b - 1].size # 0

\* The newest of the first n frames of h that has page p is the frame f.
LastOf(h, n, p, f) ==
    f \in 0..(n - 1) /\ h[f].page = p /\ \A g \in 0..(n - 1) : h[g].page = p => g <= f

\* x has, of every page in the first n frames of h, the newest content.
State(h, n, x) ==
    /\ x = [p \in DOMAIN x |-> x[p]]
    /\ \A f \in 0..(n - 1) : h[f].page \in DOMAIN x
    /\ \A p \in DOMAIN x : \E f \in 0..(n - 1) : LastOf(h, n, p, f) /\ x[p] = h[f].data

\* Frames r[1]..r[2] - 1, with whole transactions at the end, are among the first n.
RangeOK(h, n, r) ==
    r[1] \in Nat /\ r[2] \in Nat /\ r[1] < r[2] /\ r[2] <= n /\ Boundary(h, r[2])

\* The log describes the database, and what compactions took from it ends with a
\* transaction.
LogOK(d) ==
    /\ NextNo(d) \in Nat /\ DOMAIN d.hist = 0..(NextNo(d) - 1)
    /\ \A f \in 0..(NextNo(d) - 1) : d.hist[f].no = f
    /\ Boundary(d.hist, NextNo(d))
    /\ IsData(d.db) /\ State(d.hist, NextNo(d), d.db)
    /\ d.first \in 0..NextNo(d)
    /\ d.queue \in Seq(Nat \X Nat)
    /\ \A i \in 1..Len(d.queue) : RangeOK(d.hist, NextNo(d), d.queue[i])
    /\ \A r \in d.files : RangeOK(d.hist, NextNo(d), r)

DirFields == {"here", "db", "log", "hist", "first", "queue", "files", "meta"}
DirOK(d) ==
    /\ d = [x \in DirFields |-> d[x]]
    /\ d.here \in BOOLEAN /\ d.log \in BOOLEAN /\ IsDb(d.db)
    /\ d.log => d.here /\ LogOK(d)
    /\ ~d.here => d.db = NoDb

Dirs == dir = [n \in Names |-> dir[n]] /\ \A n \in Names : DirOK(dir[n])

\* The backups.
Backups ==
    /\ gens = [n \in Names |-> gens[n]]
    /\ \A n \in Names : IsDb(gens[n]) /\ gens[n] # Empty /\ (~config.backups => gens[n] = NoDb)

\* The store, and what a loaded namespace has.
Loaded ==
    /\ config \in Configs /\ ver \in Nat /\ store \subseteq Names
    /\ conn = NoConn \/ conn \in [n : Names, live : BOOLEAN]
    /\ conn.live => conn.n \in store
    /\ config.kind = "primary" => \A n \in store : dir[n].log

-----------------------------------------------------------------------------
(* The invariant: the operation in progress. *)

PlainFields == {"kind", "n", "pc", "opt", "allow", "left"}
IsPlain(o) ==
    /\ o = [x \in PlainFields |-> o[x]]
    /\ o.n \in Names \ store /\ o.allow \in BOOLEAN
    /\ \/ o.kind = "with" /\ o.pc \in {"create", "callback"} /\ o.opt = "latest"
       \/ o.kind = "create" /\ o.pc \in {"create", "callback", "dump"}
          /\ o.opt \in {"latest", "dump"} /\ o.allow
       \/ o.kind = "destroy" /\ o.pc \in {"tombstone", "rmdir"} /\ o.opt = "latest"
       \/ o.kind = "reset" /\ o.pc \in {"rmdir", "create", "callback"} /\ o.opt = "latest"
          /\ o.allow
    /\ o.pc = "dump" => config.kind = "primary" /\ dir[o.n].log
    /\ o.pc = "tombstone" => config.backups

Forking(o) ==
    /\ o.kind = "fork" /\ o.n \in Names /\ o.to \in Names \ store /\ o.n # o.to
    /\ o.opt = "latest"

EarlyFields == PlainFields \cup {"to"}
IsEarly(o) ==
    /\ o = [x \in EarlyFields |-> o[x]]
    /\ Forking(o) /\ ~o.allow
    /\ \/ o.pc \in {"create", "callback"} /\ o.n \notin store
       \/ o.pc = "fork" /\ o.n \in store

\* What was copied is what the log said at op.next, and for each end of a transaction in
\* the log since the fork began there is the database of that moment in op.seen.
Copied(o, d) ==
    /\ o.end \in 0..NextNo(d) /\ o.next \in 0..NextNo(d)
    /\ State(d.hist, o.next, o.data)
    /\ \A b \in o.end..NextNo(d) : Boundary(d.hist, b) =>
        \E x \in o.seen : State(d.hist, b, x)
    /\ o.pc \in {"copy", "rename"} => Boundary(d.hist, o.next)
    /\ o.pc = "rename" => o.next >= o.end

LateFields == EarlyFields \cup {"end", "next", "data", "seen"}
IsLate(o) ==
    /\ o = [x \in LateFields |-> o[x]]
    /\ Forking(o) /\ o.allow /\ config.kind = "primary" /\ o.n \in store
    /\ \A x \in o.seen : IsData(x)
    /\ \/ o.pc \in {"copy", "stream", "snapshot", "rename"} /\ Copied(o, dir[o.n])
       \/ o.pc = "created" /\ dir[o.to].db \in o.seen /\ dir[o.to].here
       \/ o.pc = "cleanup"

Operation == op = NoOp \/ IsPlain(op) \/ IsEarly(op) \/ IsLate(op)

\* The inductive invariant for ForkIsCommitted.
CInv == Dirs /\ Backups /\ Loaded /\ Operation

-----------------------------------------------------------------------------
(* The invariant: what clients may find. *)

\* Deletions in the background.
Deletions ==
    /\ deleting \subseteq [n : Names, id : Nat, pc : {"list", "remove", "untomb"}]
    /\ tomb \subseteq Names /\ ops \in Nat
    /\ \A t \in deleting : t.n \in tomb

\* A tombstone is on the backup of n that stays until the backup is gone.
Entombed(n) == n \in tomb /\ \A t \in deleting : t.n = n => t.pc # "untomb"

\* The backup of n, if there is any, is what n may hold or cannot be restored.
Covered(n) == gens[n] = NoDb \/ gens[n] \in want[n] \/ Entombed(n)

\* The directory of n holds what it may, and what would be restored into it too.
KeptAt(n) ==
    /\ dir[n].db \in want[n]
    /\ dir[n].db \in {NoDb, Empty} => Covered(n)
    /\ ~config.backups /\ dir[n].here => dir[n].db # NoDb

Kept ==
    /\ want = [n \in Names |-> want[n]]
    /\ config.kind = "primary" => \A n \in Names : KeptAt(n)

\* What an operation finds when it goes on.
Promised ==
    config.kind = "primary" =>
    /\ op.kind \in {"with", "fork"} /\ op.pc = "create" =>
        ~op.allow /\ (config.backups => dir[op.n].db # NoDb)
    /\ op.kind = "create" /\ op.pc = "create" =>
        (dir[op.n].db = NoDb => Empty \in want[op.n])
    /\ op.pc = "dump" /\ dir[op.n].db = Empty => gens[op.n] = NoDb
    /\ op.kind = "fork" => NoDb \in want[op.to] /\ Covered(op.to)
    /\ op.kind = "fork" /\ op.pc \notin {"created", "cleanup"} => dir[op.to].db = NoDb
    /\ op.kind \in {"destroy", "reset"} => NoDb \in want[op.n]
    /\ op.kind = "destroy" /\ op.pc = "rmdir" => gens[op.n] = NoDb \/ Entombed(op.n)
    /\ op.kind = "reset" =>
        /\ gens[op.n] \in want[op.n] \cup {NoDb}
        /\ Empty \in want[op.n] \/ (gens[op.n] # NoDb /\ op.n \notin tomb)

\* The inductive invariant for NamespacesAsAsked.
AInv == CInv /\ Deletions /\ Kept /\ Promised

\* A server that has backups keeps the databases on its disk.
LocalWins == config.backups => ~Overrules

\* No namespace is destroyed while the backup of an earlier one of its name is still being
\* deleted in the background.
OneDeletion == \A s, t \in deleting : s.n = t.n => s = t

-----------------------------------------------------------------------------
(* Numbers, pages and databases. *)

\* The greatest of some numbers up to n.
LEMMA MaxIs ==
    ASSUME NEW n \in Nat, NEW S, S \subseteq 0..n, S # {}
    PROVE  Max(S) \in S /\ \A y \in S : Max(S) >= y
<1>1. Max(S) = CHOOSE x \in S : \A y \in S : x >= y
    BY DEF Max
<1>2. \E x \in S : \A y \in S : x >= y
    BY GreatestBelow
<1> QED BY <1>1, <1>2

\* The number of elements of an interval from 1, and from 0.
LEMMA Counts ==
    ASSUME NEW k \in Nat
    PROVE  Cardinality(1..k) = k /\ Cardinality(0..(k - 1)) = k
<1>1. \A a, b \in Int : Cardinality(a..b) = IF a > b THEN 0 ELSE b - a + 1
    BY FS_Interval, Zenon
<1>2. 1 \in Int /\ k \in Int /\ 0 \in Int /\ k - 1 \in Int
    OBVIOUS
<1>3. Cardinality(1..k) = IF 1 > k THEN 0 ELSE k - 1 + 1
    BY <1>1, <1>2
<1>4. Cardinality(0..(k - 1)) = IF 0 > k - 1 THEN 0 ELSE k - 1 - 0 + 1
    BY <1>1, <1>2
<1> QED BY <1>3, <1>4

\* A function on 1..k is the content of a database.
LEMMA DataIs ==
    ASSUME NEW k \in Nat, NEW x, DOMAIN x = 1..k, x = [p \in 1..k |-> x[p]]
    PROVE  IsData(x) /\ Cardinality(DOMAIN x) = k
BY Counts DEF IsData

\* No database is not a database, and an empty one has no pages.
LEMMA NoDbIs ==
    /\ ~IsData(NoDb) /\ IsData(Empty) /\ NoDb # Empty /\ IsDb(NoDb) /\ IsDb(Empty)
    /\ DOMAIN Empty = {} /\ DOMAIN NoDb = {0} /\ Cardinality(DOMAIN Empty) = 0
<1>1. DOMAIN NoDb = {0} /\ DOMAIN Empty = {}
    BY DEF NoDb, Empty
<1>2. ~IsData(NoDb)
  <2> SUFFICES ASSUME IsData(NoDb) PROVE FALSE
      OBVIOUS
  <2>1. PICK k \in Nat : k = Cardinality(DOMAIN NoDb)
      BY DEF IsData
  <2>2. {0} = 1..k
      BY <1>1, <2>1 DEF IsData
  <2>3. 0 \in 1..k
      BY <2>2
  <2> QED BY <2>3
<1>3. IsData(Empty) /\ Cardinality(DOMAIN Empty) = 0
  <2>1. DOMAIN Empty = 1..0
      BY <1>1
  <2>2. Empty = [p \in 1..0 |-> Empty[p]]
      BY <2>1 DEF Empty
  <2> QED BY <2>1, <2>2, DataIs
<1> QED BY <1>1, <1>2, <1>3 DEF IsDb

\* A database that has pages is not the empty one.
LEMMA NotEmptyData ==
    ASSUME NEW x, NEW p, p \in DOMAIN x
    PROVE  x # Empty
BY NoDbIs

-----------------------------------------------------------------------------
(* Histories and the databases they describe. *)

\* The newest frame of a page is one frame, so a history describes one database.
LEMMA OneState ==
    ASSUME NEW h, NEW n \in Nat, NEW x, NEW y, State(h, n, x), State(h, n, y)
    PROVE  x = y
<1>1. DOMAIN x = DOMAIN y
    BY DEF State, LastOf
<1>2. ASSUME NEW p \in DOMAIN x
      PROVE  x[p] = y[p]
  <2>1. PICK f \in 0..(n - 1) : LastOf(h, n, p, f) /\ x[p] = h[f].data
      BY DEF State
  <2>2. PICK g \in 0..(n - 1) : LastOf(h, n, p, g) /\ y[p] = h[g].data
      BY <1>1 DEF State
  <2>3. f <= g /\ g <= f
      BY <2>1, <2>2 DEF LastOf
  <2>4. f = g
      BY <2>3
  <2> QED BY <2>1, <2>2, <2>4
<1>3. x = [p \in DOMAIN x |-> x[p]] /\ y = [p \in DOMAIN y |-> y[p]]
    BY DEF State
<1> QED BY <1>1, <1>2, <1>3

\* What the first n frames describe depends on them only.
LEMMA StatePrefix ==
    ASSUME NEW g, NEW h, NEW n \in Nat, \A f \in 0..(n - 1) : g[f] = h[f]
    PROVE  /\ \A x : State(g, n, x) <=> State(h, n, x)
           /\ Boundary(g, n) <=> Boundary(h, n)
<1>1. ASSUME NEW p, NEW f
      PROVE  LastOf(g, n, p, f) <=> LastOf(h, n, p, f)
    BY DEF LastOf
<1>2. ASSUME NEW x
      PROVE  State(g, n, x) <=> State(h, n, x)
    BY <1>1 DEF State
<1>3. n = 0 \/ n - 1 \in 0..(n - 1)
    OBVIOUS
<1> QED BY <1>2, <1>3 DEF Boundary

\* The same for ranges of frames.
LEMMA RangePrefix ==
    ASSUME NEW g, NEW h, NEW n \in Nat, NEW m \in Nat, n <= m, \A f \in 0..(n - 1) : g[f] = h[f],
           NEW r, RangeOK(g, n, r)
    PROVE  RangeOK(h, m, r)
<1>1. r[2] \in Nat /\ r[2] >= 1 /\ r[2] - 1 \in 0..(n - 1)
    BY DEF RangeOK
<1>2. Boundary(h, r[2])
    BY <1>1 DEF RangeOK, Boundary
<1> QED BY <1>2 DEF RangeOK

\* Of frames n..b - 1 the newest ones are written over what the first n describe.
LEMMA WrittenState ==
    ASSUME NEW h, NEW n \in Nat, NEW b \in Nat, n <= b, NEW data, State(h, n, data), NEW F,
           \A f \in F : \E i \in n..(b - 1) :
               f = h[i] /\ \A g \in n..(b - 1) : h[g].page = h[i].page => g <= i,
           \A i \in n..(b - 1) : \E f \in F : f.page = h[i].page
    PROVE  State(h, b, Written(data, F))
<1> DEFINE w == Written(data, F)
           P == {f.page : f \in F}
<1>1. DOMAIN w = DOMAIN data \cup P /\ w = [p \in DOMAIN w |-> w[p]]
    BY DEF Written
<1>2. ASSUME NEW p \in P
      PROVE  \E i \in n..(b - 1) : LastOf(h, b, p, i) /\ w[p] = h[i].data
  <2>1. \E f \in F : f.page = p
      OBVIOUS
  <2>2. PICK f : f = CHOOSE e \in F : e.page = p
      OBVIOUS
  <2>3. f \in F /\ f.page = p
      BY <2>1, <2>2
  <2>4. w[p] = f.data
      BY <2>1, <2>2 DEF Written
  <2>5. PICK i \in n..(b - 1) :
            f = h[i] /\ \A g \in n..(b - 1) : h[g].page = h[i].page => g <= i
      BY <2>3
  <2>6. LastOf(h, b, p, i)
    <3>1. i \in 0..(b - 1) /\ h[i].page = p
        BY <2>3, <2>5
    <3>2. ASSUME NEW g \in 0..(b - 1), h[g].page = p PROVE g <= i
      <4>1. CASE g \in n..(b - 1)
          BY <4>1, <2>3, <2>5, <3>2
      <4>2. CASE g < n
          BY <4>2
      <4> QED BY <4>1, <4>2
    <3> QED BY <3>1, <3>2 DEF LastOf
  <2> QED BY <2>4, <2>5, <2>6
<1>3. ASSUME NEW p \in DOMAIN data, p \notin P
      PROVE  \E i \in 0..(b - 1) : LastOf(h, b, p, i) /\ w[p] = h[i].data
  <2>1. w[p] = data[p]
      BY <1>3 DEF Written
  <2>2. PICK i \in 0..(n - 1) : LastOf(h, n, p, i) /\ data[p] = h[i].data
      BY DEF State
  <2>3. ASSUME NEW g \in 0..(b - 1), h[g].page = p PROVE g <= i
    <3>1. g \notin n..(b - 1)
        BY <2>3, <1>3
    <3>2. g \in 0..(n - 1)
        BY <3>1
    <3> QED BY <3>2, <2>2, <2>3 DEF LastOf
  <2>4. i \in 0..(b - 1) /\ h[i].page = p
      BY <2>2 DEF LastOf
  <2> QED BY <2>1, <2>2, <2>3, <2>4 DEF LastOf
<1>4. ASSUME NEW f \in 0..(b - 1)
      PROVE  h[f].page \in DOMAIN w
  <2>1. CASE f \in n..(b - 1)
      BY <2>1, <1>1
  <2>2. CASE f < n
    <3>1. f \in 0..(n - 1)
        BY <2>2
    <3> QED BY <3>1, <1>1 DEF State
  <2> QED BY <2>1, <2>2
<1>5. ASSUME NEW p \in DOMAIN w
      PROVE  \E i \in 0..(b - 1) : LastOf(h, b, p, i) /\ w[p] = h[i].data
  <2>1. CASE p \in P
    <3>1. PICK i \in n..(b - 1) : LastOf(h, b, p, i) /\ w[p] = h[i].data
        BY <2>1, <1>2
    <3>2. i \in 0..(b - 1)
        OBVIOUS
    <3> QED BY <3>1, <3>2
  <2>2. CASE p \notin P
      BY <2>2, <1>1, <1>3
  <2> QED BY <2>1, <2>2
<1> QED BY <1>1, <1>4, <1>5 DEF State

-----------------------------------------------------------------------------
(* Logs that are written anew, and logs that grow. *)

\* The pages of a transaction.
LEMMA TouchedIs ==
    ASSUME NEW t \in Txns
    PROVE  /\ t \in Seq(Pages) /\ Len(t) \in Nat /\ Len(t) >= 1 /\ DOMAIN t = 1..Len(t)
           /\ Touched(t) \subseteq 1..MaxPage /\ Touched(t) # {} /\ MaxPage \in Nat
           /\ \A i \in 1..Len(t) : t[i] \in Touched(t)
<1>1. t \in Seq(Pages) /\ t # <<>>
    BY NamespacesAssumption
<1>2. Len(t) \in Nat /\ Len(t) >= 1 /\ DOMAIN t = 1..Len(t) /\ \A i \in 1..Len(t) : t[i] \in Pages
    BY <1>1
<1>3. 1 \in DOMAIN t
    BY <1>2
<1>4. Touched(t) # {} /\ \A i \in 1..Len(t) : t[i] \in Touched(t)
    BY <1>2, <1>3 DEF Touched
<1>5. Touched(t) \subseteq 1..MaxPage
    BY <1>2 DEF Touched, Pages
<1> QED BY <1>1, <1>2, <1>4, <1>5, FramesAssumption

\* ReplicationLogger::recover writes a log that describes the database.
LEMMA DumpIs ==
    ASSUME NEW d, IsData(d), NEW k \in Nat, k = Cardinality(DOMAIN d)
    PROVE  /\ DOMAIN Dump(d) = 0..(k - 1) /\ State(Dump(d), k, d) /\ Boundary(Dump(d), k)
           /\ \A f \in 0..(k - 1) : Dump(d)[f].no = f
<1> DEFINE h == Dump(d)
<1>1. h = [f \in 0..(k - 1) |-> Frame(f, f + 1, IF f = k - 1 THEN k ELSE 0, d[f + 1])]
    BY DEF Dump
<1>2. DOMAIN h = 0..(k - 1) /\ DOMAIN d = 1..k /\ d = [p \in DOMAIN d |-> d[p]]
    BY <1>1 DEF IsData
<1>3. ASSUME NEW f \in 0..(k - 1)
      PROVE  /\ h[f].no = f /\ h[f].page = f + 1 /\ h[f].data = d[f + 1]
             /\ h[f].size = IF f = k - 1 THEN k ELSE 0
    BY <1>1 DEF Frame
<1> HIDE DEF h
<1>4. Boundary(h, k)
  <2>1. CASE k = 0
      BY <2>1 DEF Boundary
  <2>2. CASE k > 0
    <3>1. k - 1 \in 0..(k - 1)
        BY <2>2
    <3>2. h[k - 1].size = k
        BY <3>1, <1>3
    <3> QED BY <3>2, <2>2 DEF Boundary
  <2> QED BY <2>1, <2>2
<1>5. ASSUME NEW p \in DOMAIN d
      PROVE  \E f \in 0..(k - 1) : LastOf(h, k, p, f) /\ d[p] = h[f].data
  <2>1. p \in 1..k /\ p - 1 \in 0..(k - 1) /\ p - 1 + 1 = p
      BY <1>2
  <2>2. h[p - 1].page = p /\ h[p - 1].data = d[p]
      BY <2>1, <1>3
  <2>3. \A g \in 0..(k - 1) : h[g].page = p => g <= p - 1
      BY <2>1, <1>3
  <2> QED BY <2>1, <2>2, <2>3 DEF LastOf
<1>6. \A f \in 0..(k - 1) : h[f].page \in DOMAIN d
    BY <1>2, <1>3
<1>7. State(h, k, d)
    BY <1>2, <1>5, <1>6 DEF State
<1> QED BY <1>2, <1>3, <1>4, <1>7 DEF h

\* ReplicationLogger::open.
LEMMA OpenLogIs ==
    ASSUME NEW d, DirOK(d), d.here, NEW isDirty
    PROVE  /\ DirOK(OpenLog(d, isDirty)) /\ OpenLog(d, isDirty).log /\ OpenLog(d, isDirty).here
           /\ OpenLog(d, isDirty).db = IF d.db = NoDb THEN Empty ELSE d.db
<1> DEFINE db == IF d.db = NoDb THEN Empty ELSE d.db
           o == OpenLog(d, isDirty)
<1>1. IsData(db)
    BY NoDbIs DEF DirOK, IsDb
<1>2. CASE isDirty \/ ~d.log
  <2>1. o = [d EXCEPT !.db = db, !.log = TRUE, !.hist = Dump(db), !.first = 0,
                      !.queue = <<>>, !.files = {}]
      BY <1>2 DEF OpenLog
  <2>2. /\ o = [x \in DirFields |-> o[x]] /\ o.here = TRUE /\ o.log = TRUE /\ o.db = db
        /\ o.hist = Dump(db) /\ o.first = 0 /\ o.queue = <<>> /\ o.files = {}
      BY <2>1 DEF DirOK, DirFields
  <2>3. PICK k \in Nat : k = Cardinality(DOMAIN db)
      BY <1>1 DEF IsData
  <2>4. /\ DOMAIN Dump(db) = 0..(k - 1) /\ State(Dump(db), k, db) /\ Boundary(Dump(db), k)
        /\ \A f \in 0..(k - 1) : Dump(db)[f].no = f
      BY <2>3, <1>1, DumpIs
  <2>5. NextNo(o) = k
      BY <2>2, <2>4, Counts DEF NextNo
  <2> HIDE DEF o, db
  <2>6. o.queue \in Seq(Nat \X Nat) /\ \A i \in 1..Len(o.queue) : FALSE
    <3>1. <<>> \in Seq(Nat \X Nat) /\ \A i \in 1..Len(<<>>) : FALSE
        OBVIOUS
    <3>2. o.queue = <<>>
        BY <2>2
    <3> QED BY <3>1, <3>2, Zenon
  <2>7. LogOK(o)
    <3>1. /\ DOMAIN o.hist = 0..(NextNo(o) - 1) /\ State(o.hist, NextNo(o), o.db)
          /\ Boundary(o.hist, NextNo(o)) /\ \A f \in 0..(NextNo(o) - 1) : o.hist[f].no = f
        BY <2>2, <2>4, <2>5
    <3>2. NextNo(o) \in Nat /\ IsData(o.db) /\ o.first \in 0..NextNo(o) /\ o.files = {}
      <4>1. o.first = 0 /\ o.files = {} /\ o.db = db
          BY <2>2
      <4> QED BY <4>1, <1>1, <2>5
    <3> QED BY <3>1, <3>2, <2>6 DEF LogOK
  <2>8. DirOK(o)
      BY <1>1, <2>2, <2>7 DEF DirOK, IsDb
  <2> QED BY <2>2, <2>8 DEF o, db
<1>3. CASE ~isDirty /\ d.log
  <2>1. o = d
      BY <1>3 DEF OpenLog
  <2>2. d.db # NoDb
      BY <1>3, NoDbIs DEF DirOK, LogOK
  <2> QED BY <2>1, <2>2, <1>3
<1> QED BY <1>2, <1>3

\* The last place of a page in a transaction.
LastIn(t, p) == Max({i \in DOMAIN t : t[i] = p})

\* The database after a transaction.
LEMMA AfterIs ==
    ASSUME NEW db, IsData(db), NEW t \in Txns, Possible(db, t), NEW v
    PROVE  /\ IsData(After(db, t, v)) /\ After(db, t, v) # Empty
           /\ Cardinality(DOMAIN After(db, t, v)) \in Nat
           /\ Cardinality(DOMAIN After(db, t, v)) # 0
           /\ DOMAIN After(db, t, v) = DOMAIN db \cup Touched(t)
           /\ \A p \in DOMAIN After(db, t, v) :
                After(db, t, v)[p] = IF p \in Touched(t) THEN v + LastIn(t, p) ELSE db[p]
<1> DEFINE m == Cardinality(DOMAIN db)
           S == {m} \cup Touched(t)
           size == Max(S)
           x == After(db, t, v)
<1>1. db # NoDb /\ m \in Nat /\ DOMAIN db = 1..m
    BY NoDbIs DEF IsData
<1>2. Touched(t) \subseteq 1..MaxPage /\ Touched(t) # {} /\ MaxPage \in Nat
    BY TouchedIs
<1>3. S \subseteq 0..(m + MaxPage) /\ m + MaxPage \in Nat /\ S # {}
    BY <1>1, <1>2
<1>4. size \in S /\ \A y \in S : size >= y
    BY <1>3, MaxIs
<1>5. x = [p \in 1..size |-> IF p \in Touched(t) THEN v + LastIn(t, p) ELSE db[p]]
    BY <1>1 DEF After, LastIn
<1>6. Max(Touched(t)) \in Touched(t) /\ \A y \in Touched(t) : Max(Touched(t)) >= y
  <2>1. Touched(t) \subseteq 0..MaxPage
      BY <1>2
  <2> QED BY <2>1, <1>2, MaxIs
<1> HIDE DEF x, size, S
<1>7. size \in Nat /\ size >= 1
  <2>1. PICK q \in Touched(t) : q >= 1 /\ q \in Nat
      BY <1>2
  <2>2. q \in S
      BY DEF S
  <2>3. size >= q
      BY <2>2, <1>4
  <2> QED BY <2>1, <2>3, <1>3, <1>4
<1>8. DOMAIN x = 1..size /\ x = [p \in 1..size |-> x[p]]
    BY <1>5
<1>9. IsData(x) /\ Cardinality(DOMAIN x) = size
    BY <1>7, <1>8, DataIs
<1>10. 1 \in DOMAIN x
    BY <1>7, <1>8
<1>11. 1..size = 1..m \cup Touched(t)
  <2>1. ASSUME NEW p \in 1..m PROVE p \in 1..size
    <3>1. size >= m
        BY <1>4 DEF S
    <3> QED BY <3>1, <1>1, <1>7
  <2>2. ASSUME NEW p \in Touched(t) PROVE p \in 1..size
    <3>1. size >= p
        BY <1>4 DEF S
    <3> QED BY <3>1, <1>2, <1>7
  <2>3. ASSUME NEW p \in 1..size, p \notin Touched(t) PROVE p \in 1..m
    <3>1. CASE size = m
        BY <3>1
    <3>2. CASE size \in Touched(t)
      <4>1. Max(Touched(t)) >= size /\ Max(Touched(t)) \in Nat
          BY <3>2, <1>2, <1>6
      <4>2. p \in 1..Max(Touched(t))
          BY <4>1, <1>7
      <4>3. p \in DOMAIN db
          BY <4>2, <2>3 DEF Possible
      <4> QED BY <4>3, <1>1
    <3> QED BY <3>1, <3>2, <1>4 DEF S
  <2> QED BY <2>1, <2>2, <2>3
<1>12. x # Empty
    BY <1>10, NotEmptyData
<1> QED BY <1>1, <1>5, <1>7, <1>8, <1>9, <1>11, <1>12 DEF x

\* A transaction is committed through the logger: the log grows by its frames, of which
\* only the last ends a transaction, and describes the database again.
LEMMA LoggedIs ==
    ASSUME NEW d, DirOK(d), d.log, NEW t \in Txns, Possible(d.db, t), NEW v \in Nat
    PROVE  /\ DirOK(Logged(d, t, v)) /\ Logged(d, t, v).log /\ Logged(d, t, v).here
           /\ Logged(d, t, v).db = After(d.db, t, v)
           /\ IsData(Logged(d, t, v).db) /\ Logged(d, t, v).db # Empty
           /\ NextNo(Logged(d, t, v)) = NextNo(d) + Len(t)
           /\ \A f \in 0..(NextNo(d) - 1) : Logged(d, t, v).hist[f] = d.hist[f]
           /\ \A f \in NextNo(d)..(NextNo(d) + Len(t) - 2) : Logged(d, t, v).hist[f].size = 0
<1> DEFINE x == After(d.db, t, v)
           o == Logged(d, t, v)
<1>0. IsData(d.db)
    BY DEF DirOK, LogOK
<1>1. PICK n \in Nat : n = NextNo(d)
    BY DEF DirOK, LogOK
<1>2. PICK k \in Nat : k = Len(t) /\ k >= 1 /\ DOMAIN t = 1..k
    BY TouchedIs
<1>4. /\ IsData(x) /\ x # Empty /\ DOMAIN x = DOMAIN d.db \cup Touched(t)
      /\ Cardinality(DOMAIN x) \in Nat /\ Cardinality(DOMAIN x) # 0
      /\ \A p \in DOMAIN x : x[p] = IF p \in Touched(t) THEN v + LastIn(t, p) ELSE d.db[p]
  <2>1. PICK db : db = d.db
      OBVIOUS
  <2>2. IsData(db) /\ Possible(db, t)
      BY <2>1, <1>0
  <2>3. PICK y : y = After(db, t, v)
      OBVIOUS
  <2>4. /\ IsData(y) /\ y # Empty /\ DOMAIN y = DOMAIN db \cup Touched(t)
        /\ Cardinality(DOMAIN y) \in Nat /\ Cardinality(DOMAIN y) # 0
        /\ \A p \in DOMAIN y : y[p] = IF p \in Touched(t) THEN v + LastIn(t, p) ELSE db[p]
      BY <2>2, <2>3, AfterIs
  <2> QED BY <2>1, <2>3, <2>4
<1>3. PICK c \in Nat : c = Cardinality(DOMAIN x) /\ c # 0
    BY <1>4
<1>5. /\ LogOK(d) /\ d.here = TRUE /\ d.log = TRUE /\ d = [y \in DirFields |-> d[y]]
    BY DEF DirOK
<1> HIDE DEF x
<1>6. o = [d EXCEPT !.db = x,
                    !.hist = [f \in 0..(n + k - 1) |-> IF f < n THEN d.hist[f]
                        ELSE Frame(f, t[f - n + 1], IF f = n + k - 1 THEN c ELSE 0, v + f - n + 1)]]
    BY <1>1, <1>2, <1>3 DEF Logged, x
<1> HIDE DEF o
<1>7. PICK h : h = [f \in 0..(n + k - 1) |-> IF f < n THEN d.hist[f]
                        ELSE Frame(f, t[f - n + 1], IF f = n + k - 1 THEN c ELSE 0, v + f - n + 1)]
    OBVIOUS
<1>8. o = [d EXCEPT !.db = x, !.hist = h]
    BY <1>6, <1>7
<1>9. /\ o.db = x /\ o.hist = h /\ o.here = TRUE /\ o.log = TRUE /\ o.first = d.first
      /\ o.queue = d.queue /\ o.files = d.files /\ o = [y \in DirFields |-> o[y]]
    BY <1>5, <1>8 DEF DirFields
<1>10. DOMAIN h = 0..(n + k - 1) /\ \A f \in 0..(n - 1) : h[f] = d.hist[f]
    BY <1>7
<1>11. ASSUME NEW f \in n..(n + k - 1)
       PROVE  /\ h[f].no = f /\ h[f].page = t[f - n + 1] /\ h[f].data = v + f - n + 1
              /\ h[f].size = (IF f = n + k - 1 THEN c ELSE 0)
              /\ f - n + 1 \in 1..k /\ h[f].page \in Touched(t)
  <2>1. f \in 0..(n + k - 1) /\ ~(f < n) /\ f - n + 1 \in 1..k
      OBVIOUS
  <2>2. h[f] = Frame(f, t[f - n + 1], IF f = n + k - 1 THEN c ELSE 0, v + f - n + 1)
      BY <2>1, <1>7
  <2>3. t[f - n + 1] \in Touched(t)
      BY <2>1, <1>2 DEF Touched
  <2> QED BY <2>1, <2>2, <2>3 DEF Frame
<1>12. NextNo(o) = n + k
  <2>1. n + k \in Nat /\ DOMAIN h = 0..((n + k) - 1)
      BY <1>10
  <2>2. Cardinality(DOMAIN h) = n + k
      BY <2>1, Counts
  <2> QED BY <2>2, <1>9 DEF NextNo
<1>13. Boundary(h, n + k)
  <2>1. n + k - 1 \in n..(n + k - 1)
      BY <1>2
  <2> QED BY <2>1, <1>3, <1>11 DEF Boundary
<1>14. State(d.hist, n, d.db) /\ \A f \in 0..(n - 1) : d.hist[f].no = f
    BY <1>1, <1>5 DEF LogOK
<1>15. ASSUME NEW p \in Touched(t)
       PROVE  \E f \in 0..(n + k - 1) : LastOf(h, n + k, p, f) /\ x[p] = h[f].data
  <2> DEFINE I == {i \in DOMAIN t : t[i] = p}
  <2>1. I # {}
      BY DEF Touched
  <2>2. I \subseteq 0..k
      BY <1>2
  <2>3. PICK i : i = Max(I) /\ i = LastIn(t, p)
      BY DEF LastIn
  <2>4. i \in I /\ \A j \in I : i >= j
    <3> HIDE DEF I
    <3> QED BY <2>1, <2>2, <2>3, MaxIs
  <2>5. i \in 1..k /\ t[i] = p
      BY <2>4, <1>2
  <2>6. PICK f \in n..(n + k - 1) : f = n + i - 1 /\ f - n + 1 = i
      BY <2>5
  <2>7. h[f].page = p /\ h[f].data = v + f - n + 1
      BY <2>5, <2>6, <1>11
  <2>8. ASSUME NEW g \in 0..(n + k - 1), h[g].page = p PROVE g <= f
    <3>1. CASE g < n
        BY <3>1
    <3>2. CASE g >= n
      <4>1. g \in n..(n + k - 1)
          BY <3>2
      <4>2. t[g - n + 1] = p /\ g - n + 1 \in 1..k
          BY <4>1, <1>11, <2>8
      <4>3. g - n + 1 \in I
          BY <4>2, <1>2
      <4>4. i >= g - n + 1
          BY <4>3, <2>4
      <4> QED BY <4>4, <2>5, <2>6
    <3> QED BY <3>1, <3>2
  <2>9. x[p] = v + i
      BY <2>3, <1>4
  <2>10. v + f - n + 1 = v + i
      BY <2>5, <2>6
  <2>11. f \in 0..(n + k - 1)
      OBVIOUS
  <2> QED BY <2>7, <2>8, <2>9, <2>10, <2>11 DEF LastOf
<1>16. ASSUME NEW p \in DOMAIN x, p \notin Touched(t)
       PROVE  \E f \in 0..(n + k - 1) : LastOf(h, n + k, p, f) /\ x[p] = h[f].data
  <2>1. p \in DOMAIN d.db /\ x[p] = d.db[p]
      BY <1>16, <1>4
  <2>2. PICK f \in 0..(n - 1) : LastOf(d.hist, n, p, f) /\ d.db[p] = d.hist[f].data
      BY <2>1, <1>14 DEF State
  <2>3. h[f] = d.hist[f] /\ f \in 0..(n + k - 1) /\ h[f].page = p
      BY <2>2, <1>10 DEF LastOf
  <2>4. ASSUME NEW g \in 0..(n + k - 1), h[g].page = p PROVE g <= f
    <3>1. CASE g < n
      <4>1. g \in 0..(n - 1)
          BY <3>1
      <4> QED BY <4>1, <2>2, <2>4, <1>10 DEF LastOf
    <3>2. CASE g >= n
      <4>1. g \in n..(n + k - 1)
          BY <3>2
      <4> QED BY <4>1, <1>11, <1>16, <2>4
    <3> QED BY <3>1, <3>2
  <2> QED BY <2>1, <2>2, <2>3, <2>4 DEF LastOf
<1>17. ASSUME NEW f \in 0..(n + k - 1)
       PROVE  h[f].page \in DOMAIN x /\ h[f].no = f
  <2>1. CASE f < n
    <3>1. f \in 0..(n - 1)
        BY <2>1
    <3>2. h[f] = d.hist[f] /\ d.hist[f].page \in DOMAIN d.db /\ d.hist[f].no = f
        BY <3>1, <1>10, <1>14 DEF State
    <3> QED BY <3>2, <1>4
  <2>2. CASE f >= n
    <3>1. f \in n..(n + k - 1)
        BY <2>2
    <3> QED BY <3>1, <1>11, <1>4
  <2> QED BY <2>1, <2>2
<1>18. State(h, n + k, x)
  <2>1. x = [p \in DOMAIN x |-> x[p]]
      BY <1>4 DEF IsData
  <2>2. (n + k) - 1 = n + k - 1
      OBVIOUS
  <2> QED BY <2>1, <2>2, <1>15, <1>16, <1>17 DEF State
<1>19. /\ \A i \in 1..Len(d.queue) : RangeOK(h, n + k, d.queue[i])
       /\ \A r \in d.files : RangeOK(h, n + k, r)
  <2>1. n + k \in Nat /\ n <= n + k /\ \A f \in 0..(n - 1) : d.hist[f] = h[f]
      BY <1>10
  <2>2. ASSUME NEW r, RangeOK(d.hist, n, r) PROVE RangeOK(h, n + k, r)
      BY <2>1, <2>2, RangePrefix
  <2>3. /\ \A i \in 1..Len(d.queue) : RangeOK(d.hist, n, d.queue[i])
        /\ \A r \in d.files : RangeOK(d.hist, n, r)
      BY <1>1, <1>5 DEF LogOK
  <2> QED BY <2>2, <2>3
<1>20. LogOK(o)
  <2>1. NextNo(o) \in Nat /\ o.first \in 0..NextNo(o) /\ o.queue \in Seq(Nat \X Nat)
    <3>1. d.first \in 0..n /\ d.queue \in Seq(Nat \X Nat)
        BY <1>1, <1>5 DEF LogOK
    <3>2. n + k \in Nat /\ d.first \in 0..(n + k)
        BY <3>1
    <3>3. NextNo(o) = n + k /\ o.first = d.first /\ o.queue = d.queue
        BY <1>9, <1>12
    <3> QED BY <3>1, <3>2, <3>3
  <2>2. /\ DOMAIN o.hist = 0..(NextNo(o) - 1) /\ Boundary(o.hist, NextNo(o))
        /\ IsData(o.db) /\ State(o.hist, NextNo(o), o.db)
        /\ \A f \in 0..(NextNo(o) - 1) : o.hist[f].no = f
    <3>1. o.hist = h /\ o.db = x
        BY <1>9
    <3>2. \A f \in 0..(n + k - 1) : h[f].no = f
        BY <1>17
    <3>3. DOMAIN h = 0..(n + k - 1) /\ IsData(x)
        BY <1>4, <1>10
    <3> QED BY <1>12, <1>13, <1>18, <3>1, <3>2, <3>3
  <2>3. /\ \A i \in 1..Len(o.queue) : RangeOK(o.hist, NextNo(o), o.queue[i])
        /\ \A r \in o.files : RangeOK(o.hist, NextNo(o), r)
      BY <1>9, <1>12, <1>19
  <2> QED BY <2>1, <2>2, <2>3 DEF LogOK
<1>21. DirOK(o)
    BY <1>4, <1>9, <1>20 DEF DirOK, IsDb
<1>22. \A f \in n..(n + k - 2) : h[f].size = 0
  <2>1. \A f \in n..(n + k - 2) : f \in n..(n + k - 1) /\ f # n + k - 1
      OBVIOUS
  <2> QED BY <2>1, <1>11
<1> QED BY <1>1, <1>2, <1>4, <1>9, <1>10, <1>12, <1>21, <1>22 DEF o, x

-----------------------------------------------------------------------------
(* What a step leaves alone. *)

\* One directory changes.
LEMMA DirAt ==
    ASSUME Dirs, NEW m \in Names, NEW e, DirOK(e), dir' = [dir EXCEPT ![m] = e]
    PROVE  Dirs' /\ dir'[m] = e /\ \A n \in Names : n # m => dir'[n] = dir[n]
BY DEF Dirs

\* No directory is a directory without anything.
LEMMA NoDirIs ==
    /\ DirOK(NoDir) /\ NoDir.db = NoDb /\ ~NoDir.log /\ ~NoDir.here
    /\ \A x : IsDb(x) => /\ DirOK([BareDir EXCEPT !.db = x])
                         /\ [BareDir EXCEPT !.db = x].db = x /\ [BareDir EXCEPT !.db = x].here
                         /\ ~[BareDir EXCEPT !.db = x].log
<1>1. /\ NoDir = [y \in DirFields |-> NoDir[y]] /\ NoDir.db = NoDb /\ NoDir.log = FALSE
      /\ NoDir.here = FALSE
    BY DEF NoDir, DirFields
<1>2. DirOK(NoDir)
    BY <1>1, NoDbIs DEF DirOK
<1>3. ASSUME NEW x, IsDb(x)
      PROVE  /\ DirOK([BareDir EXCEPT !.db = x]) /\ [BareDir EXCEPT !.db = x].db = x
             /\ [BareDir EXCEPT !.db = x].here /\ ~[BareDir EXCEPT !.db = x].log
  <2>1. PICK e : e = [BareDir EXCEPT !.db = x]
      OBVIOUS
  <2>2. /\ e = [y \in DirFields |-> e[y]] /\ e.db = x /\ e.here = TRUE /\ e.log = FALSE
      BY <2>1 DEF BareDir, NoDir, DirFields
  <2>3. DirOK(e)
      BY <2>2, <1>3 DEF DirOK
  <2> QED BY <2>1, <2>2, <2>3
<1> QED BY <1>1, <1>2, <1>3

\* A directory with the same log and database, for which as much is known of compactions.
LEMMA SameLog ==
    ASSUME NEW d, NEW e, DirOK(d), e = [x \in DirFields |-> e[x]], e.hist = d.hist, e.db = d.db,
           e.log = d.log, e.here \in BOOLEAN, d.here => e.here,
           LogOK(d) => /\ e.first \in 0..NextNo(d) /\ e.queue \in Seq(Nat \X Nat)
                       /\ \A i \in 1..Len(e.queue) : RangeOK(d.hist, NextNo(d), e.queue[i])
                       /\ \A r \in e.files : RangeOK(d.hist, NextNo(d), r)
    PROVE  DirOK(e)
<1>1. NextNo(e) = NextNo(d)
    BY DEF NextNo
<1>2. LogOK(d) => LogOK(e)
    BY <1>1 DEF LogOK
<1> QED BY <1>2 DEF DirOK

\* The operation in progress, when logs and databases stay the same.
LEMMA OpKept ==
    ASSUME Operation, op' = op, store' = store, config' = config,
           \A n \in Names : /\ dir'[n].hist = dir[n].hist /\ dir'[n].db = dir[n].db
                            /\ dir'[n].log = dir[n].log /\ dir'[n].here = dir[n].here
    PROVE  Operation'
<1>1. CASE op = NoOp
    BY <1>1 DEF Operation
<1>2. CASE IsPlain(op)
  <2>1. IsPlain(op)'
      BY <1>2 DEF IsPlain
  <2> QED BY <2>1 DEF Operation
<1>3. CASE IsEarly(op)
  <2>1. IsEarly(op)'
      BY <1>3 DEF IsEarly, Forking
  <2> QED BY <2>1 DEF Operation
<1>4. CASE IsLate(op)
  <2>1. Forking(op)' /\ Forking(op)
      BY <1>4 DEF IsLate, Forking
  <2>2. op.n \in Names /\ op.to \in Names
      BY <2>1 DEF Forking
  <2>3. Copied(op, dir[op.n]) => Copied(op, dir'[op.n])
      BY <2>2 DEF Copied, NextNo
  <2>4. IsLate(op)'
      BY <1>4, <2>1, <2>2, <2>3 DEF IsLate
  <2> QED BY <2>4 DEF Operation
<1> QED BY <1>1, <1>2, <1>3, <1>4 DEF Operation

\* Nothing that CInv is about changes but the operation.
LEMMA OnlyOp ==
    ASSUME CInv, UNCHANGED <<dir, gens, config, ver, store, conn>>, Operation'
    PROVE  CInv'
BY DEF CInv, Dirs, Backups, Loaded

\* What is known of an operation at a program counter.
LEMMA OpAt ==
    ASSUME Operation
    PROVE  /\ op = NoOp => op.pc = "none" /\ op.kind = "none"
           /\ op.pc \in {"tombstone", "rmdir", "dump"} => IsPlain(op)
           /\ op.pc = "fork" => IsEarly(op)
           /\ op.pc \in {"copy", "stream", "snapshot", "rename", "created", "cleanup"} => IsLate(op)
           /\ op.pc = "create" => IsPlain(op) \/ IsEarly(op)
           /\ op.kind = "fork" <=> IsEarly(op) \/ IsLate(op)
BY DEF Operation, NoOp, IsPlain, IsEarly, IsLate, Forking

-----------------------------------------------------------------------------
(* CInv is kept: requests, deletions, the file system. *)

\* An operation of NamespaceStore on n begins.
LEMMA OnIs ==
    ASSUME NEW k, NEW n, NEW pc, NEW opt, NEW allow, op' = On(k, n, pc, opt, allow)
    PROVE  /\ op' = [x \in PlainFields |-> op'[x]] /\ op'.kind = k /\ op'.n = n /\ op'.pc = pc
           /\ op'.opt = opt /\ op'.allow = allow
BY DEF On, PlainFields

\* with, when the namespace is there.
LEMMA WithStep ==
    ASSUME CInv, NEW n \in Names, With(n)
    PROVE  CInv'
<1>1. Operation'
    BY OpKept DEF With, CInv
<1>2. Loaded'
  <2>1. conn' = [n |-> n, live |-> TRUE] /\ UNCHANGED <<config, ver, store, dir>> /\ n \in store
      BY DEF With, counters
  <2>2. conn' \in [n : Names, live : BOOLEAN] /\ conn'.n = n
      BY <2>1
  <2> QED BY <2>1, <2>2 DEF CInv, Loaded
<1> QED BY <1>1, <1>2 DEF With, CInv, Dirs, Backups, backup

\* with and create.
LEMMA LoadStep ==
    ASSUME CInv, NEW n \in Names, WithLoad(n) \/ \E opt \in {"latest", "dump"} : Create(n, opt)
    PROVE  CInv'
<1>1. UNCHANGED <<dir, gens, config, ver, store, conn>> /\ n \notin store
    BY DEF WithLoad, Create, Begin, backup
<1>2. IsPlain(op)'
  <2>1. CASE WithLoad(n)
    <3>1. op' = On("with", n, "create", "latest", config.kind = "replica")
        BY <2>1 DEF WithLoad, Begin
    <3>2. /\ op' = [x \in PlainFields |-> op'[x]] /\ op'.kind = "with" /\ op'.n = n
          /\ op'.pc = "create" /\ op'.opt = "latest"
          /\ op'.allow = (config.kind = "replica")
        BY <3>1, OnIs
    <3> QED BY <3>2, <1>1 DEF IsPlain
  <2>2. ASSUME NEW opt \in {"latest", "dump"}, Create(n, opt)
        PROVE  IsPlain(op)'
    <3>1. op' = On("create", n, "create", opt, TRUE)
        BY <2>2 DEF Create, Begin
    <3>2. /\ op' = [x \in PlainFields |-> op'[x]] /\ op'.kind = "create" /\ op'.n = n
          /\ op'.pc = "create" /\ op'.opt = opt
          /\ op'.allow = TRUE
        BY <3>1, OnIs
    <3> QED BY <3>2, <1>1 DEF IsPlain
  <2> QED BY <2>1, <2>2
<1> QED BY <1>1, <1>2, OnlyOp DEF Operation

\* The namespace leaves the store.
LEMMA UnloadIs ==
    ASSUME Loaded, NEW n \in Names, Unload(n), UNCHANGED <<dir, config, ver>>
    PROVE  Loaded' /\ n \notin store' /\ store' \subseteq store
<1>1. conn' = NoConn \/ conn' \in [n : Names, live : BOOLEAN]
    BY DEF Unload, Loaded, NoConn
<1>2. conn'.live => conn'.n \in store'
    BY DEF Unload, Loaded, NoConn
<1> QED BY <1>1, <1>2 DEF Unload, Loaded

\* destroy and reset.
LEMMA DropStep ==
    ASSUME CInv, NEW n \in Names, Destroy(n) \/ Reset(n)
    PROVE  CInv'
<1>1. UNCHANGED <<dir, gens, config, ver>> /\ Unload(n)
    BY DEF Destroy, Reset, Begin, backup
<1>2. Loaded' /\ n \notin store'
    BY <1>1, UnloadIs DEF CInv
<1>3. IsPlain(op)'
  <2>1. CASE Destroy(n)
    <3>1. op' = On("destroy", n, IF config.backups THEN "tombstone" ELSE "rmdir", "latest", TRUE)
        BY <2>1 DEF Destroy, Begin
    <3>2. /\ op' = [x \in PlainFields |-> op'[x]] /\ op'.kind = "destroy" /\ op'.n = n
          /\ op'.pc = (IF config.backups THEN "tombstone" ELSE "rmdir") /\ op'.opt = "latest"
          /\ op'.allow = TRUE
        BY <3>1, OnIs
    <3> QED BY <3>2, <1>1, <1>2 DEF IsPlain
  <2>2. CASE Reset(n)
    <3>1. op' = On("reset", n, "rmdir", "latest", TRUE)
        BY <2>2 DEF Reset, Begin
    <3>2. /\ op' = [x \in PlainFields |-> op'[x]] /\ op'.kind = "reset" /\ op'.n = n
          /\ op'.pc = "rmdir" /\ op'.opt = "latest"
          /\ op'.allow = TRUE
        BY <3>1, OnIs
    <3> QED BY <3>2, <1>1, <1>2 DEF IsPlain
  <2> QED BY <2>1, <2>2
<1> QED BY <1>1, <1>2, <1>3 DEF CInv, Dirs, Backups, Operation

\* fork.
LEMMA ForkStep ==
    ASSUME CInv, NEW n \in Names, NEW to \in Names, ForkFrom(n, to)
    PROVE  CInv'
<1>1. UNCHANGED <<dir, gens, config, ver, store, conn>> /\ to \notin store /\ n # to
    BY DEF ForkFrom, Begin, backup
<1>2. op' = [kind |-> "fork", n |-> n, to |-> to, opt |-> "latest", allow |-> FALSE,
             pc |-> IF n \notin store THEN "create" ELSE "fork", left |-> DumpLen]
    BY DEF ForkFrom, Begin
<1>3. IsEarly(op)'
  <2>1. op' = [x \in EarlyFields |-> op'[x]]
      BY <1>2 DEF EarlyFields, PlainFields
  <2> QED BY <1>1, <1>2, <2>1 DEF IsEarly, Forking
<1> QED BY <1>1, <1>3, OnlyOp DEF Operation

\* The tombstone.
LEMMA TombstoneStep ==
    ASSUME CInv, PutTombstone
    PROVE  CInv'
<1>1. UNCHANGED <<dir, gens, config, ver, store, conn>> /\ op' = [op EXCEPT !.pc = "rmdir"]
    BY DEF PutTombstone, Elsewhere
<1>2. IsPlain(op)
    BY OpAt DEF CInv, PutTombstone
<1>3. IsPlain(op)'
    BY <1>1, <1>2 DEF IsPlain, PlainFields, PutTombstone
<1> QED BY <1>1, <1>3, OnlyOp DEF Operation

\* An operation that ends leaves the rest as it is.
LEMMA EndStep ==
    ASSUME CInv, UNCHANGED <<dir, gens, config, ver, store, conn>>, op' = NoOp
    PROVE  CInv'
BY OnlyOp DEF Operation

\* remove_dir_all.
LEMMA RemoveStep ==
    ASSUME CInv, RemoveDir
    PROVE  CInv'
<1>1. UNCHANGED <<gens, config, ver, store, conn>> /\ dir' = [dir EXCEPT ![op.n] = NoDir]
    BY DEF RemoveDir, Elsewhere, backup
<1>2. IsPlain(op) /\ op.n \in Names /\ op.n \notin store
    BY OpAt DEF CInv, RemoveDir, IsPlain
<1>3. Dirs' /\ \A m \in Names : m # op.n => dir'[m] = dir[m]
    BY <1>1, <1>2, DirAt, NoDirIs DEF CInv
<1>4. Loaded'
    BY <1>1, <1>2, <1>3 DEF CInv, Loaded
<1>5. Backups'
    BY <1>1 DEF CInv, Backups
<1>6. op' = NoOp \/ (op.kind = "reset" /\ op' = [op EXCEPT !.pc = "create"])
    BY DEF RemoveDir, End
<1>7. op.kind = "reset" /\ op' = [op EXCEPT !.pc = "create"] => IsPlain(op)'
    BY <1>1, <1>2 DEF IsPlain, PlainFields
<1> QED BY <1>3, <1>4, <1>5, <1>6, <1>7 DEF CInv, Operation

\* A deletion in the background.
LEMMA DeletionStep ==
    ASSUME CInv, NEW t, CommitDeletion(t)
    PROVE  CInv'
<1>1. UNCHANGED <<dir, config, ver, store, conn, op>>
    BY DEF CommitDeletion, counters
<1>2. gens' = gens \/ gens' = [gens EXCEPT ![t.n] = NoDb]
    BY DEF CommitDeletion
<1>3. Backups'
    BY <1>1, <1>2, NoDbIs DEF CInv, Backups
<1>4. Operation'
    BY <1>1, OpKept DEF CInv
<1> QED BY <1>1, <1>3, <1>4 DEF CInv, Dirs, Loaded

-----------------------------------------------------------------------------
(* CInv is kept: namespaces are made. *)

\* The parts of NewPrimary.
Recovers(n) == config.backups /\ gens[n] # NoDb
Opened(n, keeps) ==
    OpenLog(IF Recovers(n) /\ ~keeps THEN [BareDir EXCEPT !.db = gens[n]]
            ELSE [dir[n] EXCEPT !.here = TRUE],
            dirty \/ (Recovers(n) /\ ~keeps))
Refused(n) == ~op.allow /\ ~config.backups /\ ~dir[n].here
Buried(n) == Recovers(n) /\ n \in tomb

\* The directory is made where there was none.
LEMMA HereIs ==
    ASSUME NEW d, DirOK(d)
    PROVE  /\ DirOK([d EXCEPT !.here = TRUE]) /\ [d EXCEPT !.here = TRUE].here
           /\ [d EXCEPT !.here = TRUE].db = d.db /\ [d EXCEPT !.here = TRUE].log = d.log
           /\ [d EXCEPT !.here = TRUE].hist = d.hist
<1>1. PICK e : e = [d EXCEPT !.here = TRUE]
    OBVIOUS
<1>2. /\ e = [x \in DirFields |-> e[x]] /\ e.here = TRUE /\ e.hist = d.hist /\ e.db = d.db
      /\ e.log = d.log /\ e.first = d.first /\ e.queue = d.queue /\ e.files = d.files
    BY <1>1 DEF DirOK, DirFields
<1>3. DirOK(e)
  <2>1. LogOK(d) => /\ e.first \in 0..NextNo(d) /\ e.queue \in Seq(Nat \X Nat)
                    /\ \A i \in 1..Len(e.queue) : RangeOK(d.hist, NextNo(d), e.queue[i])
                    /\ \A r \in e.files : RangeOK(d.hist, NextNo(d), r)
      BY <1>2 DEF LogOK
  <2> QED BY <1>2, <2>1, SameLog
<1> QED BY <1>1, <1>2, <1>3

\* The directory of a namespace that was opened.
LEMMA OpenedIs ==
    ASSUME Dirs, Backups, NEW n \in Names, NEW keeps
    PROVE  /\ DirOK(Opened(n, keeps)) /\ Opened(n, keeps).log /\ Opened(n, keeps).here
           /\ Opened(n, keeps).db = IF Recovers(n) /\ ~keeps THEN gens[n]
                             ELSE IF dir[n].db = NoDb THEN Empty ELSE dir[n].db
<1>1. CASE Recovers(n) /\ ~keeps
  <2>1. PICK d : d = [BareDir EXCEPT !.db = gens[n]]
      OBVIOUS
  <2>2. DirOK(d) /\ d.db = gens[n] /\ d.here /\ gens[n] # NoDb
      BY <1>1, <2>1, NoDirIs DEF Backups, Recovers
  <2>3. PICK b : b = (dirty \/ (Recovers(n) /\ ~keeps))
      OBVIOUS
  <2>4. Opened(n, keeps) = OpenLog(d, b)
      BY <1>1, <2>1, <2>3 DEF Opened
  <2> QED BY <1>1, <2>2, <2>4, OpenLogIs
<1>2. CASE ~(Recovers(n) /\ ~keeps)
  <2>1. PICK d : d = [dir[n] EXCEPT !.here = TRUE]
      OBVIOUS
  <2>2. DirOK(d) /\ d.db = dir[n].db /\ d.here
      BY <2>1, HereIs DEF Dirs
  <2>3. PICK b : b = (dirty \/ (Recovers(n) /\ ~keeps))
      OBVIOUS
  <2>4. Opened(n, keeps) = OpenLog(d, b)
      BY <1>2, <2>1, <2>3 DEF Opened
  <2> QED BY <1>2, <2>2, <2>4, OpenLogIs
<1> QED BY <1>1, <1>2

\* What NewPrimary may do.
LEMMA NewPrimaryIs ==
    ASSUME NEW n, NewPrimary(n)
    PROVE  \/ Fails /\ UNCHANGED <<store, dir, want>>
           \/ /\ Fails /\ UNCHANGED <<store, want>> /\ Buried(n)
              /\ dir' = [dir EXCEPT ![n].here = TRUE]
           \/ \E keeps \in Keeps(n) :
              /\ ~Refused(n) /\ ~Buried(n) /\ dir' = [dir EXCEPT ![n] = Opened(n, keeps)]
              /\ \/ op.opt = "dump" /\ Fails /\ UNCHANGED <<store, want>>
                 \/ op.opt = "dump" /\ op' = [op EXCEPT !.pc = "dump"] /\ UNCHANGED <<store, want>>
                 \/ /\ op.opt = "latest" /\ Insert(n)
                    /\ want' = [want EXCEPT ![n] = {Opened(n, keeps).db} \cap @]
BY DEF NewPrimary, Refused, Buried, Recovers, Opened

\* The name of the namespace that is made.
LEMMA TargetIs ==
    ASSUME Operation, op.pc \in {"create", "created"}
    PROVE  /\ Target \in Names \ store
           /\ IsPlain(op) \/ IsEarly(op) => op.pc = "create" /\ Target = op.n
           /\ IsLate(op) => op.pc = "created" /\ Target = op.to /\ op.n # op.to
           /\ IsPlain(op) \/ IsEarly(op) \/ IsLate(op)
<1>1. CASE IsPlain(op)
  <2>1. op.pc = "create" /\ op.kind # "fork" /\ op.n \in Names \ store /\ ~IsLate(op)
      BY <1>1, OpAt DEF IsPlain
  <2> QED BY <1>1, <2>1 DEF Target
<1>2. CASE IsEarly(op)
  <2>1. op.pc = "create" /\ op.n \in Names \ store
      BY <1>2 DEF IsEarly, Forking
  <2>2. ~IsLate(op)
      BY <2>1 DEF IsLate
  <2> QED BY <1>2, <2>1, <2>2 DEF Target
<1>3. CASE IsLate(op)
  <2>1. op.pc = "created" /\ op.kind = "fork" /\ op.to \in Names \ store /\ op.n # op.to
      BY <1>3 DEF IsLate, Forking
  <2>2. ~IsPlain(op) /\ ~IsEarly(op)
      BY <2>1 DEF IsPlain, IsEarly
  <2> QED BY <1>3, <2>1, <2>2 DEF Target
<1>4. op # NoOp
    BY DEF NoOp
<1> QED BY <1>1, <1>2, <1>3, <1>4 DEF Operation

\* An operation that fails ends, or cleans up first.
LEMMA FailsIs ==
    ASSUME Operation, Fails, UNCHANGED <<store, config>>, op.pc \notin {"fork", "callback"}
    PROVE  /\ Operation'
           /\ op' = NoOp \/ (IsLate(op) /\ op' = [op EXCEPT !.pc = "cleanup"])
<1>1. op' = NoOp \/ (op.kind = "fork" /\ op.pc # "create" /\ op' = [op EXCEPT !.pc = "cleanup"])
    BY DEF Fails, End
<1>2. ASSUME op.kind = "fork", op.pc # "create", op' = [op EXCEPT !.pc = "cleanup"]
      PROVE  IsLate(op) /\ IsLate(op)'
  <2>1. IsLate(op)
      BY <1>2, OpAt DEF IsEarly
  <2>2. op' = [x \in LateFields |-> op'[x]] /\ op'.pc = "cleanup" /\ op'.seen = op.seen
      BY <1>2, <2>1 DEF IsLate, LateFields, EarlyFields, PlainFields
  <2>3. op'.kind = op.kind /\ op'.n = op.n /\ op'.to = op.to /\ op'.opt = op.opt /\ op'.allow = op.allow
      BY <1>2, <2>1 DEF IsLate, LateFields, EarlyFields, PlainFields
  <2>4. Forking(op)'
      BY <2>1, <2>3 DEF IsLate, Forking
  <2> QED BY <2>1, <2>2, <2>3, <2>4 DEF IsLate
<1> QED BY <1>1, <1>2 DEF Operation

\* The namespace n, which was not loaded, is entered in the store.
LEMMA EnterIs ==
    ASSUME Loaded, NEW n \in Names \ store, UNCHANGED <<config, ver, conn>>,
           store' \in {store, store \cup {n}}, \A m \in Names : m # n => dir'[m] = dir[m],
           n \in store' => config.kind = "replica" \/ dir'[n].log
    PROVE  Loaded'
<1>1. config.kind = "primary" => \A m \in store' : dir'[m].log
    BY DEF Loaded
<1> QED BY <1>1 DEF Loaded

\* The operation after the instance of n was entered.
LEMMA InsertIs ==
    ASSUME Operation, op.pc \in {"create", "created", "dump"}, NEW n \in Names \ store, Insert(n),
           config' = config, IsLate(op) => n # op.n, IsPlain(op) \/ IsEarly(op) => n = op.n
    PROVE  /\ Operation' /\ store' = store \cup {n}
           /\ op' = NoOp \/ (IsEarly(op) /\ op' = [op EXCEPT !.pc = "fork"])
<1>1. store' = store \cup {n}
    BY DEF Insert
<1>2. CASE op.kind = "fork" /\ n = op.n
  <2>1. IsEarly(op) /\ op' = [op EXCEPT !.pc = "fork"]
      BY <1>2, OpAt DEF Insert
  <2>2. op' = [x \in EarlyFields |-> op'[x]] /\ op'.pc = "fork"
      BY <2>1 DEF IsEarly, EarlyFields, PlainFields
  <2>3. op'.kind = op.kind /\ op'.n = op.n /\ op'.to = op.to /\ op'.opt = op.opt /\ op'.allow = op.allow
      BY <2>1 DEF IsEarly, EarlyFields, PlainFields
  <2>4. Forking(op)'
      BY <1>1, <1>2, <2>1, <2>3 DEF IsEarly, Forking
  <2>5. IsEarly(op)'
      BY <1>1, <1>2, <2>1, <2>2, <2>3, <2>4 DEF IsEarly
  <2> QED BY <1>1, <2>1, <2>5 DEF Operation
<1>3. CASE ~(op.kind = "fork" /\ n = op.n)
    BY <1>1, <1>3 DEF Insert, End, Operation
<1> QED BY <1>2, <1>3

\* MakeNamespace::create on a primary.
LEMMA CreateStep ==
    ASSUME CInv, CreatePrimary
    PROVE  CInv'
<1> USE DEF CInv
<1>1. /\ UNCHANGED <<config, ver, conn, gens>> /\ op.pc \in {"create", "created"}
      /\ config.kind = "primary"
    BY DEF CreatePrimary, Elsewhere, backup
<1>2. PICK n : n = Target
    OBVIOUS
<1>3. /\ n \in Names \ store
      /\ IsLate(op) => n # op.n
      /\ IsPlain(op) \/ IsEarly(op) => n = op.n
    BY <1>1, <1>2, TargetIs
<1>4. Backups'
    BY <1>1 DEF Backups
<1>5. NewPrimary(n)
    BY <1>2 DEF CreatePrimary
<1>6. ASSUME NEW keeps PROVE DirOK(Opened(n, keeps)) /\ Opened(n, keeps).log
    BY <1>3, OpenedIs
<1>7. CASE Fails /\ UNCHANGED <<store, dir, want>>
  <2>1. Operation'
      BY <1>1, <1>7, FailsIs
  <2> QED BY <1>1, <1>7, <2>1, OnlyOp
<1>8. CASE Fails /\ store' = store /\ dir' = [dir EXCEPT ![n].here = TRUE]
  <2>1. Operation'
      BY <1>1, <1>8, FailsIs
  <2>2. PICK e : e = [dir[n] EXCEPT !.here = TRUE]
      OBVIOUS
  <2>3. DirOK(e) /\ dir' = [dir EXCEPT ![n] = e]
      BY <1>3, <1>8, <2>2, HereIs DEF Dirs
  <2>4. Dirs' /\ \A m \in Names : m # n => dir'[m] = dir[m]
      BY <1>3, <2>3, DirAt
  <2>5. Loaded'
      BY <1>1, <1>3, <1>8, <2>4, EnterIs
  <2> QED BY <1>4, <2>1, <2>4, <2>5
<1>9. ASSUME NEW keeps,
             /\ dir' = [dir EXCEPT ![n] = Opened(n, keeps)]
             /\ \/ Fails /\ store' = store
                \/ op.opt = "dump" /\ op' = [op EXCEPT !.pc = "dump"] /\ store' = store
                \/ Insert(n)
      PROVE  CInv'
  <2>1. PICK e : e = Opened(n, keeps)
      OBVIOUS
  <2>2. Dirs' /\ dir'[n] = e /\ \A m \in Names : m # n => dir'[m] = dir[m]
      BY <1>3, <1>6, <1>9, <2>1, DirAt
  <2>3. dir'[n].log
      BY <1>6, <2>1, <2>2
  <2>4. Loaded'
    <3>1. store' \in {store, store \cup {n}}
        BY <1>9 DEF Insert
    <3> QED BY <1>1, <1>3, <2>2, <2>3, <3>1, EnterIs
  <2>5. Operation'
    <3>1. CASE Fails /\ store' = store
        BY <1>1, <3>1, FailsIs
    <3>2. CASE op.opt = "dump" /\ op' = [op EXCEPT !.pc = "dump"] /\ store' = store
      <4>1. IsPlain(op) /\ op.kind = "create" /\ n = op.n
          BY <3>2, <1>1, <1>3, TargetIs DEF IsPlain, IsEarly, IsLate, Forking
      <4>2. IsPlain(op)'
          BY <1>1, <3>2, <4>1, <2>3 DEF IsPlain, PlainFields
      <4> QED BY <4>2 DEF Operation
    <3>3. CASE Insert(n)
        BY <1>1, <1>3, <3>3, InsertIs
    <3> QED BY <1>9, <3>1, <3>2, <3>3
  <2> QED BY <1>4, <2>2, <2>4, <2>5
<1> QED BY <1>5, <1>7, <1>8, <1>9, NewPrimaryIs

-----------------------------------------------------------------------------
(* CInv is kept: dumps and forks. *)

\* Some transaction can be committed whatever the database is.
LEMMA FirstTxn ==
    \E t \in Txns : \A db : Possible(db, t)
<1>1. PICK t \in Txns :
        \A i \in DOMAIN t, p \in Pages : p <= t[i] => \E j \in DOMAIN t : t[j] = p
    BY FirstTxnAssumption
<1>2. /\ Touched(t) \subseteq 0..MaxPage /\ Touched(t) \subseteq Pages /\ Touched(t) # {}
      /\ MaxPage \in Nat
    BY TouchedIs DEF Pages
<1>3. PICK m : m = Max(Touched(t))
    OBVIOUS
<1>4. m \in Touched(t)
    BY <1>2, <1>3, MaxIs
<1>5. PICK i \in DOMAIN t : m = t[i]
    BY <1>4 DEF Touched
<1>6. ASSUME NEW p \in 1..m
      PROVE  p \in Touched(t)
  <2>1. m \in Pages /\ p \in Pages /\ p <= t[i]
      BY <1>2, <1>4, <1>5 DEF Pages
  <2> QED BY <1>1, <2>1 DEF Touched
<1> QED BY <1>3, <1>6 DEF Possible

\* load_dump.
LEMMA DumpStep ==
    ASSUME CInv, LoadDump
    PROVE  CInv'
<1> USE DEF CInv
<1>1. UNCHANGED <<gens, config, conn>> /\ op.pc = "dump"
    BY DEF LoadDump, backup
<1>2. PICK n : n = op.n
    OBVIOUS
<1>3. /\ IsPlain(op) /\ n \in Names \ store /\ config.kind = "primary" /\ dir[n].log
      /\ op.kind = "create" /\ ~IsLate(op) /\ ~IsEarly(op)
    BY <1>1, <1>2, OpAt DEF IsPlain, IsLate, IsEarly, Forking
<1>4. PICK t : t = CHOOSE x \in Txns : Possible(dir[n].db, x)
    OBVIOUS
<1>5. t \in Txns /\ Possible(dir[n].db, t)
    BY <1>4, FirstTxn
<1>6. Backups'
    BY <1>1 DEF Backups
<1>7. CASE /\ dir' = [dir EXCEPT ![n] = Logged(dir[n], t, ver)] /\ ver' = ver + Len(t)
           /\ op' = [op EXCEPT !.left = @ - 1] /\ store' = store
  <2>1. PICK e : e = Logged(dir[n], t, ver)
      OBVIOUS
  <2>2. DirOK(dir[n]) /\ ver \in Nat
      BY <1>3 DEF Dirs, Loaded
  <2>3. DirOK(e) /\ e.log
      BY <1>3, <1>5, <2>1, <2>2, LoggedIs
  <2>4. Dirs' /\ dir'[n] = e /\ \A m \in Names : m # n => dir'[m] = dir[m]
      BY <1>3, <1>7, <2>1, <2>3, DirAt
  <2>5. Loaded'
    <3>1. ver' \in Nat
        BY <1>5, <1>7, <2>2, TouchedIs
    <3> QED BY <1>1, <1>3, <1>7, <2>4, <3>1 DEF Loaded
  <2>6. IsPlain(op)'
      BY <1>1, <1>2, <1>3, <1>7, <2>3, <2>4 DEF IsPlain, PlainFields
  <2> QED BY <1>6, <2>4, <2>5, <2>6 DEF Operation
<1>8. CASE Insert(n) /\ UNCHANGED <<dir, ver>>
  <2>1. Operation' /\ store' = store \cup {n}
      BY <1>1, <1>2, <1>3, <1>8, InsertIs
  <2>2. Loaded'
      BY <1>1, <1>3, <1>8, <2>1, EnterIs
  <2> QED BY <1>6, <1>8, <2>1, <2>2 DEF Dirs
<1> QED BY <1>2, <1>4, <1>7, <1>8 DEF LoadDump

Copying == {"copy", "stream", "snapshot", "rename"}

\* The source of a fork that copies is loaded, and its log describes it.
LEMMA SourceIs ==
    ASSUME CInv, op.pc \in Copying
    PROVE  /\ IsLate(op) /\ op.n \in store /\ op.n \in Names /\ LogOK(dir[op.n])
           /\ DirOK(dir[op.n]) /\ op.to \in Names \ store /\ op.n # op.to
           /\ Copied(op, dir[op.n]) /\ config.kind = "primary"
<1>1. IsLate(op) /\ op.n \in store /\ op.n \in Names /\ config.kind = "primary"
    BY OpAt DEF CInv, Copying, IsLate, Forking
<1>2. dir[op.n].log /\ DirOK(dir[op.n])
    BY <1>1 DEF CInv, Loaded, Dirs
<1> QED BY <1>1, <1>2 DEF DirOK, IsLate, Copying, Forking

\* A step of the copy.
LEMMA CopyStep ==
    ASSUME CInv, op.pc \in Copying, UNCHANGED <<dir, gens, config, ver, store, conn>>,
           NEW pc \in Copying, NEW k, NEW x,
           k \in 0..NextNo(dir[op.n]), State(dir[op.n].hist, k, x),
           pc \in {"copy", "rename"} => Boundary(dir[op.n].hist, k),
           pc = "rename" => k >= op.end,
           op' = [op EXCEPT !.pc = pc, !.next = k, !.data = x]
    PROVE  CInv'
<1>1. IsLate(op) /\ Copied(op, dir[op.n])
    BY SourceIs
<1>2. /\ op' = [y \in LateFields |-> op'[y]] /\ op'.pc = pc /\ op'.next = k /\ op'.data = x
    BY <1>1 DEF IsLate, LateFields, EarlyFields, PlainFields
<1>3. /\ op'.kind = op.kind /\ op'.n = op.n /\ op'.to = op.to /\ op'.opt = op.opt
      /\ op'.allow = op.allow /\ op'.end = op.end /\ op'.seen = op.seen
    BY <1>1 DEF IsLate, LateFields, EarlyFields, PlainFields
<1>4. Forking(op)'
    BY <1>1, <1>3 DEF IsLate, Forking
<1>5. Copied(op, dir[op.n])'
    BY <1>1, <1>2, <1>3 DEF Copied
<1>6. IsLate(op)'
  <2>1. op'.allow /\ config'.kind = "primary" /\ op'.n \in store' /\ \A y \in op'.seen : IsData(y)
      BY <1>1, <1>3 DEF IsLate
  <2>2. op'.pc \in {"copy", "stream", "snapshot", "rename"}
      BY <1>2 DEF Copying
  <2> QED BY <1>2, <1>4, <1>5, <2>1, <2>2 DEF IsLate
<1> QED BY <1>6, OnlyOp DEF Operation

\* The same, when nothing is copied.
LEMMA PcStep ==
    ASSUME CInv, op.pc \in Copying, UNCHANGED <<dir, gens, config, ver, store, conn>>,
           NEW pc \in Copying,
           pc \in {"copy", "rename"} => Boundary(dir[op.n].hist, op.next),
           pc = "rename" => op.next >= op.end,
           op' = [op EXCEPT !.pc = pc]
    PROVE  CInv'
<1>1. IsLate(op) /\ Copied(op, dir[op.n])
    BY SourceIs
<1>2. op' = [op EXCEPT !.pc = pc, !.next = op.next, !.data = op.data]
    BY <1>1 DEF IsLate, LateFields, EarlyFields, PlainFields
<1>3. op.next \in 0..NextNo(dir[op.n]) /\ State(dir[op.n].hist, op.next, op.data)
    BY <1>1 DEF Copied
<1> QED BY <1>2, <1>3, CopyStep

\* ForkTask begins.
LEMMA BeginStep ==
    ASSUME CInv, BeginFork
    PROVE  CInv'
<1> USE DEF CInv
<1>1. UNCHANGED <<dir, gens, config, ver, store, conn>> /\ op.pc = "fork"
    BY DEF BeginFork, Elsewhere, backup
<1>2. IsEarly(op) /\ Forking(op) /\ op.n \in store /\ op.n \in Names
    BY <1>1, OpAt DEF IsEarly, Forking
<1>3. CASE config.kind = "replica"
    BY <1>1, <1>3, EndStep DEF BeginFork
<1>4. CASE config.kind # "replica"
  <2>1. PICK d : d = dir[op.n]
      OBVIOUS
  <2>2. op' = [kind |-> "fork", n |-> op.n, to |-> op.to, opt |-> "latest",
               allow |-> TRUE, pc |-> "copy", left |-> 0, end |-> NextNo(d),
               next |-> 0, data |-> Empty, seen |-> {d.db}]
      BY <1>4, <2>1 DEF BeginFork, Source
  <2>3. config.kind = "primary"
      BY <1>4 DEF Loaded, Configs
  <2>4. LogOK(d)
      BY <1>2, <2>1, <2>3 DEF Loaded, Dirs, DirOK
  <2>5. NextNo(d) \in Nat /\ State(d.hist, NextNo(d), d.db) /\ IsData(d.db)
      BY <2>4 DEF LogOK
  <2>6. State(d.hist, 0, Empty) /\ Boundary(d.hist, 0)
      BY NoDbIs DEF State, Boundary, Empty
  <2>7. op' = [y \in LateFields |-> op'[y]]
      BY <2>2 DEF LateFields, EarlyFields, PlainFields
  <2>8. Forking(op)'
      BY <1>1, <1>2, <2>2 DEF Forking
  <2>9. op'.n = op.n /\ op'.end = NextNo(d) /\ op'.next = 0 /\ op'.data = Empty /\ op'.seen = {d.db}
        /\ op'.allow = TRUE /\ op'.pc = "copy"
      BY <2>2
  <2>10. Copied(op', d)
      BY <2>5, <2>6, <2>9 DEF Copied
  <2>11. dir'[op'.n] = d
      BY <1>1, <2>1, <2>9
  <2>12. IsLate(op)'
      BY <1>1, <1>2, <2>3, <2>5, <2>7, <2>8, <2>9, <2>10, <2>11 DEF IsLate
  <2> QED BY <1>1, <2>12, OnlyOp DEF Operation
<1> QED BY <1>3, <1>4

\* The loop of the copy.
LEMMA LoopStep ==
    ASSUME CInv, CopyLoop
    PROVE  CInv'
<1>1. UNCHANGED <<dir, gens, config, ver, store, conn>> /\ op.pc = "copy" /\ op.pc \in Copying
    BY DEF CopyLoop, Elsewhere, backup, Copying
<1>2. PICK pc : pc = IF op.next < op.end THEN "stream" ELSE "rename"
    OBVIOUS
<1>3. Copied(op, dir[op.n]) /\ LogOK(dir[op.n])
    BY <1>1, SourceIs
<1>4. Boundary(dir[op.n].hist, op.next) /\ op.next \in Int /\ op.end \in Int
    BY <1>1, <1>3 DEF Copied, LogOK
<1>5. pc \in Copying /\ (pc = "rename" => op.next >= op.end)
    BY <1>2, <1>4 DEF Copying
<1> QED BY <1>1, <1>2, <1>4, <1>5, PcStep DEF CopyLoop

\* A frame of the stream.
LEMMA FrameStep ==
    ASSUME CInv, ReadFrame
    PROVE  CInv'
<1>1. UNCHANGED <<dir, gens, config, ver, store, conn>> /\ op.pc = "stream" /\ op.pc \in Copying
    BY DEF ReadFrame, Elsewhere, backup, Copying
<1>2. PICK d : d = dir[op.n]
    OBVIOUS
<1>3. Copied(op, d) /\ LogOK(d) /\ IsLate(op)
    BY <1>1, <1>2, SourceIs
<1>4. PICK k : k = op.next
    OBVIOUS
<1>5. k \in 0..NextNo(d) /\ State(d.hist, k, op.data) /\ NextNo(d) \in Nat /\ d.first \in Nat
      /\ Boundary(d.hist, NextNo(d))
    BY <1>3, <1>4 DEF Copied, LogOK
<1>6. CASE op' = [op EXCEPT !.pc = "snapshot"]
  <2>1. "snapshot" \in Copying /\ "snapshot" \notin {"copy", "rename"} /\ "snapshot" # "rename"
      BY DEF Copying
  <2> QED BY <1>1, <1>6, <2>1, PcStep
<1>7. CASE k >= NextNo(d) /\ op' = [op EXCEPT !.pc = "copy"]
  <2>1. Boundary(d.hist, k)
      BY <1>5, <1>7
  <2>2. "copy" \in Copying /\ "copy" # "rename"
      BY DEF Copying
  <2> QED BY <1>1, <1>2, <1>4, <1>7, <2>1, <2>2, PcStep
<1>8. CASE k < NextNo(d) /\ Copy({d.hist[k]}, "stream")
  <2>1. PICK F : F = {d.hist[k]}
      OBVIOUS
  <2>2. d.hist[k].no = k
      BY <1>3, <1>5, <1>8 DEF LogOK
  <2>3. PICK m : m = Max({k} \cup {f.no + 1 : f \in F})
      OBVIOUS
  <2>4. {k} \cup {f.no + 1 : f \in F} = {k, k + 1}
      BY <2>1, <2>2
  <2>5. m = k + 1
    <3>1. PICK S : S = {k, k + 1}
        OBVIOUS
    <3>2. S \subseteq 0..(k + 1) /\ S # {} /\ k + 1 \in Nat /\ m = Max(S)
        BY <1>5, <2>3, <2>4, <3>1
    <3>3. m \in S /\ \A y \in S : m >= y
        BY <3>2, MaxIs
    <3> QED BY <1>5, <3>1, <3>3
  <2>6. PICK x : x = Written(op.data, F)
      OBVIOUS
  <2>7. State(d.hist, k + 1, x)
    <3>1. k \in Nat /\ k + 1 \in Nat /\ k <= k + 1 /\ \A i \in k..(k + 1 - 1) : i = k
        BY <1>5
    <3>2. k \in k..(k + 1 - 1)
        BY <1>5
    <3>3. \A f \in F : \E i \in k..(k + 1 - 1) :
            f = d.hist[i] /\ \A g \in k..(k + 1 - 1) : d.hist[g].page = d.hist[i].page => g <= i
        BY <2>1, <3>1, <3>2
    <3>4. \A i \in k..(k + 1 - 1) : \E f \in F : f.page = d.hist[i].page
        BY <2>1, <3>1
    <3> QED BY <1>5, <2>6, <3>1, <3>3, <3>4, WrittenState
  <2>8. op' = [op EXCEPT !.pc = "stream", !.next = k + 1, !.data = x]
    <3>1. op' = [op EXCEPT !.data = x, !.pc = "stream", !.next = m]
        BY <1>4, <1>8, <2>1, <2>3, <2>6 DEF Copy
    <3> QED BY <1>3, <2>5, <3>1 DEF IsLate, LateFields, EarlyFields, PlainFields
  <2>9. "stream" \in Copying /\ "stream" \notin {"copy", "rename"} /\ "stream" # "rename"
      BY DEF Copying
  <2>10. k + 1 \in 0..NextNo(d)
      BY <1>5, <1>8
  <2> QED BY <1>1, <1>2, <2>7, <2>8, <2>9, <2>10, CopyStep
<1>9. \/ op' = [op EXCEPT !.pc = "snapshot"]
      \/ k >= NextNo(d) /\ op' = [op EXCEPT !.pc = "copy"]
      \/ ~(k >= NextNo(d)) /\ Copy({d.hist[k]}, "stream")
    BY <1>2, <1>4 DEF ReadFrame, Source
<1>10. ~(k >= NextNo(d)) => k < NextNo(d)
    BY <1>5
<1> QED BY <1>6, <1>7, <1>8, <1>9, <1>10

\* The frames from k on in a snapshot of the frames a..b - 1, and what Copy takes the
\* greatest of.
Held(h, a, b, k) == {f \in Newest({h[i] : i \in a..(b - 1)}) : f.no >= k}
Follow(k, F) == {k} \cup {f.no + 1 : f \in F}

LEMMA FollowIs ==
    ASSUME NEW k, NEW F
    PROVE  \A y : y \in Follow(k, F) <=> y = k \/ \E f \in F : y = f.no + 1
BY DEF Follow

\* What a snapshot of the frames a..b - 1 holds from frame k on: the newest frame of every
\* page in k..b - 1.
LEMMA SnapshotIs ==
    ASSUME NEW h, NEW a \in Nat, NEW b \in Nat, NEW k \in Nat, a <= k, k < b,
           \A i \in 0..(b - 1) : h[i].no = i, NEW F,
           F = Held(h, a, b, k)
    PROVE  /\ \A f \in F : \E i \in k..(b - 1) :
                f = h[i] /\ \A g \in k..(b - 1) : h[g].page = h[i].page => g <= i
           /\ \A i \in k..(b - 1) : \E f \in F : f.page = h[i].page
           /\ Max(Follow(k, F)) = b
<1>1. PICK G : G = {h[i] : i \in a..(b - 1)}
    OBVIOUS
<1>2. F = {f \in G : f.no >= k /\ \A g \in G : g.page = f.page => g.no <= f.no}
    BY <1>1 DEF Newest, Held
<1>3. \A i \in a..(b - 1) : h[i] \in G /\ h[i].no = i
    BY <1>1
<1>4. \A f \in F : \E i \in k..(b - 1) : f = h[i] /\ f.no = i
  <2> SUFFICES ASSUME NEW f \in F PROVE \E i \in k..(b - 1) : f = h[i] /\ f.no = i
      OBVIOUS
  <2>1. f \in G /\ f.no >= k
      BY <1>2
  <2>2. PICK i \in a..(b - 1) : f = h[i]
      BY <1>1, <2>1
  <2>3. f.no = i
      BY <2>2
  <2> QED BY <2>1, <2>2, <2>3
<1>5. ASSUME NEW f \in F
      PROVE  \E i \in k..(b - 1) :
                f = h[i] /\ \A g \in k..(b - 1) : h[g].page = h[i].page => g <= i
  <2>1. PICK i \in k..(b - 1) : f = h[i] /\ f.no = i
      BY <1>4
  <2>2. ASSUME NEW g \in k..(b - 1), h[g].page = h[i].page
        PROVE  g <= i
    <3>1. h[g] \in G /\ h[g].no = g
        BY <1>3
    <3> QED BY <1>2, <2>1, <2>2, <3>1
  <2> QED BY <2>1, <2>2
<1>6. ASSUME NEW i \in k..(b - 1)
      PROVE  \E f \in F : f.page = h[i].page
  <2> DEFINE S == {j \in a..(b - 1) : h[j].page = h[i].page}
  <2>1. S \subseteq 0..(b - 1) /\ i \in S /\ b - 1 \in Nat
      OBVIOUS
  <2>2. PICK j \in S : \A z \in S : j >= z
    <3> HIDE DEF S
    <3> QED BY <2>1, GreatestBelow
  <2>3. j \in a..(b - 1) /\ h[j].page = h[i].page /\ j >= i /\ j >= k
      BY <2>1, <2>2
  <2>4. h[j] \in G /\ h[j].no = j
      BY <1>3, <2>3
  <2>5. ASSUME NEW g \in G, g.page = h[j].page
        PROVE  g.no <= j
    <3>1. PICK z \in a..(b - 1) : g = h[z]
        BY <1>1
    <3>2. z \in S /\ g.no = z
        BY <2>3, <2>5, <3>1
    <3> QED BY <2>2, <2>3, <3>2
  <2>6. h[j] \in F
      BY <1>2, <2>3, <2>4, <2>5
  <2> QED BY <2>3, <2>6
<1>7. PICK S : S = Follow(k, F)
    OBVIOUS
<1>8. S \subseteq 0..b
  <2>1. \A f \in F : f.no + 1 \in 0..b
      BY <1>4
  <2> QED BY <1>7, <2>1, FollowIs
<1>9. b \in S
  <2>1. h[b - 1] \in G /\ h[b - 1].no = b - 1 /\ b - 1 >= k
      BY <1>3
  <2>2. \A g \in G : g.no <= b - 1
      BY <1>1
  <2>3. h[b - 1] \in F
      BY <1>2, <2>1, <2>2
  <2>4. b = h[b - 1].no + 1
      BY <2>1
  <2> QED BY <1>7, <2>3, <2>4, FollowIs
<1>10. PICK m : m = Max(S)
    OBVIOUS
<1>11. m \in S /\ \A y \in S : m >= y
    BY <1>8, <1>9, <1>10, MaxIs
<1>12. m = b
    BY <1>8, <1>9, <1>11
<1> QED BY <1>5, <1>6, <1>7, <1>10, <1>12

\* The frames of a snapshot.
LEMMA SnapshotStep ==
    ASSUME CInv, ReadSnapshot
    PROVE  CInv'
<1>1. UNCHANGED <<dir, gens, config, ver, store, conn>> /\ op.pc = "snapshot" /\ op.pc \in Copying
    BY DEF ReadSnapshot, Elsewhere, backup, Copying
<1>2. PICK d : d = dir[op.n]
    OBVIOUS
<1>3. Copied(op, d) /\ LogOK(d) /\ IsLate(op)
    BY <1>1, <1>2, SourceIs
<1>4. PICK k : k = op.next
    OBVIOUS
<1>5. PICK r \in d.files :
        /\ r[1] <= k /\ k < r[2]
        /\ Copy({f \in Newest({d.hist[i] : i \in r[1]..(r[2] - 1)}) : f.no >= k}, "copy")
    BY <1>2, <1>4 DEF ReadSnapshot, Source
<1>6. PICK a, b : a = r[1] /\ b = r[2]
    OBVIOUS
<1>7. PICK F : F = Held(d.hist, a, b, k)
    OBVIOUS
<1>8. a <= k /\ k < b /\ Copy(F, "copy")
    BY <1>5, <1>6, <1>7 DEF Held
<1>9. /\ k \in Nat /\ State(d.hist, k, op.data) /\ NextNo(d) \in Nat
      /\ \A f \in 0..(NextNo(d) - 1) : d.hist[f].no = f
    BY <1>3, <1>4 DEF Copied, LogOK
<1>10. RangeOK(d.hist, NextNo(d), r)
    BY <1>3 DEF LogOK
<1>11. a \in Nat /\ b \in Nat /\ b <= NextNo(d) /\ Boundary(d.hist, b)
    BY <1>6, <1>10 DEF RangeOK
<1>12. \A i \in 0..(b - 1) : d.hist[i].no = i
    BY <1>9, <1>11
<1>13. /\ \A f \in F : \E i \in k..(b - 1) :
            f = d.hist[i] /\ \A g \in k..(b - 1) : d.hist[g].page = d.hist[i].page => g <= i
       /\ \A i \in k..(b - 1) : \E f \in F : f.page = d.hist[i].page
       /\ Max(Follow(k, F)) = b
  <2>1. PICK h : h = d.hist
      OBVIOUS
  <2>2. F = Held(h, a, b, k) /\ (\A i \in 0..(b - 1) : h[i].no = i) /\ k \in Nat
      BY <1>7, <1>9, <1>12, <2>1
  <2>3. /\ \A f \in F : \E i \in k..(b - 1) :
            f = h[i] /\ \A g \in k..(b - 1) : h[g].page = h[i].page => g <= i
        /\ \A i \in k..(b - 1) : \E f \in F : f.page = h[i].page
        /\ Max(Follow(k, F)) = b
      BY <1>8, <1>11, <2>2, SnapshotIs
  <2> QED BY <2>1, <2>3
<1>14. PICK x : x = Written(op.data, F)
    OBVIOUS
<1>15. State(d.hist, b, x)
  <2>1. PICK h, y : h = d.hist /\ y = op.data
      OBVIOUS
  <2>2. k \in Nat /\ b \in Nat /\ k <= b /\ State(h, k, y)
      BY <1>8, <1>9, <1>11, <2>1
  <2>3. /\ \A f \in F : \E i \in k..(b - 1) :
            f = h[i] /\ \A g \in k..(b - 1) : h[g].page = h[i].page => g <= i
        /\ \A i \in k..(b - 1) : \E f \in F : f.page = h[i].page
      BY <1>13, <2>1
  <2>4. State(h, b, Written(y, F))
      BY <2>2, <2>3, WrittenState
  <2> QED BY <1>14, <2>1, <2>4
<1>16. op' = [op EXCEPT !.pc = "copy", !.next = b, !.data = x]
  <2>1. op' = [op EXCEPT !.data = x, !.pc = "copy", !.next = b]
      BY <1>4, <1>8, <1>13, <1>14 DEF Copy, Follow
  <2> QED BY <1>3, <2>1 DEF IsLate, LateFields, EarlyFields, PlainFields
<1>17. "copy" \in Copying /\ "copy" # "rename" /\ b \in 0..NextNo(d)
    BY <1>9, <1>11 DEF Copying
<1> QED BY <1>1, <1>2, <1>11, <1>15, <1>16, <1>17, CopyStep

\* The copy is complete: it becomes the directory of the new namespace.
LEMMA RenameStep ==
    ASSUME CInv, Rename
    PROVE  CInv'
<1> USE DEF CInv
<1>1. UNCHANGED <<gens, config, ver, store, conn>> /\ op.pc = "rename" /\ op.pc \in Copying
    BY DEF Rename, Elsewhere, backup, Copying
<1>2. PICK d : d = dir[op.n]
    OBVIOUS
<1>3. Copied(op, d) /\ LogOK(d) /\ IsLate(op) /\ op.to \in Names \ store
    BY <1>1, <1>2, SourceIs
<1>4. PICK pc : op' = [op EXCEPT !.pc = pc] /\ pc \in {"cleanup", "created"}
    BY DEF Rename
<1>5. op' = [x \in LateFields |-> op'[x]] /\ op'.pc = pc /\ op'.seen = op.seen
    BY <1>3, <1>4 DEF IsLate, LateFields, EarlyFields, PlainFields
<1>6. op'.kind = op.kind /\ op'.n = op.n /\ op'.to = op.to /\ op'.opt = op.opt /\ op'.allow = op.allow
    BY <1>3, <1>4 DEF IsLate, LateFields, EarlyFields, PlainFields
<1>7. Forking(op)'
    BY <1>1, <1>3, <1>6 DEF IsLate, Forking
<1>8. Backups'
    BY <1>1 DEF Backups
<1>9. /\ op'.allow /\ config'.kind = "primary" /\ op'.n \in store' /\ \A x \in op'.seen : IsData(x)
      /\ op' = [x \in LateFields |-> op'[x]] /\ Forking(op)'
    BY <1>1, <1>3, <1>5, <1>6, <1>7 DEF IsLate
<1>10. CASE pc = "cleanup" /\ dir' = dir
  <2>1. op'.pc = "cleanup"
      BY <1>5, <1>10
  <2>2. IsLate(op)'
      BY <1>9, <2>1 DEF IsLate
  <2> QED BY <1>1, <1>8, <1>10, <2>2 DEF Dirs, Loaded, Operation
<1>11. CASE pc = "created" /\ dir' = [dir EXCEPT ![op.to] = [BareDir EXCEPT !.db = op.data]]
  <2>1. /\ op.next \in Nat /\ NextNo(d) \in Nat /\ op.end \in Nat /\ op.next >= op.end
        /\ op.next <= NextNo(d) /\ Boundary(d.hist, op.next) /\ State(d.hist, op.next, op.data)
      BY <1>1, <1>3 DEF Copied, LogOK
  <2>2. op.next \in op.end..NextNo(d)
      BY <2>1
  <2>3. PICK x \in op.seen : State(d.hist, op.next, x)
      BY <1>3, <2>1, <2>2 DEF Copied
  <2>4. op.data = x /\ IsData(x)
      BY <1>3, <2>1, <2>3, OneState DEF IsLate
  <2>5. PICK e : e = [BareDir EXCEPT !.db = op.data]
      OBVIOUS
  <2>6. DirOK(e) /\ e.db = x /\ e.here
      BY <2>4, <2>5, NoDirIs DEF IsDb
  <2>7. Dirs' /\ dir'[op.to] = e /\ \A m \in Names : m # op.to => dir'[m] = dir[m]
      BY <1>3, <1>11, <2>5, <2>6, DirAt
  <2>8. Loaded'
      BY <1>1, <1>3, <2>7 DEF Loaded
  <2>9. op'.pc = "created" /\ dir'[op'.to].db \in op'.seen /\ dir'[op'.to].here
      BY <1>5, <1>6, <1>11, <2>3, <2>6, <2>7
  <2>10. IsLate(op)'
      BY <1>9, <2>9 DEF IsLate
  <2> QED BY <1>8, <2>7, <2>8, <2>10 DEF Operation
<1>12. \/ op' = [op EXCEPT !.pc = "cleanup"] /\ dir' = dir
       \/ /\ op' = [op EXCEPT !.pc = "created"]
          /\ dir' = [dir EXCEPT ![op.to] = [BareDir EXCEPT !.db = op.data]]
    BY DEF Rename
<1>13. [op EXCEPT !.pc = "cleanup"].pc = "cleanup" /\ [op EXCEPT !.pc = "created"].pc = "created"
    BY <1>3 DEF IsLate, LateFields, EarlyFields, PlainFields
<1> QED BY <1>5, <1>10, <1>11, <1>12, <1>13

\* The destination of a fork that failed is removed.
LEMMA CleanupStep ==
    ASSUME CInv, Cleanup
    PROVE  CInv'
<1> USE DEF CInv
<1>1. /\ UNCHANGED <<gens, config, ver, store, conn>> /\ op.pc = "cleanup" /\ op' = NoOp
      /\ dir' = [dir EXCEPT ![op.to] = NoDir]
    BY DEF Cleanup, Elsewhere, backup, End
<1>2. op.to \in Names \ store
    BY <1>1, OpAt DEF IsLate, Forking
<1>3. Dirs' /\ \A m \in Names : m # op.to => dir'[m] = dir[m]
    BY <1>1, <1>2, NoDirIs, DirAt
<1>4. Loaded' /\ Backups'
    BY <1>1, <1>2, <1>3 DEF Loaded, Backups
<1> QED BY <1>1, <1>3, <1>4 DEF Operation

\* A failure.
LEMMA FaultStep ==
    ASSUME CInv, Fault
    PROVE  CInv'
<1>1. /\ UNCHANGED <<dir, gens, config, ver, store, conn>> /\ Fails
      /\ op.pc \notin {"fork", "callback"}
    BY DEF Fault, Elsewhere, backup
<1>2. Operation'
    BY <1>1, FailsIs DEF CInv
<1> QED BY <1>1, <1>2, OnlyOp

-----------------------------------------------------------------------------
(* CInv is kept: replicas, clients and background tasks. *)

\* ReplicaNamespaceMaker::create.
LEMMA ReplicaStep ==
    ASSUME CInv, CreateReplica
    PROVE  CInv'
<1> USE DEF CInv
<1>1. /\ UNCHANGED <<gens, config, ver, conn>> /\ op.pc = "create"
      /\ config.kind = "replica"
    BY DEF CreateReplica, Elsewhere, backup
<1>2. PICK n : n = op.n
    OBVIOUS
<1>3. /\ n \in Names \ store /\ (IsPlain(op) \/ IsEarly(op)) /\ ~IsLate(op)
    BY <1>1, <1>2, OpAt DEF IsPlain, IsEarly, IsLate, Forking
<1>4. Backups'
    BY <1>1 DEF Backups
<1>5. CASE op' = NoOp /\ UNCHANGED <<store, dir>>
    BY <1>1, <1>5, EndStep
<1>6. CASE Insert(n) /\ dir' = [dir EXCEPT ![n].here = TRUE, ![n].meta = primary[n]]
  <2>1. PICK d : d = [dir[n] EXCEPT !.here = TRUE]
      OBVIOUS
  <2>2. DirOK(d)
      BY <1>3, <2>1, HereIs DEF Dirs
  <2>3. PICK e : e = [d EXCEPT !.meta = primary[n]]
      OBVIOUS
  <2>4. /\ e = [x \in DirFields |-> e[x]] /\ e.here = d.here /\ e.hist = d.hist /\ e.db = d.db
        /\ e.log = d.log /\ e.first = d.first /\ e.queue = d.queue /\ e.files = d.files
      BY <2>2, <2>3 DEF DirOK, DirFields
  <2>5. DirOK(e)
    <3>1. LogOK(d) => /\ e.first \in 0..NextNo(d) /\ e.queue \in Seq(Nat \X Nat)
                      /\ \A i \in 1..Len(e.queue) : RangeOK(d.hist, NextNo(d), e.queue[i])
                      /\ \A r \in e.files : RangeOK(d.hist, NextNo(d), r)
        BY <2>4 DEF LogOK
    <3>2. d.here \in BOOLEAN
        BY <2>2 DEF DirOK
    <3> QED BY <2>2, <2>4, <3>1, <3>2, SameLog
  <2>6. dir' = [dir EXCEPT ![n] = e]
      BY <1>3, <1>6, <2>1, <2>3 DEF Dirs, DirOK, DirFields
  <2>7. Dirs' /\ \A m \in Names : m # n => dir'[m] = dir[m]
      BY <1>3, <2>5, <2>6, DirAt
  <2>8. Operation' /\ store' = store \cup {n}
      BY <1>1, <1>2, <1>3, <1>6, InsertIs
  <2>9. Loaded'
      BY <1>1, <1>3, <2>7, <2>8, EnterIs
  <2> QED BY <1>4, <2>7, <2>8, <2>9
<1>7. CASE /\ op.opt = "latest" /\ dir' = [dir EXCEPT ![n].here = TRUE]
           /\ op' = [op EXCEPT !.pc = "callback"] /\ store' = store
  <2>1. PICK e : e = [dir[n] EXCEPT !.here = TRUE]
      OBVIOUS
  <2>2. DirOK(e) /\ dir' = [dir EXCEPT ![n] = e]
      BY <1>3, <1>7, <2>1, HereIs DEF Dirs
  <2>3. Dirs' /\ \A m \in Names : m # n => dir'[m] = dir[m]
      BY <1>3, <2>2, DirAt
  <2>4. Loaded'
      BY <1>1, <1>3, <1>7, <2>3, EnterIs
  <2>5. CASE IsPlain(op)
    <3>1. IsPlain(op)'
        BY <1>1, <1>7, <2>5 DEF IsPlain, PlainFields
    <3> QED BY <1>4, <2>3, <2>4, <3>1 DEF Operation
  <2>6. CASE IsEarly(op)
    <3>1. /\ op' = [x \in EarlyFields |-> op'[x]] /\ op'.pc = "callback" /\ op'.kind = op.kind
          /\ op'.n = op.n /\ op'.to = op.to /\ op'.opt = op.opt /\ op'.allow = op.allow
        BY <1>7, <2>6 DEF IsEarly, EarlyFields, PlainFields
    <3>2. IsEarly(op)'
        BY <1>1, <1>2, <1>3, <1>7, <2>6, <3>1 DEF IsEarly, Forking
    <3> QED BY <1>4, <2>3, <2>4, <3>2 DEF Operation
  <2> QED BY <1>3, <2>5, <2>6
<1> QED BY <1>2, <1>5, <1>6, <1>7 DEF CreateReplica, End

\* The reset callback of a replica's replication task.
LEMMA CallbackStep ==
    ASSUME CInv, NEW n \in Names, ReplicatorTask(n)
    PROVE  CInv'
<1>1. UNCHANGED <<dir, gens, config, ver, op>> /\ op = NoOp /\ Unload(n)
    BY DEF ReplicatorTask, Elsewhere, backup
<1>2. Loaded'
    BY <1>1, UnloadIs DEF CInv
<1> QED BY <1>1, <1>2 DEF CInv, Dirs, Backups, Operation

LEMMA OtherSideStep ==
    ASSUME CInv, NEW n \in Names, PrimaryChanges(n)
    PROVE  CInv'
<1>1. UNCHANGED <<dir, gens, config, ver, store, conn, op>>
    BY DEF PrimaryChanges, backup
<1>2. Operation'
    BY <1>1, OpKept DEF CInv
<1> QED BY <1>1, <1>2, OnlyOp

\* What was copied of a log, and the states of the source that were seen, still agree with
\* the log after a transaction.
LEMMA CopiedOn ==
    ASSUME NEW o, NEW d, LogOK(d), DirOK(d), d.log, Copied(o, d), NEW t \in Txns, Possible(d.db, t),
           NEW v \in Nat, NEW e, e = Logged(d, t, v), NEW q,
           q.end = o.end, q.next = o.next, q.data = o.data, q.pc = o.pc,
           q.seen = o.seen \cup {e.db}
    PROVE  Copied(q, e)
<1>1. PICK m, k, l : m = NextNo(d) /\ k = NextNo(e) /\ l = Len(t)
    OBVIOUS
<1>2. /\ DirOK(e) /\ e.log /\ k = m + l /\ \A f \in 0..(m - 1) : e.hist[f] = d.hist[f]
      /\ \A f \in m..(m + l - 2) : e.hist[f].size = 0
    BY <1>1, LoggedIs
<1>3. l \in Nat /\ l >= 1 /\ m \in Nat
    BY <1>1, TouchedIs DEF LogOK
<1>4. State(e.hist, k, e.db)
    BY <1>1, <1>2 DEF DirOK, LogOK
<1>5. o.end \in 0..m /\ o.next \in 0..m /\ o.end \in 0..k /\ o.next \in 0..k
    BY <1>1, <1>2, <1>3 DEF Copied
<1>6. ASSUME NEW b \in 0..m
      PROVE  /\ \A x : State(d.hist, b, x) <=> State(e.hist, b, x)
             /\ Boundary(d.hist, b) <=> Boundary(e.hist, b)
  <2>1. \A f \in 0..(b - 1) : d.hist[f] = e.hist[f]
      BY <1>2, <1>3
  <2>2. PICK g, h : g = d.hist /\ h = e.hist
      OBVIOUS
  <2>3. b \in Nat /\ \A f \in 0..(b - 1) : g[f] = h[f]
      BY <1>3, <2>1, <2>2
  <2>4. (\A x : State(g, b, x) <=> State(h, b, x)) /\ (Boundary(g, b) <=> Boundary(h, b))
      BY <2>3, StatePrefix
  <2> QED BY <2>2, <2>4
<1>7. ASSUME NEW b \in o.end..k, Boundary(e.hist, b)
      PROVE  \E x \in q.seen : State(e.hist, b, x)
  <2>1. CASE b <= m
    <3>1. b \in 0..m /\ b \in o.end..m
        BY <1>3, <1>5, <2>1
    <3>2. PICK x \in o.seen : State(d.hist, b, x)
        BY <1>1, <1>6, <1>7, <3>1 DEF Copied
    <3> QED BY <1>6, <3>1, <3>2
  <2>2. CASE b = k
      BY <1>4, <2>2
  <2>3. CASE ~(b <= m) /\ b # k
    <3>1. b - 1 \in m..(m + l - 2) /\ b # 0
        BY <1>2, <1>3, <1>5, <2>3
    <3> QED BY <1>2, <1>7, <3>1 DEF Boundary
  <2> QED BY <2>1, <2>2, <2>3
<1>8. State(e.hist, q.next, q.data)
    BY <1>5, <1>6 DEF Copied
<1>9. q.pc \in {"copy", "rename"} => Boundary(e.hist, q.next)
    BY <1>5, <1>6 DEF Copied
<1> QED BY <1>1, <1>5, <1>7, <1>8, <1>9 DEF Copied

\* A client commits.
LEMMA CommitStep ==
    ASSUME CInv, Commit, ~Zombies
    PROVE  CInv'
<1> USE DEF CInv
<1>1. /\ UNCHANGED <<gens, config, conn, store>> /\ conn.live /\ config.kind = "primary"
    BY DEF Commit, backup
<1>2. PICK n : n = conn.n
    OBVIOUS
<1>3. n \in store /\ n \in Names /\ dir[n].log /\ DirOK(dir[n]) /\ ver \in Nat
    BY <1>1, <1>2 DEF Loaded, Dirs
<1>4. PICK t \in Txns :
        /\ Possible(dir[n].db, t) /\ ver' = ver + Len(t)
        /\ dir' = [dir EXCEPT ![n] = Logged(dir[n], t, ver)]
        /\ op' = IF op.kind = "fork" /\ op.pc \in Copying /\ op.n = n
                 THEN [op EXCEPT !.seen = @ \cup {Logged(dir[n], t, ver).db}] ELSE op
    BY <1>1, <1>2 DEF Commit, Copying
<1>5. PICK e : e = Logged(dir[n], t, ver)
    OBVIOUS
<1>6. DirOK(e) /\ e.log /\ IsData(e.db)
    BY <1>3, <1>4, <1>5, LoggedIs
<1>7. Dirs' /\ dir'[n] = e /\ \A m \in Names : m # n => dir'[m] = dir[m]
    BY <1>3, <1>4, <1>5, <1>6, DirAt
<1>8. Loaded'
  <2>1. ver' \in Nat
      BY <1>3, <1>4, TouchedIs
  <2>2. \A m \in store : dir'[m].log
      BY <1>1, <1>6, <1>7 DEF Loaded
  <2> QED BY <1>1, <2>1, <2>2 DEF Loaded
<1>9. Backups'
    BY <1>1 DEF Backups
<1>10. CASE op.kind = "fork" /\ op.pc \in Copying /\ op.n = n
  <2>1. IsLate(op) /\ Copied(op, dir[n]) /\ LogOK(dir[n])
      BY <1>10, SourceIs
  <2>2. op' = [op EXCEPT !.seen = op.seen \cup {e.db}]
      BY <1>4, <1>5, <1>10
  <2>3. /\ op' = [y \in LateFields |-> op'[y]] /\ op'.pc = op.pc /\ op'.seen = op.seen \cup {e.db}
      BY <2>1, <2>2 DEF IsLate, LateFields, EarlyFields, PlainFields
  <2>4. /\ op'.kind = op.kind /\ op'.n = op.n /\ op'.to = op.to /\ op'.opt = op.opt
        /\ op'.allow = op.allow /\ op'.end = op.end /\ op'.next = op.next /\ op'.data = op.data
      BY <2>1, <2>2 DEF IsLate, LateFields, EarlyFields, PlainFields
  <2>5. Copied(op', e)
      BY <1>3, <1>4, <1>5, <2>1, <2>3, <2>4, CopiedOn
  <2>6. Forking(op)'
      BY <1>1, <2>1, <2>4 DEF IsLate, Forking
  <2>7. op'.allow /\ config'.kind = "primary" /\ op'.n \in store' /\ \A y \in op'.seen : IsData(y)
      BY <1>1, <1>6, <2>1, <2>3, <2>4 DEF IsLate
  <2>8. op'.pc \in {"copy", "stream", "snapshot", "rename"} /\ dir'[op'.n] = e
      BY <1>7, <1>10, <2>3, <2>4 DEF Copying
  <2>9. IsLate(op)'
      BY <2>3, <2>5, <2>6, <2>7, <2>8 DEF IsLate
  <2> QED BY <1>7, <1>8, <1>9, <2>9 DEF Operation
<1>11. CASE ~(op.kind = "fork" /\ op.pc \in Copying /\ op.n = n)
  <2>1. op' = op
      BY <1>4, <1>11
  <2>2. CASE op = NoOp
      BY <1>7, <1>8, <1>9, <2>1, <2>2 DEF Operation
  <2>3. CASE IsPlain(op)
    <3>1. op.n \in Names /\ op.n # n
        BY <1>3, <2>3 DEF IsPlain
    <3>2. IsPlain(op)'
        BY <1>1, <1>7, <2>1, <2>3, <3>1 DEF IsPlain
    <3> QED BY <1>7, <1>8, <1>9, <3>2 DEF Operation
  <2>4. CASE IsEarly(op)
    <3>1. IsEarly(op)'
        BY <1>1, <2>1, <2>4 DEF IsEarly, Forking
    <3> QED BY <1>7, <1>8, <1>9, <3>1 DEF Operation
  <2>5. CASE IsLate(op)
    <3>1. /\ Forking(op) /\ Forking(op)' /\ op.to # n /\ op.to \in Names /\ op.n \in Names
          /\ op.kind = "fork"
        BY <1>1, <1>3, <2>1, <2>5 DEF IsLate, Forking
    <3>2. dir'[op.to] = dir[op.to] /\ (op.pc \in Copying => dir'[op.n] = dir[op.n])
        BY <1>7, <1>11, <3>1
    <3>3. IsLate(op)'
        BY <1>1, <2>1, <2>5, <3>1, <3>2 DEF IsLate, Copying
    <3> QED BY <1>7, <1>8, <1>9, <3>3 DEF Operation
  <2> QED BY <2>2, <2>3, <2>4, <2>5 DEF Operation
<1> QED BY <1>10, <1>11

\* The elements of a queue that grows at its end or loses its head.
LEMMA AppendIs ==
    ASSUME NEW S, NEW q \in Seq(S), NEW r \in S
    PROVE  /\ Append(q, r) \in Seq(S)
           /\ \A i \in 1..Len(Append(q, r)) :
                Append(q, r)[i] = r \/ (i \in 1..Len(q) /\ Append(q, r)[i] = q[i])
OBVIOUS

LEMMA TailIs ==
    ASSUME NEW S, NEW q \in Seq(S), q # <<>>
    PROVE  /\ Tail(q) \in Seq(S) /\ Head(q) = q[1] /\ Len(q) \in Nat /\ Len(q) >= 1
           /\ \A i \in 1..Len(Tail(q)) : i + 1 \in 1..Len(q) /\ Tail(q)[i] = q[i + 1]
OBVIOUS

\* A compaction, of the log or of what is queued.
LEMMA SameDbStep ==
    ASSUME CInv, NEW n \in store, UNCHANGED <<gens, config, ver, store, conn, op>>, NEW e,
           dir' = [dir EXCEPT ![n] = e], DirOK(e), e.hist = dir[n].hist, e.db = dir[n].db,
           e.log = dir[n].log, e.here = dir[n].here
    PROVE  CInv'
<1> USE DEF CInv
<1>1. n \in Names
    BY DEF Loaded
<1>2. Dirs' /\ dir'[n] = e /\ \A m \in Names : m # n => dir'[m] = dir[m]
    BY <1>1, DirAt
<1>3. Operation'
    BY <1>1, <1>2, OpKept
<1>4. Loaded' /\ Backups'
    BY <1>1, <1>2 DEF Loaded, Backups
<1> QED BY <1>2, <1>3, <1>4

LEMMA CompactStep ==
    ASSUME CInv, NEW n \in Names, Compact(n)
    PROVE  CInv'
<1>1. UNCHANGED <<gens, config, ver, store, conn, op>> /\ n \in store
    BY DEF Compact, Elsewhere, backup
<1>2. PICK d : d = dir[n]
    OBVIOUS
<1>3. PICK r : r = <<d.first, NextNo(d)>>
    OBVIOUS
<1>4. PICK e : e = [d EXCEPT !.first = NextNo(d), !.queue = Append(d.queue, r)]
    OBVIOUS
<1>5. DirOK(d)
    BY <1>2 DEF CInv, Dirs
<1>6. dir' = [dir EXCEPT ![n] = e] /\ d.first < NextNo(d)
    BY <1>2, <1>3, <1>4, <1>5 DEF Compact, CInv, Dirs, DirOK, DirFields
<1>7. /\ e = [x \in DirFields |-> e[x]] /\ e.here = d.here /\ e.hist = d.hist /\ e.db = d.db
      /\ e.log = d.log /\ e.first = NextNo(d) /\ e.queue = Append(d.queue, r) /\ e.files = d.files
    BY <1>4, <1>5 DEF DirOK, DirFields
<1>8. ASSUME LogOK(d)
      PROVE  /\ e.first \in 0..NextNo(d) /\ e.queue \in Seq(Nat \X Nat)
             /\ \A i \in 1..Len(e.queue) : RangeOK(d.hist, NextNo(d), e.queue[i])
             /\ \A x \in e.files : RangeOK(d.hist, NextNo(d), x)
  <2>1. d.first \in Nat /\ NextNo(d) \in Nat /\ d.queue \in Seq(Nat \X Nat)
        /\ Boundary(d.hist, NextNo(d))
      BY <1>8 DEF LogOK
  <2>2. r \in Nat \X Nat /\ r[1] = d.first /\ r[2] = NextNo(d)
      BY <1>3, <2>1
  <2>3. RangeOK(d.hist, NextNo(d), r)
      BY <1>6, <2>1, <2>2 DEF RangeOK
  <2>4. /\ e.queue \in Seq(Nat \X Nat)
        /\ \A i \in 1..Len(e.queue) :
            e.queue[i] = r \/ (i \in 1..Len(d.queue) /\ e.queue[i] = d.queue[i])
    <3>1. PICK q, S, z : q = d.queue /\ S = Nat \X Nat /\ z = Append(q, r)
        OBVIOUS
    <3>2. q \in Seq(S) /\ r \in S
        BY <2>1, <2>2, <3>1
    <3>3. z \in Seq(S) /\ \A i \in 1..Len(z) : z[i] = r \/ (i \in 1..Len(q) /\ z[i] = q[i])
        BY <3>1, <3>2, AppendIs
    <3>4. e.queue = z
        BY <1>7, <3>1
    <3> QED BY <3>1, <3>3, <3>4
  <2>5. \A i \in 1..Len(e.queue) : RangeOK(d.hist, NextNo(d), e.queue[i])
      BY <1>8, <2>3, <2>4 DEF LogOK
  <2>6. \A x \in e.files : RangeOK(d.hist, NextNo(d), x)
      BY <1>7, <1>8 DEF LogOK
  <2>7. e.first \in 0..NextNo(d)
      BY <1>7, <2>1
  <2> QED BY <2>4, <2>5, <2>6, <2>7
<1>9. e.here \in BOOLEAN
    BY <1>5, <1>7 DEF DirOK
<1>10. DirOK(e)
    BY <1>5, <1>7, <1>8, <1>9, SameLog
<1> QED BY <1>1, <1>2, <1>6, <1>7, <1>10, SameDbStep

LEMMA PersistStep ==
    ASSUME CInv, NEW n \in Names, Persist(n)
    PROVE  CInv'
<1>1. UNCHANGED <<gens, config, ver, store, conn, op>> /\ n \in store
    BY DEF Persist, Elsewhere, backup
<1>2. PICK d : d = dir[n]
    OBVIOUS
<1>3. PICK e : e = [d EXCEPT !.queue = Tail(d.queue), !.files = d.files \cup {Head(d.queue)}]
    OBVIOUS
<1>4. DirOK(d)
    BY <1>2 DEF CInv, Dirs
<1>5. dir' = [dir EXCEPT ![n] = e] /\ d.queue # <<>>
    BY <1>2, <1>3, <1>4 DEF Persist, CInv, Dirs, DirOK, DirFields
<1>6. /\ e = [x \in DirFields |-> e[x]] /\ e.here = d.here /\ e.hist = d.hist /\ e.db = d.db
      /\ e.log = d.log /\ e.first = d.first /\ e.queue = Tail(d.queue)
      /\ e.files = d.files \cup {Head(d.queue)}
    BY <1>3, <1>4 DEF DirOK, DirFields
<1>7. ASSUME LogOK(d)
      PROVE  /\ e.first \in 0..NextNo(d) /\ e.queue \in Seq(Nat \X Nat)
             /\ \A i \in 1..Len(e.queue) : RangeOK(d.hist, NextNo(d), e.queue[i])
             /\ \A x \in e.files : RangeOK(d.hist, NextNo(d), x)
  <2>1. d.queue \in Seq(Nat \X Nat) /\ \A i \in 1..Len(d.queue) : RangeOK(d.hist, NextNo(d), d.queue[i])
      BY <1>7 DEF LogOK
  <2>2. PICK q : q = d.queue
      OBVIOUS
  <2>3. /\ Tail(q) \in Seq(Nat \X Nat) /\ Head(q) = q[1] /\ Len(q) \in Nat /\ Len(q) >= 1
        /\ \A i \in 1..Len(Tail(q)) : i + 1 \in 1..Len(q) /\ Tail(q)[i] = q[i + 1]
    <3>1. q \in Seq(Nat \X Nat) /\ q # <<>>
        BY <1>5, <2>1, <2>2
    <3> QED BY <3>1, TailIs
  <2>4. e.queue \in Seq(Nat \X Nat) /\ e.queue = Tail(q)
      BY <1>6, <2>2, <2>3
  <2>5. RangeOK(d.hist, NextNo(d), Head(d.queue))
    <3>1. 1 \in 1..Len(q)
        BY <2>3
    <3> QED BY <2>1, <2>2, <2>3, <3>1
  <2>6. \A i \in 1..Len(e.queue) : RangeOK(d.hist, NextNo(d), e.queue[i])
      BY <2>1, <2>2, <2>3, <2>4
  <2>7. \A x \in e.files : RangeOK(d.hist, NextNo(d), x)
      BY <1>6, <1>7, <2>5 DEF LogOK
  <2>8. e.first \in 0..NextNo(d)
      BY <1>6, <1>7 DEF LogOK
  <2> QED BY <2>4, <2>6, <2>7, <2>8
<1>8. e.here \in BOOLEAN
    BY <1>4, <1>6 DEF DirOK
<1>9. DirOK(e)
    BY <1>4, <1>6, <1>7, <1>8, SameLog
<1> QED BY <1>1, <1>2, <1>5, <1>6, <1>9, SameDbStep

\* The backup.
LEMMA UploadStep ==
    ASSUME CInv, NEW n \in Names, Upload(n)
    PROVE  CInv'
<1>1. /\ UNCHANGED <<dir, config, ver, store, conn, op>> /\ n \in store /\ config.backups
      /\ dir[n].db # Empty /\ gens' = [gens EXCEPT ![n] = dir[n].db]
    BY DEF Upload, Elsewhere
<1>2. config.kind = "primary"
    BY <1>1 DEF CInv, Loaded, Configs
<1>3. IsDb(dir[n].db)
    BY DEF CInv, Dirs, DirOK
<1>4. Backups'
    BY <1>1, <1>3 DEF CInv, Backups
<1>5. Operation'
    BY <1>1, OpKept DEF CInv
<1> QED BY <1>1, <1>4, <1>5 DEF CInv, Dirs, Loaded

\* A crash.
LEMMA CrashStep ==
    ASSUME CInv, Crash
    PROVE  CInv'
<1>1. /\ UNCHANGED <<dir, gens, config, ver>> /\ store' = {} /\ op' = NoOp /\ conn' = NoConn
    BY DEF Crash
<1>2. Loaded'
    BY <1>1 DEF CInv, Loaded, NoConn
<1> QED BY <1>1, <1>2 DEF CInv, Dirs, Backups, Operation

-----------------------------------------------------------------------------
(* Forks. *)

LEMMA CInit ==
    ASSUME Init
    PROVE  CInv
<1>1. Dirs
    BY NoDirIs DEF Init, Dirs
<1>2. Backups
    BY NoDbIs DEF Init, Backups
<1>3. Loaded
    BY DEF Init, Loaded, NoConn
<1> QED BY <1>1, <1>2, <1>3 DEF Init, CInv, Operation

LEMMA CNext ==
    ASSUME CInv, [Next]_vars, ~Zombies
    PROVE  CInv'
<1>1. CASE OpStep
    BY <1>1, TombstoneStep, RemoveStep, CreateStep, DumpStep, ReplicaStep, BeginStep, LoopStep,
       FrameStep, SnapshotStep, RenameStep, CleanupStep DEF OpStep
<1>2. CASE Fault \/ Commit \/ Crash
    BY <1>2, FaultStep, CommitStep, CrashStep
<1>3. ASSUME NEW n \in Names, Request(n)
      PROVE  CInv'
    BY <1>3, WithStep, LoadStep, DropStep, ForkStep DEF Request
<1>4. ASSUME NEW n \in Names, \/ Compact(n) \/ Persist(n) \/ Upload(n)
                              \/ ReplicatorTask(n) \/ PrimaryChanges(n)
      PROVE  CInv'
    BY <1>4, CompactStep, PersistStep, UploadStep, CallbackStep, OtherSideStep
<1>5. ASSUME NEW t \in deleting, CommitDeletion(t)
      PROVE  CInv'
    BY <1>5, DeletionStep
<1>6. CASE UNCHANGED vars
  <2>1. UNCHANGED <<dir, gens, config, ver, store, conn, op>>
      BY <1>6 DEF vars, backup, counters
  <2>2. Operation'
      BY <2>1, OpKept DEF CInv
  <2> QED BY <2>1, <2>2, OnlyOp
<1> QED BY <1>1, <1>2, <1>3, <1>4, <1>5, <1>6 DEF Next

\* What is renamed to be the directory of a fork is a state that its source had, committed,
\* while ForkTask::try_fork was running, whatever was committed and compacted meanwhile
\* and whether frames were read from the log or from snapshots (namespace/fork.rs). No
\* client may go on with a connection of a namespace that is gone.
THEOREM ForksAreCommitted == ~Zombies /\ Spec => []ForkIsCommitted
<1>1. CInv => ForkIsCommitted
    BY OpAt DEF CInv, ForkIsCommitted, IsLate
<1>2. Init => CInv
    BY CInit
<1>3. CASE Zombies
    BY <1>3
<1>4. CASE ~Zombies
  <2>1. CInv /\ [Next]_vars => CInv'
      BY <1>4, CNext
  <2> QED BY <1>1, <1>2, <2>1, PTL DEF Spec
<1> QED BY <1>3, <1>4

-----------------------------------------------------------------------------
(* Kept, Promised and Deletions: what leaves them alone. *)

\* Nothing takes away what name n may hold, its database or what keeps its backup from
\* being restored.
Same(n) ==
    /\ dir'[n].db = dir[n].db /\ dir'[n].here = dir[n].here /\ gens'[n] = gens[n]
    /\ want[n] \subseteq want'[n] /\ (Entombed(n) => Entombed(n)') /\ (n \in tomb' => n \in tomb)

LEMMA SameIs ==
    ASSUME NEW n, Same(n), config' = config
    PROVE  (Covered(n) => Covered(n)') /\ (KeptAt(n) => KeptAt(n)')
<1>1. Covered(n) => Covered(n)'
    BY DEF Same, Covered
<1> QED BY <1>1 DEF Same, KeptAt

LEMMA SameBackup ==
    ASSUME NEW n, dir'[n] = dir[n], UNCHANGED backup, want[n] \subseteq want'[n]
    PROVE  Same(n)
BY DEF Same, backup, Entombed

\* Only name m is touched.
LEMMA KeptBut ==
    ASSUME Kept, config' = config, NEW m, want' = [x \in Names |-> want'[x]],
           \A x \in Names : x # m => Same(x),
           config.kind = "primary" /\ m \in Names => KeptAt(m)'
    PROVE  Kept'
<1>1. ASSUME NEW x \in Names, config.kind = "primary" PROVE KeptAt(x)'
    BY <1>1, SameIs DEF Kept
<1> QED BY <1>1 DEF Kept

LEMMA KeptAll ==
    ASSUME Kept, config' = config, want' = [x \in Names |-> want'[x]], \A x \in Names : Same(x)
    PROVE  Kept'
<1>1. ASSUME NEW x \in Names, config.kind = "primary" PROVE KeptAt(x)'
    BY <1>1, SameIs DEF Kept
<1> QED BY <1>1 DEF Kept

\* The names an operation waits for are not in the store.
LEMMA WaitsFor ==
    ASSUME Operation
    PROVE  /\ op.kind \in {"with", "create", "destroy", "reset"} => IsPlain(op) /\ op.n \in Names \ store
           /\ op.pc = "dump" => op.n \in Names \ store /\ op.kind = "create"
           /\ op.kind = "fork" => op.to \in Names \ store /\ op.n \in Names /\ op.n # op.to
           /\ op.kind = "fork" /\ op.pc = "create" => op.n \in Names \ store
<1>1. op = NoOp => op.kind = "none" /\ op.pc = "none"
    BY OpAt
<1>2. IsPlain(op) => /\ op.n \in Names \ store /\ op.kind # "fork"
                     /\ op.pc = "dump" => op.kind = "create"
    BY DEF IsPlain
<1>3. IsEarly(op) => /\ op.to \in Names \ store /\ op.n \in Names /\ op.n # op.to
                     /\ op.kind = "fork" /\ op.pc # "dump" /\ (op.pc = "create" => op.n \notin store)
    BY DEF IsEarly, Forking
<1>4. IsLate(op) => /\ op.to \in Names \ store /\ op.n \in Names /\ op.n # op.to
                    /\ op.kind = "fork" /\ op.pc # "dump" /\ op.pc # "create"
    BY DEF IsLate, Forking
<1> QED BY <1>1, <1>2, <1>3, <1>4 DEF Operation

\* The operation is where it was, and the names it waits for are not touched.
LEMMA PromisedOn ==
    ASSUME Operation, Promised, config' = config, \A x \in Names \ store : Same(x),
           op'.kind = op.kind, op'.pc = op.pc, op'.allow = op.allow,
           op'.n = op.n, op'.to = op.to
    PROVE  Promised'
<1> SUFFICES ASSUME config.kind = "primary" PROVE Promised'
    BY DEF Promised
<1>1. op.kind \in {"with", "create", "destroy", "reset"} \/ op.pc = "dump" => Same(op.n)
    BY WaitsFor
<1>2. op.kind = "fork" => Same(op.to) /\ (op.pc = "create" => Same(op.n))
    BY WaitsFor
<1>3. \A x : Same(x) => (Covered(x) => Covered(x)')
    BY SameIs
<1>4. op.kind = "fork" => Covered(op.to)'
    BY <1>2, <1>3 DEF Promised
<1>5. op.kind = "destroy" /\ op.pc = "rmdir" => (gens[op.n] = NoDb \/ Entombed(op.n))'
    BY <1>1 DEF Promised, Same
<1>6. op.kind = "reset" => (/\ gens[op.n] \in want[op.n] \cup {NoDb}
                            /\ Empty \in want[op.n] \/ (gens[op.n] # NoDb /\ op.n \notin tomb))'
    BY <1>1 DEF Promised, Same
<1> QED BY <1>1, <1>2, <1>4, <1>5, <1>6 DEF Promised, Same

\* There is no operation, or none that was promised anything.
LEMMA PromisedNone ==
    ASSUME op' = NoOp
    PROVE  Promised'
BY DEF Promised, NoOp

\* A fork goes on.
LEMMA PromisedFork ==
    ASSUME Operation, Promised, config' = config, op.kind = "fork", op'.kind = "fork", op'.to = op.to,
           op'.pc \notin {"create", "dump"}, NoDb \in want'[op.to], Covered(op.to) => Covered(op.to)',
           op'.pc \notin {"created", "cleanup"} => dir'[op.to].db = NoDb
    PROVE  Promised'
BY DEF Promised

LEMMA DeletionsSame ==
    ASSUME Deletions, UNCHANGED <<deleting, tomb>>, ops' \in Nat
    PROVE  Deletions'
BY DEF Deletions

-----------------------------------------------------------------------------
(* Kept, Promised and Deletions: requests, deletions, the file system. *)

Wanted == Deletions /\ Kept /\ Promised

\* Only the operation changes.
LEMMA OpOnly ==
    ASSUME Wanted, UNCHANGED <<dir, backup, config, want>>, ops' \in Nat, Promised'
    PROVE  Wanted'
<1>1. \A x \in Names : Same(x)
    BY SameBackup
<1>2. Kept'
    BY <1>1, KeptAll DEF Wanted, Kept
<1> QED BY <1>2, DeletionsSame DEF Wanted, backup

\* Nothing that matters changes.
LEMMA Quiet ==
    ASSUME AInv, UNCHANGED <<dir, backup, config, want, op, ops>>
    PROVE  Wanted'
<1>1. \A x \in Names : Same(x)
    BY SameBackup
<1>2. Promised'
    BY <1>1, PromisedOn DEF AInv, CInv
<1> QED BY <1>2, OpOnly DEF AInv, Wanted, Deletions

LEMMA BeginOps ==
    ASSUME Deletions, NEW o, Begin(o)
    PROVE  ops' \in Nat /\ op' = o /\ config' = config /\ UNCHANGED backup
BY DEF Deletions, Begin

\* with.
LEMMA WithLoadWanted ==
    ASSUME AInv, NEW n \in Names, WithLoad(n), ~Strays
    PROVE  Wanted'
<1>1. /\ ops' \in Nat /\ config' = config /\ UNCHANGED backup /\ UNCHANGED <<dir, want>>
      /\ op' = On("with", n, "create", "latest", config.kind = "replica")
    BY BeginOps DEF WithLoad, AInv
<1>2. /\ op'.kind = "with" /\ op'.n = n /\ op'.pc = "create"
      /\ op'.allow = (config.kind = "replica")
    BY <1>1 DEF On
<1>3. config.backups => dir[n].db # NoDb
    BY DEF WithLoad, Named
<1>4. Promised'
    BY <1>1, <1>2, <1>3 DEF Promised
<1> QED BY <1>1, <1>4, OpOnly DEF AInv, Wanted

\* What a name may hold is more than before.
LEMMA MoreWanted ==
    ASSUME AInv, NEW n \in Names, NEW S, UNCHANGED <<dir, backup, config>>, ops' \in Nat,
           want' = [want EXCEPT ![n] = want[n] \cup S], Promised'
    PROVE  Wanted'
<1>1. want' = [x \in Names |-> want'[x]] /\ \A x \in Names : want[x] \subseteq want'[x]
    BY DEF AInv, Kept
<1>2. \A x \in Names : Same(x)
    BY <1>1, SameBackup
<1>3. Kept'
    BY <1>1, <1>2, KeptAll DEF AInv
<1> QED BY <1>3, DeletionsSame DEF AInv, Wanted, backup

\* create.
LEMMA CreateWanted ==
    ASSUME AInv, NEW n \in Names, NEW opt \in {"latest", "dump"}, Create(n, opt)
    PROVE  Wanted'
<1>1. /\ ops' \in Nat /\ config' = config /\ UNCHANGED backup /\ UNCHANGED dir
      /\ op' = On("create", n, "create", opt, TRUE)
    BY BeginOps DEF Create, AInv
<1>2. op'.kind = "create" /\ op'.n = n /\ op'.pc = "create"
    BY <1>1, OnIs
<1>3. PICK S : want' = [want EXCEPT ![n] = want[n] \cup S]
               /\ (NoDb \in want[n] /\ config.kind = "primary" => Empty \in S)
  <2>1. CASE NoDb \in want[n] /\ config.kind = "primary"
      BY <2>1 DEF Create
  <2>2. CASE ~(NoDb \in want[n] /\ config.kind = "primary")
    <3>1. want' = [want EXCEPT ![n] = want[n] \cup {}]
        BY <2>2 DEF Create, AInv, Kept
    <3> QED BY <2>2, <3>1
  <2> QED BY <2>1, <2>2
<1>4. config.kind = "primary" /\ dir[n].db = NoDb => Empty \in want'[n]
    BY <1>3 DEF AInv, Kept, KeptAt
<1>5. Promised'
    BY <1>1, <1>2, <1>4 DEF Promised
<1> QED BY <1>1, <1>3, <1>5, MoreWanted

\* destroy.
LEMMA DestroyWanted ==
    ASSUME AInv, NEW n \in Names, Destroy(n)
    PROVE  Wanted'
<1>1. /\ ops' \in Nat /\ config' = config /\ UNCHANGED backup /\ UNCHANGED dir
      /\ op' = On("destroy", n, IF config.backups THEN "tombstone" ELSE "rmdir", "latest", TRUE)
  <2>1. PICK o : o = On("destroy", n, IF config.backups THEN "tombstone" ELSE "rmdir", "latest", TRUE)
      OBVIOUS
  <2>2. Begin(o) /\ UNCHANGED dir
      BY <2>1 DEF Destroy
  <2>3. ops' \in Nat /\ op' = o /\ config' = config /\ UNCHANGED backup
      BY <2>2, BeginOps DEF AInv
  <2> QED BY <2>1, <2>2, <2>3
<1>2. op'.kind = "destroy" /\ op'.n = n /\ op'.pc = IF config.backups THEN "tombstone" ELSE "rmdir"
    BY <1>1, OnIs
<1>3. want' = [want EXCEPT ![n] = want[n] \cup {NoDb}] /\ NoDb \in want'[n]
    BY DEF Destroy, AInv, Kept
<1>4. ~config.backups => gens'[n] = NoDb
    BY <1>1 DEF AInv, CInv, Backups, backup
<1>5. Promised'
    BY <1>1, <1>2, <1>3, <1>4 DEF Promised
<1> QED BY <1>1, <1>3, <1>5, MoreWanted

\* reset.
LEMMA ResetWanted ==
    ASSUME AInv, NEW n \in Names, Reset(n)
    PROVE  Wanted'
<1>1. /\ ops' \in Nat /\ config' = config /\ UNCHANGED backup /\ UNCHANGED dir
      /\ op' = On("reset", n, "rmdir", "latest", TRUE)
    BY BeginOps DEF Reset, AInv
<1>2. op'.kind = "reset" /\ op'.n = n /\ op'.pc = "rmdir"
    BY <1>1, OnIs
<1>3. PICK S : S = {NoDb, Restorable(n)} \cup (IF n \in tomb THEN {Empty} ELSE {})
    OBVIOUS
<1>4. want' = [want EXCEPT ![n] = want[n] \cup S]
    BY <1>3 DEF Reset, AInv, Kept
<1>5. S \subseteq want'[n]
    BY <1>4 DEF AInv, Kept
<1>6. /\ NoDb \in S /\ gens[n] \in S \cup {NoDb}
      /\ Empty \in S \/ (gens[n] # NoDb /\ n \notin tomb)
    BY <1>3 DEF Restorable
<1>7. UNCHANGED <<gens, tomb>>
    BY <1>1 DEF backup
<1>8. Promised'
    BY <1>1, <1>2, <1>5, <1>6, <1>7 DEF Promised
<1> QED BY <1>1, <1>4, <1>8, MoreWanted

\* fork.
LEMMA ForkWanted ==
    ASSUME AInv, NEW n \in Names, NEW to \in Names, ForkFrom(n, to), ~Strays, ~ForksOver
    PROVE  Wanted'
<1>1. /\ ops' \in Nat /\ config' = config /\ UNCHANGED backup /\ UNCHANGED <<dir, want>>
      /\ op' = [kind |-> "fork", n |-> n, to |-> to, opt |-> "latest", allow |-> FALSE,
                pc |-> IF n \notin store THEN "create" ELSE "fork", left |-> DumpLen]
    BY BeginOps DEF ForkFrom, AInv
<1>2. /\ op'.kind = "fork" /\ op'.n = n /\ op'.to = to /\ op'.pc \in {"create", "fork"}
      /\ op'.allow = FALSE
    BY <1>1
<1>3. config.backups => dir[n].db # NoDb
    BY DEF ForkFrom, Named
<1>4. dir[to].db = NoDb
    BY DEF ForkFrom, AInv, CInv, Dirs, DirOK
<1>5. config.kind = "primary" => NoDb \in want[to] /\ Covered(to)
    BY <1>4 DEF AInv, Kept, KeptAt
<1>6. Covered(to) => Covered(to)'
    BY <1>1 DEF Covered, Entombed, backup
<1>7. Promised'
    BY <1>1, <1>2, <1>3, <1>4, <1>5, <1>6 DEF Promised
<1> QED BY <1>1, <1>7, OpOnly DEF AInv, Wanted

\* The tombstone.
LEMMA TombstoneWanted ==
    ASSUME AInv, PutTombstone, OneDeletion'
    PROVE  Wanted'
<1>1. /\ UNCHANGED <<dir, gens, config, want>> /\ op' = [op EXCEPT !.pc = "rmdir"]
      /\ ops' = ops /\ tomb' = tomb \cup {op.n} /\ op.pc = "tombstone"
    BY DEF PutTombstone, Elsewhere
<1>2. PICK n, t : n = op.n /\ t = [n |-> op.n, id |-> ops, pc |-> "list"]
    OBVIOUS
<1>3. deleting' = deleting \cup {t} /\ t.n = n /\ t.pc = "list"
    BY <1>2 DEF PutTombstone
<1>4. IsPlain(op) /\ op.kind = "destroy" /\ n \in Names
    BY <1>1, <1>2, OpAt DEF AInv, CInv, IsPlain
<1>5. op'.kind = "destroy" /\ op'.n = n /\ op'.pc = "rmdir"
    BY <1>1, <1>2, <1>4 DEF IsPlain, PlainFields
<1>6. Entombed(n)'
    BY <1>1, <1>2, <1>3 DEF Entombed, OneDeletion
<1>7. \A x \in Names : x # n => Same(x)
    BY <1>1, <1>2, <1>3 DEF Same, Entombed
<1>8. KeptAt(n) => KeptAt(n)'
    BY <1>1, <1>6 DEF KeptAt, Covered
<1>9. Kept'
    BY <1>1, <1>4, <1>7, <1>8, KeptBut DEF AInv, Kept
<1>10. Promised'
    BY <1>1, <1>2, <1>4, <1>5, <1>6 DEF AInv, Promised
<1>11. Deletions'
  <2>1. t \in [n : Names, id : Nat, pc : {"list", "remove", "untomb"}]
      BY <1>2, <1>4 DEF AInv, Deletions
  <2> QED BY <1>1, <1>2, <1>3, <1>4, <2>1 DEF AInv, Deletions
<1> QED BY <1>9, <1>10, <1>11 DEF Wanted

\* remove_dir_all.
LEMMA RemoveWanted ==
    ASSUME AInv, RemoveDir
    PROVE  Wanted'
<1>1. /\ UNCHANGED <<backup, gens, tomb, deleting, config, ops>> /\ op.pc = "rmdir"
      /\ dir' = [dir EXCEPT ![op.n] = NoDir]
    BY DEF RemoveDir, Elsewhere, backup
<1>2. PICK n : n = op.n
    OBVIOUS
<1>3. IsPlain(op) /\ op.kind \in {"destroy", "reset"} /\ n \in Names
    BY <1>1, <1>2, OpAt DEF AInv, CInv, IsPlain
<1>4. /\ dir'[n].db = NoDb /\ ~dir'[n].here
      /\ \A x \in Names : x # n => dir'[x] = dir[x]
    BY <1>1, <1>2, <1>3, NoDirIs DEF AInv, CInv, Dirs
<1>5. /\ want' = [x \in Names |-> want'[x]] /\ \A x \in Names : x # n => want'[x] = want[x]
      /\ want'[n] = want[n] \/ (want'[n] = {NoDb} /\ op.kind = "destroy")
    BY <1>2, <1>3 DEF RemoveDir, AInv, Kept, End
<1>6. op' = NoOp \/ (op.kind = "reset" /\ op' = [op EXCEPT !.pc = "create"] /\ want' = want)
    BY DEF RemoveDir, End
<1>7. \A x \in Names : x # n => Same(x)
    BY <1>1, <1>4, <1>5, SameBackup
<1>8. ASSUME config.kind = "primary"
      PROVE  NoDb \in want'[n] /\ Covered(n)'
  <2>1. NoDb \in want[n]
      BY <1>2, <1>3, <1>8 DEF AInv, Promised
  <2>2. CASE op.kind = "destroy"
    <3>1. gens[n] = NoDb \/ Entombed(n)
        BY <1>1, <1>2, <1>8, <2>2 DEF AInv, Promised
    <3> QED BY <1>1, <1>5, <2>1, <3>1 DEF Covered, Entombed
  <2>3. CASE op.kind = "reset"
    <3>1. gens[n] \in want[n] \cup {NoDb}
        BY <1>2, <1>8, <2>3 DEF AInv, Promised
    <3>2. want' = want
        BY <1>2, <1>3, <2>3 DEF RemoveDir
    <3> QED BY <1>1, <2>1, <3>1, <3>2 DEF Covered
  <2> QED BY <1>3, <2>2, <2>3
<1>9. config.kind = "primary" => KeptAt(n)'
    BY <1>1, <1>4, <1>8 DEF KeptAt
<1>10. Kept'
    BY <1>1, <1>5, <1>7, <1>9, KeptBut DEF AInv
<1>11. CASE op.kind = "reset" /\ op' = [op EXCEPT !.pc = "create"] /\ want' = want
  <2>1. op'.kind = "reset" /\ op'.n = n /\ op'.pc = "create"
      BY <1>2, <1>3, <1>11 DEF IsPlain, PlainFields
  <2>2. Promised'
      BY <1>1, <1>2, <1>11, <2>1 DEF AInv, Promised
  <2> QED BY <1>1, <1>10, <2>2, DeletionsSame DEF Wanted, AInv, Deletions
<1>12. CASE op' = NoOp
    BY <1>1, <1>10, <1>12, PromisedNone, DeletionsSame DEF Wanted, AInv, Deletions
<1> QED BY <1>6, <1>11, <1>12

\* An operation that fails.
LEMMA FailsPromised ==
    ASSUME AInv, Fails, UNCHANGED <<store, config, want, backup>>, op.pc \notin {"fork", "callback"}
    PROVE  Promised'
<1>1. CASE op' = NoOp
    BY <1>1, PromisedNone
<1>2. CASE IsLate(op) /\ op' = [op EXCEPT !.pc = "cleanup"]
  <2>1. op'.pc = "cleanup" /\ op'.to = op.to /\ op'.kind = "fork" /\ op.kind = "fork"
      BY <1>2 DEF IsLate, LateFields, EarlyFields, PlainFields, Forking
  <2>2. Covered(op.to) => Covered(op.to)'
      BY <2>1 DEF Covered, Entombed, backup
  <2>3. config.kind = "primary" => NoDb \in want'[op.to]
      BY <2>1 DEF AInv, Promised
  <2> QED BY <2>1, <2>2, <2>3, PromisedFork DEF AInv, CInv, Promised
<1> QED BY <1>1, <1>2, FailsIs DEF AInv, CInv

\* What the operation that makes a namespace knows of a name without a database.
LEMMA NewIsAsked ==
    ASSUME AInv, config.kind = "primary", op.pc \in {"create", "created"}, NEW n, n = Target,
           ~Refused(n), ~Recovers(n), dir[n].db = NoDb
    PROVE  Empty \in want[n]
<1>1. /\ n \in Names \ store /\ (IsPlain(op) \/ IsEarly(op) \/ IsLate(op))
      /\ (IsPlain(op) \/ IsEarly(op)) => op.pc = "create" /\ n = op.n
      /\ IsLate(op) => op.pc = "created" /\ n = op.to
    BY TargetIs DEF AInv, CInv
<1>2. KeptAt(n) /\ Promised
    BY <1>1 DEF AInv, Kept
<1>3. CASE op.kind \in {"with", "fork"} /\ op.pc = "create"
  <2>1. n = op.n /\ ~op.allow /\ (config.backups => dir[n].db # NoDb)
      BY <1>1, <1>2, <1>3 DEF Promised, IsLate
  <2>2. ~config.backups /\ dir[n].here
      BY <2>1 DEF Refused
  <2> QED BY <1>2, <2>2 DEF KeptAt
<1>4. CASE IsLate(op)
  <2>1. dir[n].db \in op.seen /\ \A x \in op.seen : IsData(x)
      BY <1>1, <1>4 DEF IsLate
  <2> QED BY <2>1, NoDbIs
<1>5. CASE IsPlain(op) /\ op.kind = "create"
    BY <1>1, <1>2, <1>5 DEF Promised
<1>6. CASE IsPlain(op) /\ op.kind = "reset"
  <2>1. Empty \in want[n] \/ (gens[n] # NoDb /\ n \notin tomb)
      BY <1>1, <1>2, <1>6 DEF Promised
  <2>2. gens[n] # NoDb => config.backups
      BY <1>1 DEF AInv, CInv, Backups
  <2> QED BY <2>1, <2>2 DEF Recovers
<1>7. IsPlain(op) => op.kind \in {"with", "create", "reset"}
    BY <1>1 DEF IsPlain
<1>8. IsEarly(op) => op.kind = "fork"
    BY DEF IsEarly, Forking
<1> QED BY <1>1, <1>3, <1>4, <1>5, <1>6, <1>7, <1>8

\* What is opened is what the name may hold; when it is empty there is no backup.
LEMMA OpenedIsWanted ==
    ASSUME AInv, config.kind = "primary", op.pc \in {"create", "created"}, NEW n \in Names, n = Target,
           ~Refused(n), ~Buried(n), LocalWins, NEW keeps \in Keeps(n)
    PROVE  /\ Opened(n, keeps).db \in want[n] /\ Opened(n, keeps).db # NoDb /\ Opened(n, keeps).here
           /\ Opened(n, keeps).db = Empty => gens[n] = NoDb
<1>1. /\ DirOK(Opened(n, keeps)) /\ Opened(n, keeps).log /\ Opened(n, keeps).here
      /\ Opened(n, keeps).db = IF Recovers(n) /\ ~keeps THEN gens[n]
                        ELSE IF dir[n].db = NoDb THEN Empty ELSE dir[n].db
    BY OpenedIs DEF AInv, CInv
<1>2. Opened(n, keeps).db # NoDb
    BY <1>1, NoDbIs DEF DirOK, LogOK
<1>3. KeptAt(n) /\ gens[n] # Empty /\ (~config.backups => gens[n] = NoDb)
    BY DEF AInv, Kept, CInv, Backups
<1>4. CASE Recovers(n) /\ ~keeps
  <2>1. gens[n] # NoDb /\ ~Entombed(n) /\ dir[n].db \in {NoDb, Empty}
      BY <1>4 DEF Recovers, Buried, Entombed, Keeps, LocalWins
  <2>2. gens[n] \in want[n]
      BY <1>3, <2>1 DEF KeptAt, Covered
  <2> QED BY <1>1, <1>2, <1>3, <1>4, <2>2
<1>5. CASE ~(Recovers(n) /\ ~keeps)
  <2>1. CASE dir[n].db = NoDb
    <3>1. ~Recovers(n) /\ Opened(n, keeps).db = Empty
        BY <1>1, <1>5, <2>1 DEF Keeps
    <3>2. Empty \in want[n]
        BY <2>1, <3>1, NewIsAsked
    <3> QED BY <1>1, <1>2, <1>3, <3>1, <3>2 DEF Recovers
  <2>2. CASE dir[n].db # NoDb
    <3>1. Opened(n, keeps).db = dir[n].db /\ dir[n].db \in want[n]
        BY <1>1, <1>3, <1>5, <2>2 DEF KeptAt
    <3>2. dir[n].db = Empty => gens[n] = NoDb
        BY <1>3, <1>5 DEF Keeps, Recovers
    <3> QED BY <1>1, <1>2, <3>1, <3>2
  <2> QED BY <2>1, <2>2
<1> QED BY <1>4, <1>5

\* MakeNamespace::create on a primary.
LEMMA CreatePrimaryWanted ==
    ASSUME AInv, CreatePrimary, LocalWins
    PROVE  Wanted'
<1>1. /\ UNCHANGED <<config, backup, gens, tomb, deleting, ops>> /\ op.pc \in {"create", "created"}
      /\ config.kind = "primary" /\ op.pc \notin {"fork", "callback"}
    BY DEF CreatePrimary, Elsewhere, backup
<1>2. PICK n : n = Target
    OBVIOUS
<1>3. /\ n \in Names \ store
      /\ IsLate(op) => n # op.n
      /\ IsPlain(op) \/ IsEarly(op) => n = op.n
    BY <1>1, <1>2, TargetIs DEF AInv, CInv
<1>4. NewPrimary(n)
    BY <1>2 DEF CreatePrimary
<1>5. Deletions'
    BY <1>1, DeletionsSame DEF AInv, Deletions
<1>6. CASE Fails /\ UNCHANGED <<store, dir, want>>
  <2>1. Promised'
      BY <1>1, <1>6, FailsPromised
  <2> QED BY <1>1, <1>6, <2>1, OpOnly DEF AInv, Wanted, Deletions
<1>7. CASE /\ Fails /\ UNCHANGED <<store, want>> /\ Buried(n)
           /\ dir' = [dir EXCEPT ![n].here = TRUE]
  <2>1. Promised'
      BY <1>1, <1>7, FailsPromised
  <2>2. /\ \A x \in Names : x # n => dir'[x] = dir[x]
        /\ dir'[n].db = dir[n].db
      BY <1>3, <1>7 DEF AInv, CInv, Dirs, DirOK, DirFields
  <2>3. config.backups
      BY <1>7 DEF Buried, Recovers
  <2>4. KeptAt(n) => KeptAt(n)'
      BY <1>1, <1>7, <2>2, <2>3 DEF KeptAt, Covered, Entombed
  <2>5. \A x \in Names : x # n => Same(x)
      BY <1>1, <1>7, <2>2, SameBackup
  <2>6. Kept'
      BY <1>1, <1>3, <1>7, <2>4, <2>5, KeptBut DEF AInv, Kept
  <2> QED BY <1>5, <2>1, <2>6 DEF Wanted
<1>8. ASSUME NEW keeps \in Keeps(n), ~Refused(n), ~Buried(n),
             dir' = [dir EXCEPT ![n] = Opened(n, keeps)],
             \/ op.opt = "dump" /\ Fails /\ UNCHANGED <<store, want>>
             \/ op.opt = "dump" /\ op' = [op EXCEPT !.pc = "dump"] /\ UNCHANGED <<store, want>>
             \/ /\ op.opt = "latest" /\ Insert(n)
                /\ want' = [want EXCEPT ![n] = {Opened(n, keeps).db} \cap @]
      PROVE  Wanted'
  <2>1. PICK e : e = Opened(n, keeps)
      OBVIOUS
  <2>2. e.db \in want[n] /\ e.db # NoDb /\ (e.db = Empty => gens[n] = NoDb)
      BY <1>1, <1>2, <1>3, <1>8, <2>1, OpenedIsWanted
  <2>3. dir'[n] = e /\ \A x \in Names : x # n => dir'[x] = dir[x]
      BY <1>3, <1>8, <2>1 DEF AInv, CInv, Dirs
  <2>4. /\ want' = [x \in Names |-> want'[x]] /\ e.db \in want'[n]
        /\ \A x \in Names : x # n => want'[x] = want[x]
      BY <1>3, <1>8, <2>1, <2>2 DEF AInv, Kept
  <2>5. KeptAt(n)'
      BY <1>1, <2>2, <2>3, <2>4 DEF KeptAt, Covered
  <2>6. \A x \in Names : x # n => Same(x)
      BY <1>1, <2>3, <2>4, SameBackup
  <2>7. Kept'
      BY <1>1, <1>3, <2>4, <2>5, <2>6, KeptBut DEF AInv
  <2>8. Promised'
    <3>1. CASE op.opt = "dump" /\ Fails /\ UNCHANGED <<store, want>>
        BY <1>1, <3>1, FailsPromised
    <3>2. CASE op.opt = "dump" /\ op' = [op EXCEPT !.pc = "dump"]
      <4>1. IsPlain(op) /\ op.kind = "create" /\ op.n = n
          BY <1>1, <1>2, <1>3, <3>2, TargetIs DEF AInv, CInv, IsPlain, IsEarly, IsLate, Forking
      <4>2. op'.kind = "create" /\ op'.pc = "dump" /\ op'.n = n
          BY <3>2, <4>1 DEF IsPlain, PlainFields
      <4> QED BY <1>1, <2>2, <2>3, <4>2 DEF Promised
    <3>3. CASE Insert(n)
      <4>1. op' = NoOp \/ (IsEarly(op) /\ op' = [op EXCEPT !.pc = "fork"])
          BY <1>1, <1>3, <3>3, InsertIs DEF AInv, CInv
      <4>2. ASSUME IsEarly(op), op' = [op EXCEPT !.pc = "fork"]
            PROVE  Promised'
        <5>1. /\ op'.kind = "fork" /\ op'.pc = "fork" /\ op'.to = op.to /\ op.kind = "fork"
              /\ op.to \in Names /\ op.to # n
            BY <1>3, <4>2 DEF IsEarly, EarlyFields, PlainFields, Forking
        <5>2. dir'[op.to] = dir[op.to] /\ want'[op.to] = want[op.to] /\ Same(op.to)
            BY <2>3, <2>4, <2>6, <5>1
        <5>3. op.pc = "create"
            BY <1>1, <4>2 DEF IsEarly
        <5>4. NoDb \in want[op.to] /\ dir[op.to].db = NoDb /\ Covered(op.to)
            BY <1>1, <5>1, <5>3 DEF AInv, Promised
        <5>5. PICK to : to = op.to
            OBVIOUS
        <5>6. Covered(to)'
            BY <1>1, <5>2, <5>4, <5>5, SameIs
        <5> QED BY <1>1, <5>1, <5>2, <5>4, <5>5, <5>6 DEF Promised
      <4> QED BY <4>1, <4>2, PromisedNone
    <3> QED BY <1>8, <3>1, <3>2, <3>3
  <2> QED BY <1>5, <2>7, <2>8 DEF Wanted
<1> QED BY <1>4, <1>6, <1>7, <1>8, NewPrimaryIs

\* load_dump.
LEMMA DumpWanted ==
    ASSUME AInv, LoadDump
    PROVE  Wanted'
<1>1. UNCHANGED <<config, backup, gens, tomb, deleting, ops>> /\ op.pc = "dump"
    BY DEF LoadDump, backup
<1>2. PICK n : n = op.n
    OBVIOUS
<1>3. /\ IsPlain(op) /\ n \in Names \ store /\ config.kind = "primary" /\ dir[n].log
      /\ op.kind = "create" /\ ~IsLate(op) /\ ~IsEarly(op) /\ DirOK(dir[n])
    BY <1>1, <1>2, OpAt DEF AInv, CInv, IsPlain, IsLate, IsEarly, Forking, Dirs
<1>4. PICK t : t = CHOOSE x \in Txns : Possible(dir[n].db, x)
    OBVIOUS
<1>5. t \in Txns /\ Possible(dir[n].db, t)
    BY <1>4, FirstTxn
<1>6. Deletions'
    BY <1>1, DeletionsSame DEF AInv, Deletions
<1>7. CASE /\ dir' = [dir EXCEPT ![n] = Logged(dir[n], t, ver)]
           /\ op' = [op EXCEPT !.left = @ - 1] /\ want' = [want EXCEPT ![n] = @ \cup {dir'[n].db}]
  <2>1. PICK e : e = Logged(dir[n], t, ver)
      OBVIOUS
  <2>2. ver \in Nat
      BY DEF AInv, CInv, Loaded
  <2>3. IsData(e.db) /\ e.db # Empty /\ e.db # NoDb
      BY <1>3, <1>5, <2>1, <2>2, LoggedIs, NoDbIs
  <2>4. dir'[n] = e /\ \A x \in Names : x # n => dir'[x] = dir[x]
      BY <1>3, <1>7, <2>1 DEF AInv, CInv, Dirs
  <2>5. /\ want' = [x \in Names |-> want'[x]] /\ e.db \in want'[n]
        /\ \A x \in Names : x # n => want'[x] = want[x]
    <3>1. want' = [want EXCEPT ![n] = want[n] \cup {e.db}]
        BY <1>7, <2>4
    <3>2. want = [x \in Names |-> want[x]]
        BY DEF AInv, Kept
    <3> QED BY <1>3, <3>1, <3>2
  <2>6. KeptAt(n)'
      BY <2>3, <2>4, <2>5 DEF KeptAt
  <2>7. Kept'
      BY <1>1, <1>3, <2>4, <2>5, <2>6, KeptBut, SameBackup DEF AInv
  <2>8. op'.kind = "create" /\ op'.pc = "dump" /\ op'.n = n
      BY <1>1, <1>2, <1>3, <1>7 DEF IsPlain, PlainFields
  <2>9. Promised'
      BY <2>3, <2>4, <2>8 DEF Promised
  <2> QED BY <1>6, <2>7, <2>9 DEF Wanted
<1>8. CASE Insert(n) /\ UNCHANGED dir /\ want' = [want EXCEPT ![n] = {dir[n].db}]
  <2>1. op' = NoOp
      BY <1>3, <1>8 DEF Insert, End
  <2>2. /\ want' = [x \in Names |-> want'[x]] /\ dir[n].db \in want'[n]
        /\ \A x \in Names : x # n => want'[x] = want[x]
      BY <1>3, <1>8 DEF AInv, Kept
  <2>3. dir[n].db # NoDb
      BY <1>3, NoDbIs DEF DirOK, LogOK
  <2>4. dir[n].db = Empty => gens[n] = NoDb
      BY <1>1, <1>2, <1>3 DEF AInv, Promised
  <2>5. KeptAt(n)'
      BY <1>1, <1>8, <2>2, <2>3, <2>4 DEF KeptAt, Covered
  <2>6. Kept'
      BY <1>1, <1>3, <1>8, <2>2, <2>5, KeptBut, SameBackup DEF AInv
  <2> QED BY <1>6, <2>1, <2>6, PromisedNone DEF Wanted
<1> QED BY <1>2, <1>4, <1>7, <1>8 DEF LoadDump

\* ForkTask, until the directory is renamed.
LEMMA CopyWanted ==
    ASSUME AInv, BeginFork \/ CopyLoop \/ ReadFrame \/ ReadSnapshot
    PROVE  Wanted'
<1>1. UNCHANGED <<dir, backup, config, want, ops>>
    BY DEF BeginFork, CopyLoop, ReadFrame, ReadSnapshot, Elsewhere
<1>2. op.pc \in {"fork", "copy", "stream", "snapshot"}
    BY DEF BeginFork, CopyLoop, ReadFrame, ReadSnapshot
<1>3. op.kind = "fork" /\ (IsEarly(op) \/ IsLate(op))
    BY <1>2, OpAt DEF AInv, CInv
<1>4. op' = NoOp \/ (/\ op'.kind = "fork" /\ op'.to = op.to
                     /\ op'.pc \in {"copy", "stream", "snapshot", "rename"})
  <2>1. CASE BeginFork
      BY <2>1 DEF BeginFork
  <2>2. CASE CopyLoop
    <3>1. IsLate(op)
        BY <2>2, OpAt DEF AInv, CInv, CopyLoop
    <3> QED BY <1>3, <2>2, <3>1 DEF CopyLoop, IsLate, LateFields, EarlyFields, PlainFields
  <2>3. CASE ReadFrame \/ ReadSnapshot
    <3>1. IsLate(op)
        BY <2>3, OpAt DEF AInv, CInv, ReadFrame, ReadSnapshot
    <3>2. ASSUME NEW F, NEW pc \in {"copy", "stream"}, Copy(F, pc)
          PROVE  op'.kind = "fork" /\ op'.to = op.to /\ op'.pc = pc
        BY <1>3, <3>1, <3>2 DEF Copy, IsLate, LateFields, EarlyFields, PlainFields
    <3>3. ASSUME NEW pc, op' = [op EXCEPT !.pc = pc]
          PROVE  op'.kind = "fork" /\ op'.to = op.to /\ op'.pc = pc
        BY <1>3, <3>1, <3>3 DEF IsLate, LateFields, EarlyFields, PlainFields
    <3> QED BY <2>3, <3>2, <3>3 DEF ReadFrame, ReadSnapshot
  <2> QED BY <2>1, <2>2, <2>3
<1>5. ASSUME op'.kind = "fork", op'.to = op.to, op'.pc \in {"copy", "stream", "snapshot", "rename"},
             config.kind = "primary"
      PROVE  Promised'
  <2>1. NoDb \in want[op.to] /\ dir[op.to].db = NoDb
      BY <1>2, <1>3, <1>5 DEF AInv, Promised
  <2>2. Covered(op.to) => Covered(op.to)'
      BY <1>1, <1>5 DEF Covered, Entombed, backup
  <2> QED BY <1>1, <1>3, <1>5, <2>1, <2>2, PromisedFork DEF AInv, CInv
<1>6. Promised'
    BY <1>1, <1>4, <1>5, PromisedNone DEF Promised
<1> QED BY <1>1, <1>6, OpOnly DEF AInv, Wanted, Deletions

\* The directory of a fork.
LEMMA RenameWanted ==
    ASSUME AInv, CInv', Rename
    PROVE  Wanted'
<1>1. UNCHANGED <<config, backup, gens, tomb, deleting, ops>> /\ op.pc = "rename" /\ op.pc \in Copying
    BY DEF Rename, Elsewhere, backup, Copying
<1>2. PICK to : to = op.to
    OBVIOUS
<1>3. IsLate(op) /\ to \in Names /\ config.kind = "primary" /\ op.kind = "fork"
    BY <1>1, <1>2, SourceIs DEF AInv, IsLate, Forking
<1>4. NoDb \in want[to] /\ Covered(to)
    BY <1>2, <1>3 DEF AInv, Promised
<1>5. CASE op' = [op EXCEPT !.pc = "cleanup"] /\ UNCHANGED <<dir, want>>
  <2>1. op'.kind = "fork" /\ op'.to = to /\ op'.pc = "cleanup"
      BY <1>2, <1>3, <1>5 DEF IsLate, LateFields, EarlyFields, PlainFields
  <2>2. Covered(to)'
      BY <1>1, <1>4, <1>5 DEF Covered, Entombed
  <2>3. Promised'
      BY <1>4, <1>5, <2>1, <2>2 DEF Promised
  <2> QED BY <1>1, <1>5, <2>3, OpOnly DEF AInv, Wanted, Deletions
<1>6. CASE /\ dir' = [dir EXCEPT ![to] = [BareDir EXCEPT !.db = op.data]]
           /\ want' = [want EXCEPT ![to] = @ \cup {op.data}]
           /\ op' = [op EXCEPT !.pc = "created"]
  <2>1. op'.kind = "fork" /\ op'.to = to /\ op'.pc = "created"
      BY <1>2, <1>3, <1>6 DEF IsLate, LateFields, EarlyFields, PlainFields
  <2>2. PICK e : e = [BareDir EXCEPT !.db = op.data]
      OBVIOUS
  <2>3. e.db = op.data
      BY <2>2 DEF BareDir, NoDir
  <2>4. dir'[to] = e /\ \A x \in Names : x # to => dir'[x] = dir[x]
      BY <1>3, <1>6, <2>2 DEF AInv, CInv, Dirs
  <2>5. e.db # NoDb
    <3>1. IsLate(op)'
        BY <2>1, OpAt DEF CInv, Operation, IsPlain, IsEarly, Forking, NoOp
    <3>2. dir'[to].db \in op'.seen /\ \A x \in op'.seen : IsData(x)
        BY <2>1, <3>1 DEF IsLate
    <3> QED BY <2>4, <3>2, NoDbIs
  <2>6. /\ want' = [x \in Names |-> want'[x]] /\ e.db \in want'[to] /\ want[to] \subseteq want'[to]
        /\ \A x \in Names : x # to => want'[x] = want[x]
      BY <1>3, <1>6, <2>3 DEF AInv, Kept
  <2>7. Covered(to)'
      BY <1>1, <1>4, <2>6 DEF Covered, Entombed
  <2>8. KeptAt(to)'
      BY <2>4, <2>5, <2>6, <2>7 DEF KeptAt
  <2>9. Kept'
      BY <1>1, <1>3, <2>4, <2>6, <2>8, KeptBut, SameBackup DEF AInv
  <2>10. Promised'
      BY <1>4, <2>1, <2>6, <2>7 DEF Promised
  <2> QED BY <1>1, <2>9, <2>10, DeletionsSame DEF Wanted, AInv, Deletions
<1> QED BY <1>2, <1>5, <1>6 DEF Rename

\* A fork that failed.
LEMMA CleanupWanted ==
    ASSUME AInv, Cleanup
    PROVE  Wanted'
<1>1. /\ UNCHANGED <<config, backup, gens, tomb, deleting, ops, want>> /\ op.pc = "cleanup"
      /\ op' = NoOp /\ dir' = [dir EXCEPT ![op.to] = NoDir]
    BY DEF Cleanup, Elsewhere, backup, End
<1>2. PICK to : to = op.to
    OBVIOUS
<1>3. to \in Names /\ config.kind = "primary" /\ op.kind = "fork"
    BY <1>1, <1>2, OpAt DEF AInv, CInv, IsLate, Forking
<1>4. NoDb \in want[to] /\ Covered(to)
    BY <1>2, <1>3 DEF AInv, Promised
<1>5. dir'[to] = NoDir /\ \A x \in Names : x # to => dir'[x] = dir[x]
    BY <1>1, <1>2, <1>3 DEF AInv, CInv, Dirs
<1>6. KeptAt(to)'
    BY <1>1, <1>4, <1>5, NoDirIs DEF KeptAt, Covered, Entombed
<1>7. \A x \in Names : x # to => Same(x)
    BY <1>1, <1>5, SameBackup
<1>8. Kept'
    BY <1>1, <1>6, <1>7, KeptBut DEF AInv, Kept
<1> QED BY <1>1, <1>8, PromisedNone, DeletionsSame DEF Wanted, AInv, Deletions

\* A failure.
LEMMA FaultWanted ==
    ASSUME AInv, Fault
    PROVE  Wanted'
<1>1. /\ UNCHANGED <<dir, backup, config, store, want, ops>> /\ Fails
      /\ op.pc \notin {"fork", "callback"}
    BY DEF Fault, Elsewhere
<1>2. Promised'
    BY <1>1, FailsPromised
<1> QED BY <1>1, <1>2, OpOnly DEF AInv, Wanted, Deletions

-----------------------------------------------------------------------------
(* Kept, Promised and Deletions: clients and background tasks. *)

\* A replica is promised nothing.
LEMMA ReplicaWanted ==
    ASSUME AInv, CreateReplica
    PROVE  Wanted'
<1>1. /\ UNCHANGED <<config, tomb, deleting, want, ops>> /\ config.kind = "replica"
    BY DEF CreateReplica, Elsewhere, backup
<1>2. Kept' /\ Promised'
    BY <1>1 DEF AInv, Kept, Promised
<1> QED BY <1>1, <1>2, DeletionsSame DEF AInv, Wanted, Deletions

\* A client commits.
LEMMA CommitWanted ==
    ASSUME AInv, Commit, ~Zombies
    PROVE  Wanted'
<1>1. /\ UNCHANGED <<config, backup, gens, tomb, deleting, ops>> /\ conn.live
      /\ config.kind = "primary"
    BY DEF Commit, backup
<1>2. PICK n : n = conn.n
    OBVIOUS
<1>3. n \in store /\ n \in Names /\ dir[n].log /\ DirOK(dir[n]) /\ ver \in Nat
    BY <1>1, <1>2 DEF AInv, CInv, Loaded, Dirs
<1>4. PICK t \in Txns :
        /\ Possible(dir[n].db, t)
        /\ dir' = [dir EXCEPT ![n] = Logged(dir[n], t, ver)]
        /\ want' = [want EXCEPT ![n] = {Logged(dir[n], t, ver).db}]
        /\ op' = IF op.kind = "fork" /\ op.pc \in Copying /\ op.n = n
                 THEN [op EXCEPT !.seen = @ \cup {Logged(dir[n], t, ver).db}] ELSE op
    BY <1>1, <1>2 DEF Commit, Copying
<1>5. PICK e : e = Logged(dir[n], t, ver)
    OBVIOUS
<1>6. e.db # Empty /\ e.db # NoDb
    BY <1>3, <1>4, <1>5, LoggedIs, NoDbIs
<1>7. dir'[n] = e /\ \A x \in Names : x # n => dir'[x] = dir[x]
    BY <1>3, <1>4, <1>5 DEF AInv, CInv, Dirs
<1>8. /\ want' = [x \in Names |-> want'[x]] /\ e.db \in want'[n]
      /\ \A x \in Names : x # n => want'[x] = want[x]
    BY <1>3, <1>4, <1>5 DEF AInv, Kept
<1>9. KeptAt(n)'
    BY <1>6, <1>7, <1>8 DEF KeptAt
<1>10. \A x \in Names : x # n => Same(x)
    BY <1>1, <1>7, <1>8, SameBackup
<1>11. Kept'
    BY <1>1, <1>8, <1>9, <1>10, KeptBut DEF AInv
<1>12. op'.kind = op.kind /\ op'.pc = op.pc /\ op'.allow = op.allow /\ op'.n = op.n /\ op'.to = op.to
  <2>1. CASE op.kind = "fork" /\ op.pc \in Copying /\ op.n = n
    <3>1. IsLate(op)
        BY <2>1, SourceIs DEF AInv
    <3> QED BY <1>4, <2>1, <3>1 DEF IsLate, LateFields, EarlyFields, PlainFields
  <2>2. CASE ~(op.kind = "fork" /\ op.pc \in Copying /\ op.n = n)
      BY <1>4, <2>2
  <2> QED BY <2>1, <2>2
<1>13. Promised'
    BY <1>1, <1>3, <1>10, <1>12, PromisedOn DEF AInv, CInv
<1> QED BY <1>1, <1>11, <1>13, DeletionsSame DEF Wanted, AInv, Deletions

\* Compactions.
LEMMA CompactWanted ==
    ASSUME AInv, NEW n \in Names, Compact(n) \/ Persist(n)
    PROVE  Wanted'
<1>1. UNCHANGED <<config, backup, gens, tomb, deleting, ops, op, want>>
    BY DEF Compact, Persist, Elsewhere, backup
<1>2. \A x \in Names : dir'[x].db = dir[x].db /\ dir'[x].here = dir[x].here
    BY DEF Compact, Persist, AInv, CInv, Dirs, DirOK, DirFields
<1>3. \A x \in Names : Same(x)
    BY <1>1, <1>2 DEF Same, Entombed
<1>4. Kept'
    BY <1>1, <1>3, KeptAll DEF AInv, Kept
<1>5. Promised'
    BY <1>1, <1>3, PromisedOn DEF AInv, CInv
<1> QED BY <1>1, <1>4, <1>5, DeletionsSame DEF Wanted, AInv, Deletions

\* The backup.
LEMMA UploadWanted ==
    ASSUME AInv, NEW n \in Names, Upload(n)
    PROVE  Wanted'
<1>1. /\ UNCHANGED <<dir, config, store, op, tomb, deleting, ops, want>> /\ n \in store
      /\ config.backups /\ dir[n].db # Empty /\ gens' = [gens EXCEPT ![n] = dir[n].db]
    BY DEF Upload, Elsewhere
<1>2. config.kind = "primary"
    BY <1>1 DEF AInv, CInv, Loaded, Configs
<1>3. dir[n].db # NoDb
  <2>1. dir[n].log /\ DirOK(dir[n])
      BY <1>1, <1>2 DEF AInv, CInv, Loaded, Dirs
  <2>2. IsData(dir[n].db)
      BY <2>1 DEF DirOK, LogOK
  <2> QED BY <2>2, NoDbIs
<1>4. KeptAt(n) => KeptAt(n)'
    BY <1>1, <1>3 DEF KeptAt
<1>5. \A x \in Names : x # n => Same(x)
    BY <1>1 DEF Same, Entombed, AInv, CInv, Backups
<1>6. Kept'
    BY <1>1, <1>4, <1>5, KeptBut DEF AInv, Kept
<1>7. Promised'
    BY <1>1, <1>5, PromisedOn DEF AInv, CInv
<1> QED BY <1>1, <1>6, <1>7, DeletionsSame DEF Wanted, AInv, Deletions

\* A crash.
LEMMA CrashWanted ==
    ASSUME AInv, Crash
    PROVE  Wanted'
<1>1. /\ UNCHANGED <<dir, gens, tomb, config, want, ops>> /\ deleting' = {} /\ op' = NoOp
    BY DEF Crash
<1>2. \A x \in Names : Same(x)
    BY <1>1 DEF Same, Entombed
<1>3. Kept'
    BY <1>1, <1>2, KeptAll DEF AInv, Kept
<1>4. Deletions'
    BY <1>1 DEF AInv, Deletions
<1> QED BY <1>1, <1>3, <1>4, PromisedNone DEF Wanted

\* DeleteAll::commit.
LEMMA DeletionWanted ==
    ASSUME AInv, NEW t \in deleting, CommitDeletion(t), OneDeletion
    PROVE  Wanted'
<1>1. UNCHANGED <<config, store, dir, op, want, ops>>
    BY DEF CommitDeletion, counters
<1>2. PICK n : n = t.n
    OBVIOUS
<1>3. /\ n \in Names /\ n \in tomb /\ t = [n |-> t.n, id |-> t.id, pc |-> t.pc] /\ t.id \in Nat
    BY <1>2 DEF AInv, Deletions
<1>4. \A s \in deleting : s.n = n => s = t
    BY <1>2 DEF OneDeletion
<1>5. Kept /\ Promised /\ Operation
    BY DEF AInv, CInv
<1>6. CASE /\ UNCHANGED <<gens, tomb>>
           /\ \/ deleting' = deleting \ {t}
              \/ deleting' = (deleting \ {t}) \cup {[t EXCEPT !.pc = "remove"]}
  <2>1. PICK u : u = [t EXCEPT !.pc = "remove"]
      OBVIOUS
  <2>2. u.n = n /\ u.pc = "remove" /\ u \in [n : Names, id : Nat, pc : {"list", "remove", "untomb"}]
      BY <1>2, <1>3, <2>1
  <2>3. deleting' \subseteq deleting \cup {u}
      BY <1>6, <2>1
  <2>4. \A x \in Names : Same(x)
      BY <1>1, <1>6, <2>2, <2>3 DEF Same, Entombed
  <2>5. Kept' /\ Promised'
      BY <1>1, <1>5, <2>4, KeptAll, PromisedOn DEF Kept
  <2>6. Deletions'
      BY <1>1, <1>3, <1>6, <2>2, <2>3 DEF AInv, Deletions
  <2> QED BY <2>5, <2>6 DEF Wanted
<1>7. CASE /\ gens' = [gens EXCEPT ![n] = NoDb] /\ UNCHANGED tomb
           /\ deleting' = (deleting \ {t}) \cup {[t EXCEPT !.pc = "untomb"]}
  <2>1. PICK u : u = [t EXCEPT !.pc = "untomb"]
      OBVIOUS
  <2>2. u.n = n /\ u \in [n : Names, id : Nat, pc : {"list", "remove", "untomb"}]
      BY <1>2, <1>3, <2>1
  <2>3. deleting' \subseteq deleting \cup {u}
      BY <1>7, <2>1
  <2>4. gens'[n] = NoDb /\ \A x \in Names : x # n => gens'[x] = gens[x]
      BY <1>3, <1>7 DEF AInv, CInv, Backups
  <2>5. \A x \in Names : x # n => Same(x)
      BY <1>1, <1>7, <2>2, <2>3, <2>4 DEF Same, Entombed
  <2>6. Covered(n)' /\ (KeptAt(n) => KeptAt(n)')
      BY <1>1, <2>4 DEF KeptAt, Covered
  <2>7. Kept'
      BY <1>1, <1>5, <2>5, <2>6, KeptBut DEF Kept
  <2>8. Promised'
    <3>1. \A x \in Names : Covered(x) => Covered(x)'
        BY <1>1, <2>5, <2>6, SameIs
    <3>2. op.kind = "fork" => op.to \in Names
        BY <1>5, WaitsFor
    <3>3. op.kind = "fork" /\ config.kind = "primary" => Covered(op.to)'
        BY <1>1, <1>5, <3>1, <3>2 DEF Promised
    <3>4. op.kind \in {"create", "destroy", "reset"} \/ op.pc = "dump" => op.n \in Names
        BY <1>5, WaitsFor
    <3>5. op.pc = "dump" /\ dir[op.n].db = Empty /\ config.kind = "primary" => gens'[op.n] = NoDb
        BY <1>5, <2>4, <3>4 DEF Promised
    <3>6. op.kind = "destroy" /\ op.pc = "rmdir" /\ config.kind = "primary" =>
            (gens[op.n] = NoDb \/ Entombed(op.n))'
        BY <1>1, <1>5, <2>4, <2>5, <3>4 DEF Promised, Same
    <3>7. op.kind = "reset" /\ config.kind = "primary" =>
            /\ gens'[op.n] \in want[op.n] \cup {NoDb}
            /\ Empty \in want[op.n] \/ (gens'[op.n] # NoDb /\ op.n \notin tomb)
        BY <1>3, <1>5, <2>4, <3>4 DEF Promised
    <3> QED BY <1>1, <1>5, <1>7, <3>3, <3>5, <3>6, <3>7 DEF Promised
  <2>9. Deletions'
      BY <1>1, <1>3, <1>7, <2>2, <2>3 DEF AInv, Deletions
  <2> QED BY <2>7, <2>8, <2>9 DEF Wanted
<1>8. CASE /\ t.pc = "untomb" /\ tomb' = tomb \ {n} /\ deleting' = deleting \ {t} /\ UNCHANGED gens
  <2>1. ~Entombed(n)
      BY <1>2, <1>8 DEF Entombed
  <2>2. \A x \in Names : Same(x)
    <3>1. \A x \in Names : Entombed(x) => Entombed(x)'
        BY <1>8, <2>1 DEF Entombed
    <3> QED BY <1>1, <1>8, <3>1 DEF Same
  <2>3. Kept' /\ Promised'
      BY <1>1, <1>5, <2>2, KeptAll, PromisedOn DEF Kept
  <2>4. Deletions'
      BY <1>1, <1>2, <1>4, <1>8 DEF AInv, Deletions
  <2> QED BY <2>3, <2>4 DEF Wanted
<1> QED BY <1>2, <1>6, <1>7, <1>8 DEF CommitDeletion

-----------------------------------------------------------------------------
(* What clients find. *)

LEMMA AInit ==
    ASSUME Init
    PROVE  AInv
<1>1. CInv
    BY CInit
<1>2. Deletions
    BY DEF Init, Deletions
<1>3. Kept
    BY NoDirIs DEF Init, Kept, KeptAt, Covered
<1>4. Promised
    BY DEF Init, Promised, NoOp
<1> QED BY <1>1, <1>2, <1>3, <1>4 DEF AInv

LEMMA ANext ==
    ASSUME AInv, [Next]_vars, ~ForksOver, ~Strays, ~Zombies, LocalWins, OneDeletion,
           OneDeletion'
    PROVE  AInv'
<1>1. CInv'
    BY CNext DEF AInv
<1>2. ASSUME OpStep PROVE Wanted'
    BY <1>1, <1>2, TombstoneWanted, RemoveWanted, CreatePrimaryWanted, DumpWanted, ReplicaWanted,
       CopyWanted, RenameWanted, CleanupWanted DEF OpStep
<1>3. ASSUME Fault \/ Commit \/ Crash PROVE Wanted'
    BY <1>3, FaultWanted, CommitWanted, CrashWanted
<1>4. ASSUME NEW n \in Names, Request(n)
      PROVE  Wanted'
  <2>1. CASE With(n)
    <3>1. UNCHANGED <<dir, backup, config, want, op, ops>>
        BY <2>1 DEF With, counters
    <3> QED BY <3>1, Quiet
  <2> QED BY <1>4, <2>1, WithLoadWanted, CreateWanted, DestroyWanted, ResetWanted, ForkWanted
         DEF Request
<1>5. ASSUME NEW n \in Names, \/ Compact(n) \/ Persist(n) \/ Upload(n)
                              \/ ReplicatorTask(n) \/ PrimaryChanges(n)
      PROVE  Wanted'
  <2>1. CASE ReplicatorTask(n) \/ PrimaryChanges(n)
    <3>1. UNCHANGED <<dir, backup, config, want, op, ops>>
        BY <2>1 DEF ReplicatorTask, PrimaryChanges, Elsewhere
    <3> QED BY <3>1, Quiet
  <2> QED BY <1>5, <2>1, CompactWanted, UploadWanted
<1>6. ASSUME NEW t \in deleting, CommitDeletion(t)
      PROVE  Wanted'
    BY <1>6, DeletionWanted
<1>7. ASSUME UNCHANGED vars PROVE Wanted'
  <2>1. UNCHANGED <<dir, backup, config, want, op, ops>>
      BY <1>7 DEF vars, counters
  <2> QED BY <2>1, Quiet
<1>8. Wanted'
    BY <1>2, <1>3, <1>4, <1>5, <1>6, <1>7 DEF Next
<1> QED BY <1>1, <1>8 DEF AInv, Wanted

\* A namespace of a primary that no operation is busy with holds what its clients left in
\* it: nothing that was committed goes missing and nothing that was destroyed comes back
\* from a backup (namespace/mod.rs, namespace/fork.rs, bottomless delete_all). Clients fork
\* only onto names without a directory, name only namespaces that exist, do not go on with
\* connections of namespaces that are gone, no namespace is destroyed while the backup of
\* an earlier one of its name is still being deleted, and, where there are backups, none
\* wins over the database on disk (compare_with_local, bottomless/replicator.rs).
THEOREM NamespacesAreAsAsked ==
    ~ForksOver /\ ~Strays /\ ~Zombies /\ Spec /\ []OneDeletion /\ []LocalWins
        => []NamespacesAsAsked
<1>1. AInv => NamespacesAsAsked
  <2> SUFFICES ASSUME AInv, NEW n \in Names, config.kind # "replica"
               PROVE  dir[n].db \in want[n]
      BY DEF NamespacesAsAsked
  <2>1. config.kind = "primary"
      BY DEF AInv, CInv, Loaded, Configs
  <2> QED BY <2>1 DEF AInv, Kept, KeptAt
<1>2. Init => AInv
    BY AInit
<1>3. CASE ForksOver \/ Strays \/ Zombies
    BY <1>3
<1>4. CASE ~ForksOver /\ ~Strays /\ ~Zombies
  <2>1. AInv /\ [Next]_vars /\ LocalWins /\ OneDeletion /\ OneDeletion' => AInv'
      BY <1>4, ANext
  <2> QED BY <1>1, <1>2, <2>1, PTL DEF Spec
<1> QED BY <1>3, <1>4

=============================================================================
