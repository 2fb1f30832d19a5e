---------------------------- MODULE HranaWsProofs ----------------------------
(***************************************************************************)
(* The session of a WebSocket connection agrees with the tasks of its      *)
(* streams, and the programs of a stream run in the order of its requests, *)
(* for every number of streams, cursors, requests and every queue size.    *)
(*                                                                         *)
(* Both rest on what is queued for a stream (the job its task has, its     *)
(* queue, and the job the connection's task cannot queue yet) being one    *)
(* first-in first-out queue: requests are appended to it as they are       *)
(* received, and the task drops its first element when it answers.         *)
(***************************************************************************)
EXTENDS HranaWs, TLAPS, SequenceTheorems

\* The jobs that are queued, in order, for the task k that has state t.
Jobs == [i : Ids, r : Requests]
QueuedOf(t, s, k) ==
    (IF t.job = NoJob THEN <<>> ELSE <<t.job>>) \o t.queue
    \o (IF s.k = k THEN <<s.job>> ELSE <<>>)

\* The state of a task and the one of the connection's task.
TaskStates ==
    [st : {"none", "idle", "run", "waiting", "ended"}, queue : Seq(Jobs),
     job : Jobs \cup {NoJob}, got : Nat, db : BOOLEAN, hnd : 0..MaxRequests, tx : BOOLEAN]
Sendings == [k : Ids, job : Jobs] \cup {NotSending}

\* A task has a job exactly while it works on one, waits for the connection only with one
\* that runs there, and nothing at all is queued for a task that does not run.
TaskOK(t, s, k) ==
    /\ t \in TaskStates
    /\ t.st \in {"run", "waiting"} <=> t.job # NoJob
    /\ t.st = "waiting" => t.job.r.kind \in OnConnection
    /\ t.st \in {"none", "ended"} => t.queue = <<>> /\ s.k # k /\ t.hnd = 0

-----------------------------------------------------------------------------
(* The order of the programs of a stream. *)

\* q is queued for task k, whose state is st and whose connection has run programs up to
\* number n and has those in box; own gives the streams of the cursors.
\*  - q is in the order of its requests, all of them after what was begun;
\*  - but for the program the task waits for, that is after all that was begun before;
\*  - and so is a program in box that is no cursor's, the task waits for it or has ended.
OrderOK(q, st, box, own, n, k) ==
    /\ \A a, b \in 1..Len(q) : a < b => q[a].i < q[b].i
    /\ \A a \in 1..Len(q) :
        /\ own[q[a].i] = 0 /\ n < q[a].i
        /\ \A x \in Ids : own[x] = k => x < q[a].i
        /\ \A p \in 1..Len(box) :
            box[p] < q[a].i \/ (st = "waiting" /\ a = 1 /\ box[p] = q[1].i)
    /\ \A p \in 1..Len(box) : own[box[p]] = 0 =>
        /\ n < box[p]
        /\ \A x \in Ids : own[x] = k => x < box[p]
        /\ \A o \in 1..Len(box) : o # p => box[o] < box[p]
        /\ (st = "waiting" /\ q # <<>> /\ box[p] = q[1].i) \/ st = "ended"

\* The types of what OrderOK is about.
OrderTypes(q, box, own, n) ==
    q \in Seq(Jobs) /\ box \in Seq(Ids) /\ own \in [Ids -> 0..MaxRequests]
    /\ n \in 0..MaxRequests

-----------------------------------------------------------------------------
(* The invariant. *)

\* Types; every number in use is that of a request that was received.
Numbers ==
    /\ received \in 0..MaxRequests
    /\ task \in [Ids -> TaskStates] /\ sending \in Sendings
    /\ conn \in [Ids -> [th : {"none", "up", "ended"}, inbox : Seq(Ids)]]
    /\ owner \in [Ids -> 0..MaxRequests] /\ ran \in [Ids -> 0..MaxRequests]
    /\ DOMAIN cur = Ids
    /\ \A k \in Ids : TaskOK(task[k], sending, k)
    /\ \A k \in Ids : k > received => task[k] = NoTask
    /\ \A k \in Ids : \A a \in 1..Len(Queued(k)) : Queued(k)[a].i <= received
    /\ \A k \in Ids : \A p \in 1..Len(conn[k].inbox) : conn[k].inbox[p] <= received
    /\ \A i \in Ids : owner[i] # 0 => i <= received
    /\ \A k \in Ids : ran[k] <= received

\* A request is queued for one stream.
Disjoint ==
    \A k, l \in Ids : \A a \in 1..Len(Queued(k)), b \in 1..Len(Queued(l)) :
        Queued(k)[a].i = Queued(l)[b].i => k = l

\* Only requests that opened a cursor have the task of one, and handles are of these.
CursorTasks ==
    /\ \A i \in Ids : owner[i] = 0 => cur[i] = NoCursor
    /\ \A k \in Ids : task[k].hnd # 0 => owner[task[k].hnd] # 0

\* Every stream's programs are in order.
Ordered ==
    \A k \in Ids : OrderOK(Queued(k), task[k].st, conn[k].inbox, owner, ran[k], k)

OInv == Numbers /\ Disjoint /\ CursorTasks /\ Ordered

-----------------------------------------------------------------------------
(* Queues. *)

\* The types of the constants.
LEMMA Constants ==
    MaxRequests \in Nat /\ QUEUE \in Nat /\ Ids = 1..MaxRequests
    BY HranaWsAssumption DEF Ids

\* NoJob is no job.
LEMMA JobOrNone == ASSUME NEW j \in Jobs PROVE j # NoJob /\ j.i \in Ids /\ j.r \in Requests
<1>1. j.i \in Ids /\ NoJob.i = 0 /\ j.r \in Requests
    BY DEF Jobs, NoJob
<1> QED BY <1>1, Constants

\* What is queued are jobs.
LEMMA QueuedType ==
    ASSUME NEW t \in TaskStates, NEW s \in Sendings, NEW k \in Ids
    PROVE  /\ QueuedOf(t, s, k) \in Seq(Jobs)
           /\ s.k # k => QueuedOf(t, s, k) = (IF t.job = NoJob THEN <<>> ELSE <<t.job>>) \o t.queue
           /\ t.job # NoJob => /\ QueuedOf(t, s, k) # <<>> /\ QueuedOf(t, s, k)[1] = t.job
<1> DEFINE A == IF t.job = NoJob THEN <<>> ELSE <<t.job>>
           C == IF s.k = k THEN <<s.job>> ELSE <<>>
           Q == t.queue
<1>1. A \in Seq(Jobs) /\ Q \in Seq(Jobs)
    BY DEF TaskStates
<1>2. C \in Seq(Jobs)
  <2>1. NotSending.k = 0 /\ 0 \notin Ids
      BY Constants DEF NotSending
  <2>2. s.k = k => s.job \in Jobs
      BY <2>1 DEF Sendings
  <2> QED BY <2>2
<1>3. t.job # NoJob => Len(A) = 1 /\ A[1] = t.job
    OBVIOUS
<1>4. s.k # k => C = <<>>
    OBVIOUS
<1>5. QueuedOf(t, s, k) = (A \o Q) \o C
    BY DEF QueuedOf
<1> HIDE DEF A, C, Q
<1>6. A \o Q \in Seq(Jobs) /\ Len(A \o Q) = Len(A) + Len(Q)
    BY <1>1, ConcatProperties
<1>7. (A \o Q) \o C \in Seq(Jobs) /\ Len((A \o Q) \o C) = (Len(A) + Len(Q)) + Len(C)
    BY <1>2, <1>6, ConcatProperties
<1>8. s.k # k => (A \o Q) \o C = A \o Q
    BY <1>4, <1>6, ConcatEmptySeq
<1>9. ASSUME t.job # NoJob PROVE (A \o Q) \o C # <<>> /\ ((A \o Q) \o C)[1] = t.job
  <2>1. Len(A) = 1 /\ Len(Q) \in Nat /\ Len(C) \in Nat
      BY <1>1, <1>2, <1>3, <1>9, LenProperties
  <2>2. (A \o Q)[1] = A[1]
      BY <1>1, <2>1, ConcatProperties
  <2>3. ((A \o Q) \o C)[1] = (A \o Q)[1]
      BY <1>2, <1>6, <2>1, ConcatProperties
  <2> QED BY <1>3, <1>7, <1>9, <2>1, <2>2, <2>3
<1> QED BY <1>5, <1>7, <1>8, <1>9 DEF A, Q

\* A job is appended: to the queue, or it waits to be.
LEMMA QueueAppends ==
    ASSUME NEW t \in TaskStates, NEW k \in Ids, NEW j \in Jobs
    PROVE  /\ \A u : u.job = t.job /\ u.queue = Append(t.queue, j)
                     => QueuedOf(u, NotSending, k) = Append(QueuedOf(t, NotSending, k), j)
           /\ \A s : s.k = k /\ s.job = j
                     => QueuedOf(t, s, k) = Append(QueuedOf(t, NotSending, k), j)
<1> DEFINE A == IF t.job = NoJob THEN <<>> ELSE <<t.job>>
           Q == t.queue
<1>1. A \in Seq(Jobs) /\ Q \in Seq(Jobs) /\ <<j>> \in Seq(Jobs)
    BY DEF TaskStates
<1>2. NotSending.k # k
    BY Constants DEF NotSending
<1>3. \A u : u.job = t.job /\ u.queue = Append(Q, j) =>
        QueuedOf(u, NotSending, k) = (A \o Append(Q, j)) \o <<>>
    BY <1>2 DEF QueuedOf
<1>4. \A s : s.k = k /\ s.job = j => QueuedOf(t, s, k) = (A \o Q) \o <<j>>
    BY DEF QueuedOf
<1>5. QueuedOf(t, NotSending, k) = (A \o Q) \o <<>>
    BY <1>2 DEF QueuedOf
<1> HIDE DEF A, Q
<1>6. A \o Q \in Seq(Jobs) /\ Append(Q, j) \in Seq(Jobs)
    BY <1>1, ConcatProperties, AppendProperties
<1>7. A \o Append(Q, j) \in Seq(Jobs)
    BY <1>1, <1>6, ConcatProperties
<1>8. (A \o Q) \o <<>> = A \o Q /\ (A \o Append(Q, j)) \o <<>> = A \o Append(Q, j)
    BY <1>6, <1>7, ConcatEmptySeq
<1>9. Append(Q, j) = Q \o <<j>> /\ Append(A \o Q, j) = (A \o Q) \o <<j>>
    BY <1>1, <1>6, AppendIsConcat
<1>10. (A \o Q) \o <<j>> = A \o (Q \o <<j>>)
    BY <1>1, ConcatAssociative
<1>11. /\ \A u : u.job = t.job /\ u.queue = Append(Q, j)
                     => QueuedOf(u, NotSending, k) = Append(QueuedOf(t, NotSending, k), j)
       /\ \A s : s.k = k /\ s.job = j
                     => QueuedOf(t, s, k) = Append(QueuedOf(t, NotSending, k), j)
    BY <1>3, <1>4, <1>5, <1>8, <1>9, <1>10
<1> QED BY <1>11 DEF Q

\* The job that waited is put into the queue: nothing changes for the stream.
LEMMA QueueUnblocks ==
    ASSUME NEW t \in TaskStates, NEW k \in Ids, NEW s \in Sendings, s.k = k,
           NEW u, u.job = t.job, u.queue = Append(t.queue, s.job)
    PROVE  QueuedOf(u, NotSending, k) = QueuedOf(t, s, k)
<1>1. s.job \in Jobs
    BY Constants DEF Sendings, NotSending
<1> QED BY <1>1, QueueAppends

\* A job is taken: nothing changes for the stream.
LEMMA QueueTakes ==
    ASSUME NEW t \in TaskStates, t.job = NoJob, t.queue # <<>>,
           NEW u, u.job = Head(t.queue), u.queue = Tail(t.queue), NEW s, NEW k
    PROVE  QueuedOf(u, s, k) = QueuedOf(t, s, k)
<1>1. t.queue \in Seq(Jobs)
    BY DEF TaskStates
<1>2. Head(t.queue) \in Jobs
    BY <1>1, HeadTailProperties
<1>3. u.job # NoJob
    BY <1>2, JobOrNone
<1>4. <<Head(t.queue)>> \o Tail(t.queue) = t.queue
    BY <1>1
<1>5. <<>> \o t.queue = t.queue
    BY <1>1, ConcatEmptySeq
<1> QED BY <1>3, <1>4, <1>5 DEF QueuedOf

\* A job is done: it was the first.
LEMMA QueueFinishes ==
    ASSUME NEW t \in TaskStates, t.job # NoJob, NEW s \in Sendings, NEW k \in Ids,
           NEW u, u.job = NoJob, u.queue = t.queue
    PROVE  /\ QueuedOf(t, s, k) # <<>> /\ QueuedOf(t, s, k)[1] = t.job
           /\ QueuedOf(u, s, k) = Tail(QueuedOf(t, s, k))
<1> DEFINE C == IF s.k = k THEN <<s.job>> ELSE <<>>
           Q == t.queue
           j == t.job
<1>1. Q \in Seq(Jobs) /\ j \in Jobs /\ <<j>> \in Seq(Jobs)
    BY DEF TaskStates
<1>2. C \in Seq(Jobs)
  <2>1. NotSending.k = 0 /\ 0 \notin Ids
      BY Constants DEF NotSending
  <2>2. s.k = k => s.job \in Jobs
      BY <2>1 DEF Sendings
  <2> QED BY <2>2
<1>3. QueuedOf(t, s, k) = (<<j>> \o Q) \o C /\ QueuedOf(u, s, k) = (<<>> \o Q) \o C
    BY DEF QueuedOf
<1> HIDE DEF C, Q, j
<1>4. <<>> \o Q = Q /\ Q \o C \in Seq(Jobs)
    BY <1>1, <1>2, ConcatEmptySeq, ConcatProperties
<1>5. (<<j>> \o Q) \o C = <<j>> \o (Q \o C)
    BY <1>1, <1>2, ConcatAssociative
<1>6. Tail(<<j>> \o (Q \o C)) = Q \o C
    BY <1>1, <1>4
<1> QED BY <1>3, <1>4, <1>5, <1>6, QueuedType DEF Q, C, j

-----------------------------------------------------------------------------
(* The order of programs, step by step. *)

\* The larger of two numbers.
LEMMA LargerOf ==
    ASSUME NEW a \in Int, NEW b \in Int
    PROVE  Max({a, b}) = IF a >= b THEN a ELSE b
<1>1. \A x \in {a, b} : (\A y \in {a, b} : x >= y) => x = IF a >= b THEN a ELSE b
    OBVIOUS
<1>2. \E x \in {a, b} : \A y \in {a, b} : x >= y
    OBVIOUS
<1>3. Max({a, b}) \in {a, b} /\ \A y \in {a, b} : Max({a, b}) >= y
    BY <1>2, Zenon DEF Max
<1> QED BY <1>1, <1>3, Zenon

\* The elements of a queue and of a box.
LEMMA OrderElements ==
    ASSUME NEW q, NEW box, NEW own, NEW n, OrderTypes(q, box, own, n)
    PROVE  /\ Len(q) \in Nat /\ Len(box) \in Nat /\ n \in Int
           /\ q # <<>> => 1 \in 1..Len(q)
           /\ box # <<>> => 1 \in 1..Len(box)
           /\ \A a \in 1..Len(q) : q[a] \in Jobs /\ q[a].i \in Ids /\ q[a].i \in Int
           /\ \A p \in 1..Len(box) : box[p] \in Ids /\ box[p] \in Int
           /\ \A x \in Ids : x \in Int /\ x # 0
<1>1. q \in Seq(Jobs) /\ box \in Seq(Ids) /\ n \in Int
    BY DEF OrderTypes
<1>2. Len(q) \in Nat /\ Len(box) \in Nat
    BY <1>1, LenProperties
<1>3. q # <<>> => 1 \in 1..Len(q)
    BY <1>1, <1>2, EmptySeq
<1>4. box # <<>> => 1 \in 1..Len(box)
    BY <1>1, <1>2, EmptySeq
<1>5. \A x \in Ids : x \in Int /\ x # 0
    BY Constants
<1>6. ASSUME NEW a \in 1..Len(q) PROVE q[a] \in Jobs /\ q[a].i \in Ids
    BY <1>1, ElementOfSeq, JobOrNone
<1>7. ASSUME NEW p \in 1..Len(box) PROVE box[p] \in Ids
    BY <1>1, ElementOfSeq
<1> QED BY <1>1, <1>2, <1>3, <1>4, <1>5, <1>6, <1>7

\* A request is appended that is later than everything.
LEMMA OrderAppend ==
    ASSUME NEW q, NEW st, NEW box, NEW own, NEW n, NEW k,
           OrderTypes(q, box, own, n), OrderOK(q, st, box, own, n, k),
           NEW j \in Jobs, own[j.i] = 0, n < j.i,
           \A a \in 1..Len(q) : q[a].i < j.i, \A p \in 1..Len(box) : box[p] < j.i,
           \A x \in Ids : own[x] = k => x < j.i,
           NEW st2, st2 = st \/ st \notin {"waiting", "ended"}
    PROVE  OrderOK(Append(q, j), st2, box, own, n, k)
<1> DEFINE r == Append(q, j)
<1>1. q \in Seq(Jobs)
    BY DEF OrderTypes
<1>2. /\ Len(r) = Len(q) + 1 /\ r # <<>> /\ Len(q) \in Nat
      /\ \A a \in 1..Len(q) : r[a] = q[a]
      /\ r[Len(q) + 1] = j
    BY <1>1, AppendProperties, LenProperties
<1> HIDE DEF r
<1>3. ASSUME NEW a \in 1..Len(r)
      PROVE  (a \in 1..Len(q) /\ r[a] = q[a]) \/ (a = Len(q) + 1 /\ r[a] = j)
    BY <1>2
<1>4. q # <<>> => r[1] = q[1]
    BY <1>2, OrderElements
<1>5. ASSUME NEW a \in 1..Len(r), NEW b \in 1..Len(r), a < b PROVE r[a].i < r[b].i
  <2>1. a \in 1..Len(q) /\ r[a] = q[a]
      BY <1>2, <1>3, <1>5
  <2>2. CASE b \in 1..Len(q) /\ r[b] = q[b]
      BY <1>5, <2>1, <2>2 DEF OrderOK
  <2>3. CASE b = Len(q) + 1 /\ r[b] = j
      BY <2>1, <2>3
  <2> QED BY <1>3, <2>2, <2>3
<1>6. ASSUME NEW a \in 1..Len(r)
      PROVE  /\ own[r[a].i] = 0 /\ n < r[a].i
             /\ \A x \in Ids : own[x] = k => x < r[a].i
             /\ \A p \in 1..Len(box) :
                  box[p] < r[a].i \/ (st2 = "waiting" /\ a = 1 /\ box[p] = r[1].i)
  <2>1. CASE a \in 1..Len(q) /\ r[a] = q[a]
    <3>1. q # <<>> /\ r[1] = q[1]
        BY <1>4, <2>1
    <3> QED BY <2>1, <3>1 DEF OrderOK
  <2>2. CASE a = Len(q) + 1 /\ r[a] = j
      BY <2>2
  <2> QED BY <1>3, <2>1, <2>2
<1>7. ASSUME NEW p \in 1..Len(box), own[box[p]] = 0
      PROVE  /\ n < box[p]
             /\ \A x \in Ids : own[x] = k => x < box[p]
             /\ \A o \in 1..Len(box) : o # p => box[o] < box[p]
             /\ (st2 = "waiting" /\ r # <<>> /\ box[p] = r[1].i) \/ st2 = "ended"
    BY <1>2, <1>4, <1>7 DEF OrderOK
<1>8. OrderOK(r, st2, box, own, n, k)
    BY <1>5, <1>6, <1>7 DEF OrderOK
<1> QED BY <1>8 DEF r

\* The elements of the rest of a queue or a box.
LEMMA TailElements ==
    ASSUME NEW S, NEW q \in Seq(S), q # <<>>
    PROVE  /\ Tail(q) \in Seq(S) /\ Len(Tail(q)) \in Nat
           /\ \A a \in 1..Len(Tail(q)) : a + 1 \in 1..Len(q) /\ Tail(q)[a] = q[a + 1]
<1>1. /\ Tail(q) \in Seq(S) /\ Len(Tail(q)) = Len(q) - 1
      /\ \A a \in 1..Len(Tail(q)) : Tail(q)[a] = q[a + 1]
    BY HeadTailProperties
<1>2. Len(q) \in Nat \ {0}
    BY EmptySeq
<1> QED BY <1>1, <1>2

\* The task that is not waiting takes a job, or is done with one.
LEMMA OrderTake ==
    ASSUME NEW q, NEW box, NEW own, NEW n, NEW k, OrderOK(q, "idle", box, own, n, k)
    PROVE  OrderOK(q, "run", box, own, n, k)
    BY DEF OrderOK

\* The task is done with its first job.
LEMMA OrderFinish ==
    ASSUME NEW q, NEW box, NEW own, NEW n, NEW k, q # <<>>,
           OrderTypes(q, box, own, n), OrderOK(q, "run", box, own, n, k)
    PROVE  OrderOK(Tail(q), "idle", box, own, n, k)
<1> DEFINE r == Tail(q)
<1>1. \A a \in 1..Len(r) : a + 1 \in 1..Len(q) /\ r[a] = q[a + 1]
    BY TailElements DEF OrderTypes
<1> HIDE DEF r
<1>2. ASSUME NEW a \in 1..Len(r), NEW b \in 1..Len(r), a < b PROVE r[a].i < r[b].i
  <2>1. a + 1 < b + 1
      BY <1>2
  <2> QED BY <1>1, <2>1 DEF OrderOK
<1>3. OrderOK(r, "idle", box, own, n, k)
    BY <1>1, <1>2 DEF OrderOK
<1> QED BY <1>3 DEF r

\* The task is done with a request that opened a cursor.
LEMMA OrderOpen ==
    ASSUME NEW q, NEW box, NEW own, NEW n, NEW k \in Ids, q # <<>>,
           OrderTypes(q, box, own, n), OrderOK(q, "run", box, own, n, k),
           NEW own2, own2 = [own EXCEPT ![q[1].i] = k]
    PROVE  OrderOK(Tail(q), "idle", box, own2, n, k)
<1> DEFINE r == Tail(q)
<1>1. \A a \in 1..Len(r) : a + 1 \in 1..Len(q) /\ r[a] = q[a + 1]
    BY TailElements DEF OrderTypes
<1> HIDE DEF r
<1>2. ASSUME NEW a \in 1..Len(r), NEW b \in 1..Len(r), a < b PROVE r[a].i < r[b].i
  <2>1. a + 1 < b + 1
      BY <1>2
  <2> QED BY <1>1, <2>1 DEF OrderOK
<1>3. 1 \in 1..Len(q) /\ q[1].i \in Ids /\ k # 0
    BY OrderElements
<1>4. \A x \in Ids : own2[x] = IF x = q[1].i THEN k ELSE own[x]
    BY <1>3 DEF OrderTypes
<1>5. ASSUME NEW a \in 1..Len(r)
      PROVE  /\ own2[r[a].i] = 0 /\ n < r[a].i
             /\ \A x \in Ids : own2[x] = k => x < r[a].i
             /\ \A p \in 1..Len(box) : box[p] < r[a].i
  <2>1. a + 1 \in 1..Len(q) /\ r[a] = q[a + 1] /\ 1 < a + 1 /\ a + 1 # 1
      BY <1>1
  <2>2. q[1].i < q[a + 1].i
      BY <1>3, <2>1 DEF OrderOK
  <2>3. q[a + 1].i \in Ids /\ q[a + 1].i # q[1].i
      BY <1>3, <2>1, <2>2, OrderElements
  <2> QED BY <1>4, <2>1, <2>2, <2>3 DEF OrderOK
<1>6. ASSUME NEW p \in 1..Len(box) PROVE own2[box[p]] # 0
  <2>1. own[box[p]] # 0
      BY DEF OrderOK
  <2> QED BY <1>3, <1>4, <2>1, OrderElements
<1>7. OrderOK(r, "idle", box, own2, n, k)
    BY <1>2, <1>5, <1>6 DEF OrderOK
<1> QED BY <1>7 DEF r

\* ... and what that is for the other streams.
LEMMA OrderOpenElsewhere ==
    ASSUME NEW q, NEW st, NEW box, NEW own, NEW n, NEW l, NEW k \in Ids, l # k,
           OrderTypes(q, box, own, n), OrderOK(q, st, box, own, n, l),
           NEW x \in Ids, \A a \in 1..Len(q) : q[a].i # x,
           NEW own2, own2 = [own EXCEPT ![x] = k]
    PROVE  OrderOK(q, st, box, own2, n, l)
<1>1. /\ \A y \in Ids : own2[y] = IF y = x THEN k ELSE own[y]
      /\ k # 0
    BY OrderElements DEF OrderTypes
<1>2. \A a \in 1..Len(q) : q[a].i \in Ids
    BY OrderElements
<1>3. \A p \in 1..Len(box) : box[p] \in Ids /\ (own2[box[p]] = 0 => own[box[p]] = 0)
    BY <1>1, OrderElements
<1>4. \A y \in Ids : own2[y] = l => own[y] = l
    BY <1>1
<1> QED BY <1>1, <1>2, <1>3, <1>4 DEF OrderOK

\* The program of a request is sent, and the task waits for it.
LEMMA OrderSend ==
    ASSUME NEW q, NEW box, NEW own, NEW n, NEW k, q # <<>>,
           OrderTypes(q, box, own, n), OrderOK(q, "run", box, own, n, k)
    PROVE  OrderOK(q, "waiting", Append(box, q[1].i), own, n, k)
<1> DEFINE c == q[1].i
           b2 == Append(box, c)
<1>1. 1 \in 1..Len(q) /\ c \in Ids /\ c \in Int /\ Len(box) \in Nat /\ box \in Seq(Ids)
    BY OrderElements DEF OrderTypes
<1>2. /\ Len(b2) = Len(box) + 1
      /\ \A p \in 1..Len(box) : b2[p] = box[p]
      /\ b2[Len(box) + 1] = c
    BY <1>1, AppendProperties
<1>3. /\ own[c] = 0 /\ n < c
      /\ \A x \in Ids : own[x] = k => x < c
      /\ \A p \in 1..Len(box) : box[p] < c /\ own[box[p]] # 0
    BY <1>1 DEF OrderOK
<1>4. ASSUME NEW a \in 1..Len(q), a # 1 PROVE c < q[a].i
  <2>1. 1 < a
      BY <1>4, OrderElements
  <2> QED BY <1>1, <2>1 DEF OrderOK
<1> HIDE DEF b2
<1>5. ASSUME NEW p \in 1..Len(b2)
      PROVE  (p \in 1..Len(box) /\ b2[p] = box[p]) \/ (p = Len(box) + 1 /\ b2[p] = c)
    BY <1>1, <1>2
<1>6. ASSUME NEW a \in 1..Len(q)
      PROVE  /\ own[q[a].i] = 0 /\ n < q[a].i
             /\ \A x \in Ids : own[x] = k => x < q[a].i
             /\ \A p \in 1..Len(b2) : b2[p] < q[a].i \/ (a = 1 /\ b2[p] = c)
  <2>1. ASSUME NEW p \in 1..Len(b2) PROVE b2[p] < q[a].i \/ (a = 1 /\ b2[p] = c)
    <3>1. CASE p \in 1..Len(box) /\ b2[p] = box[p]
        BY <3>1 DEF OrderOK
    <3>2. CASE b2[p] = c
        BY <1>4, <3>2
    <3> QED BY <1>5, <3>1, <3>2
  <2> QED BY <2>1 DEF OrderOK
<1>7. ASSUME NEW p \in 1..Len(b2), own[b2[p]] = 0
      PROVE  /\ n < b2[p]
             /\ \A x \in Ids : own[x] = k => x < b2[p]
             /\ \A o \in 1..Len(b2) : o # p => b2[o] < b2[p]
             /\ b2[p] = c
  <2>1. p = Len(box) + 1 /\ b2[p] = c
      BY <1>3, <1>5, <1>7
  <2>2. \A o \in 1..Len(b2) : o # p => b2[o] < c
      BY <1>3, <1>5, <2>1
  <2> QED BY <1>3, <2>1, <2>2
<1>8. \A a, b \in 1..Len(q) : a < b => q[a].i < q[b].i
    BY DEF OrderOK
<1>9. OrderOK(q, "waiting", b2, own, n, k)
    BY <1>6, <1>7, <1>8 DEF OrderOK
<1> QED BY <1>9 DEF b2

\* The connection has run the program that the task waits for.
LEMMA OrderRun ==
    ASSUME NEW q, NEW box, NEW own, NEW n, NEW k, box # <<>>, q # <<>>,
           OrderTypes(q, box, own, n), OrderOK(q, "waiting", box, own, n, k),
           own[box[1]] = 0, NEW m, m = Max({n, box[1]})
    PROVE  OrderOK(Tail(q), "idle", Tail(box), own, m, k)
<1> DEFINE c == q[1].i
           r == Tail(q)
           b2 == Tail(box)
<1>1. 1 \in 1..Len(q) /\ 1 \in 1..Len(box) /\ c \in Int /\ n \in Int
    BY OrderElements
<1>2. /\ box[1] = c /\ n < c
      /\ \A o \in 1..Len(box) : o # 1 => box[o] < c
    BY <1>1 DEF OrderOK
<1>3. m = c
    BY <1>1, <1>2, LargerOf
<1>4. \A a \in 1..Len(r) : a + 1 \in 1..Len(q) /\ r[a] = q[a + 1]
    BY TailElements DEF OrderTypes
<1>5. \A p \in 1..Len(b2) : p + 1 \in 1..Len(box) /\ b2[p] = box[p + 1]
    BY TailElements DEF OrderTypes
<1> HIDE DEF r, b2
<1>6. ASSUME NEW a \in 1..Len(r), NEW b \in 1..Len(r), a < b PROVE r[a].i < r[b].i
  <2>1. a + 1 < b + 1
      BY <1>6
  <2> QED BY <1>4, <2>1 DEF OrderOK
<1>7. ASSUME NEW p \in 1..Len(b2) PROVE own[b2[p]] # 0
  <2>1. p + 1 # 1
      OBVIOUS
  <2>2. box[p + 1] < c /\ box[p + 1] \in Int
      BY <1>2, <1>5, <2>1, OrderElements
  <2>3. own[box[p + 1]] # 0
    <3>1. own[box[p + 1]] = 0 => box[p + 1] = c
        BY <1>5 DEF OrderOK
    <3> QED BY <1>1, <2>2, <3>1
  <2> QED BY <1>5, <2>3
<1>8. ASSUME NEW a \in 1..Len(r)
      PROVE  /\ own[r[a].i] = 0 /\ m < r[a].i
             /\ \A x \in Ids : own[x] = k => x < r[a].i
             /\ \A p \in 1..Len(b2) : b2[p] < r[a].i
  <2>1. a + 1 \in 1..Len(q) /\ r[a] = q[a + 1] /\ 1 < a + 1 /\ a + 1 # 1
      BY <1>4
  <2>2. c < q[a + 1].i
      BY <1>1, <2>1 DEF OrderOK
  <2>3. \A p \in 1..Len(box) : box[p] < q[a + 1].i
      BY <2>1 DEF OrderOK
  <2> QED BY <1>3, <1>5, <2>1, <2>2, <2>3 DEF OrderOK
<1>9. OrderOK(r, "idle", b2, own, m, k)
    BY <1>6, <1>7, <1>8 DEF OrderOK
<1> QED BY <1>9 DEF r, b2

\* The connection has run the program of a cursor, which is before all that is queued.
LEMMA OrderRunCursor ==
    ASSUME NEW q, NEW st, NEW box, NEW own, NEW n, NEW k, box # <<>>,
           OrderTypes(q, box, own, n), OrderOK(q, st, box, own, n, k),
           own[box[1]] # 0, NEW m, m = Max({n, box[1]})
    PROVE  /\ OrderOK(q, st, Tail(box), own, m, k)
           /\ OrderOK(q, st, <<>>, own, m, k)
<1> DEFINE c == box[1]
           b2 == Tail(box)
<1>1. 1 \in 1..Len(box) /\ c \in Int /\ n \in Int /\ Len(<<>>) = 0
    BY OrderElements
<1>2. m = n \/ m = c
    BY <1>1, LargerOf
<1>3. \A p \in 1..Len(b2) : p + 1 \in 1..Len(box) /\ b2[p] = box[p + 1]
    BY TailElements DEF OrderTypes
<1> HIDE DEF b2
<1>4. ASSUME NEW a \in 1..Len(q) PROVE m < q[a].i
  <2>1. n < q[a].i
      BY DEF OrderOK
  <2>2. c < q[a].i
    <3>1. c < q[a].i \/ c = q[a].i
        BY <1>1 DEF OrderOK
    <3>2. own[q[a].i] = 0
        BY DEF OrderOK
    <3> QED BY <3>1, <3>2
  <2> QED BY <1>2, <2>1, <2>2
<1>5. ASSUME NEW p \in 1..Len(b2), own[b2[p]] = 0
      PROVE  /\ m < b2[p]
             /\ \A x \in Ids : own[x] = k => x < b2[p]
             /\ \A o \in 1..Len(b2) : o # p => b2[o] < b2[p]
             /\ (st = "waiting" /\ q # <<>> /\ b2[p] = q[1].i) \/ st = "ended"
  <2>1. p + 1 \in 1..Len(box) /\ b2[p] = box[p + 1] /\ p + 1 # 1
      BY <1>3
  <2>2. n < b2[p] /\ c < b2[p]
      BY <1>1, <1>5, <2>1 DEF OrderOK
  <2>3. ASSUME NEW o \in 1..Len(b2), o # p PROVE b2[o] < b2[p]
    <3>1. o + 1 # p + 1
        BY <2>3
    <3> QED BY <1>3, <1>5, <2>1, <3>1 DEF OrderOK
  <2> QED BY <1>2, <1>5, <2>1, <2>2, <2>3 DEF OrderOK
<1>6. OrderOK(q, st, b2, own, m, k)
  <2>1. ASSUME NEW a \in 1..Len(q), NEW p \in 1..Len(b2)
        PROVE  b2[p] < q[a].i \/ (st = "waiting" /\ a = 1 /\ b2[p] = q[1].i)
      BY <1>3 DEF OrderOK
  <2>2. /\ \A a, b \in 1..Len(q) : a < b => q[a].i < q[b].i
        /\ \A a \in 1..Len(q) : own[q[a].i] = 0 /\ \A x \in Ids : own[x] = k => x < q[a].i
      BY DEF OrderOK
  <2> QED BY <2>1, <2>2, <1>4, <1>5 DEF OrderOK
<1>7. OrderOK(q, st, <<>>, own, m, k)
  <2>1. \A p \in 1..Len(<<>>) : FALSE
      OBVIOUS
  <2>2. \A a \in 1..Len(q) : own[q[a].i] = 0 /\ \A x \in Ids : own[x] = k => x < q[a].i
      BY DEF OrderOK
  <2>3. \A a, b \in 1..Len(q) : a < b => q[a].i < q[b].i
      BY DEF OrderOK
  <2> QED BY <1>4, <2>1, <2>2, <2>3 DEF OrderOK
<1> QED BY <1>6, <1>7 DEF b2

\* The program of a cursor is sent.
LEMMA OrderSendCursor ==
    ASSUME NEW q, NEW st, NEW box, NEW own, NEW n, NEW k,
           OrderTypes(q, box, own, n), OrderOK(q, st, box, own, n, k),
           NEW i \in Ids, own[i] = k, k # 0
    PROVE  OrderOK(q, st, Append(box, i), own, n, k)
<1> DEFINE b2 == Append(box, i)
<1>1. Len(box) \in Nat /\ box \in Seq(Ids)
    BY OrderElements DEF OrderTypes
<1>2. /\ Len(b2) = Len(box) + 1
      /\ \A p \in 1..Len(box) : b2[p] = box[p]
      /\ b2[Len(box) + 1] = i
    BY <1>1, AppendProperties
<1> HIDE DEF b2
<1>3. ASSUME NEW p \in 1..Len(b2)
      PROVE  (p \in 1..Len(box) /\ b2[p] = box[p]) \/ (p = Len(box) + 1 /\ b2[p] = i)
    BY <1>1, <1>2
<1>4. ASSUME NEW a \in 1..Len(q), NEW p \in 1..Len(b2)
      PROVE  b2[p] < q[a].i \/ (st = "waiting" /\ a = 1 /\ b2[p] = q[1].i)
    BY <1>3 DEF OrderOK
<1>5. ASSUME NEW p \in 1..Len(b2), own[b2[p]] = 0
      PROVE  /\ n < b2[p]
             /\ \A x \in Ids : own[x] = k => x < b2[p]
             /\ \A o \in 1..Len(b2) : o # p => b2[o] < b2[p]
             /\ (st = "waiting" /\ q # <<>> /\ b2[p] = q[1].i) \/ st = "ended"
  <2>1. p \in 1..Len(box) /\ b2[p] = box[p]
      BY <1>3, <1>5
  <2>2. i < b2[p]
      BY <1>5, <2>1 DEF OrderOK
  <2>3. ASSUME NEW o \in 1..Len(b2), o # p PROVE b2[o] < b2[p]
      BY <1>3, <1>5, <2>1, <2>2, <2>3 DEF OrderOK
  <2> QED BY <1>5, <2>1, <2>3 DEF OrderOK
<1>6. OrderOK(q, st, b2, own, n, k)
    BY <1>4, <1>5 DEF OrderOK
<1> QED BY <1>6 DEF b2

\* The task of a stream ends, whatever was queued for it; and its connection dies.
LEMMA OrderStop ==
    ASSUME NEW q, NEW st, NEW box, NEW own, NEW n, NEW k,
           OrderTypes(q, box, own, n), OrderOK(q, st, box, own, n, k)
    PROVE  /\ OrderOK(<<>>, "ended", box, own, n, k)
           /\ st = "none" => OrderOK(<<>>, "none", box, own, n, k)
           /\ q = <<>> => \A m : OrderOK(q, st, <<>>, own, m, k)
<1>1. Len(<<>>) = 0
    OBVIOUS
<1>2. \A p \in 1..Len(box) : own[box[p]] = 0 =>
        /\ n < box[p]
        /\ \A x \in Ids : own[x] = k => x < box[p]
        /\ \A o \in 1..Len(box) : o # p => box[o] < box[p]
        /\ st \in {"waiting", "ended"}
    BY DEF OrderOK
<1>3. OrderOK(<<>>, "ended", box, own, n, k)
    BY <1>1, <1>2 DEF OrderOK
<1>4. st = "none" => OrderOK(<<>>, "none", box, own, n, k)
    BY <1>1, <1>2 DEF OrderOK
<1>5. q = <<>> => \A m : OrderOK(q, st, <<>>, own, m, k)
    BY <1>1 DEF OrderOK
<1> QED BY <1>3, <1>4, <1>5

-----------------------------------------------------------------------------
(* Steps that change the queue, the task or the connection of one stream. *)

Conns == [th : {"none", "up", "ended"}, inbox : Seq(Ids)]

\* Only stream k is changed, as far as the order of requests is concerned, and no cursor
\* is opened on it.
Apart(k) ==
    /\ received' \in received..MaxRequests /\ owner' = owner
    /\ task' \in [Ids -> TaskStates] /\ sending' \in Sendings
    /\ conn' \in [Ids -> Conns] /\ ran' \in [Ids -> 0..MaxRequests] /\ DOMAIN cur' = Ids
    /\ \A l \in Ids : l # k =>
        /\ task'[l] = task[l] /\ conn'[l].inbox = conn[l].inbox /\ ran'[l] = ran[l]
        /\ sending.k = l \/ sending'.k = l => sending' = sending

\* What is queued for stream k after the step q is: requests that were queued, and the one
\* that has been received.
TaskStep(k, q) ==
    /\ TaskOK(task'[k], sending', k) /\ (k <= received' \/ task'[k] = NoTask)
    /\ q = QueuedOf(task'[k], sending', k)
    /\ \A a \in 1..Len(q) :
        (q[a].i = received' /\ received < received') \/ \E b \in 1..Len(Queued(k)) : q[a].i = Queued(k)[b].i
    /\ \A p \in 1..Len(conn'[k].inbox) : conn'[k].inbox[p] <= received'
    /\ ran'[k] <= received'
    /\ \A i \in Ids : owner[i] = 0 => cur'[i] = NoCursor
    /\ task'[k].hnd # 0 => owner[task'[k].hnd] # 0
    /\ OrderOK(q, task'[k].st, conn'[k].inbox, owner, ran'[k], k)

\* What OInv says of one stream.
LEMMA StreamFacts ==
    ASSUME OInv, NEW k \in Ids
    PROVE  /\ Queued(k) = QueuedOf(task[k], sending, k)
           /\ Queued(k) \in Seq(Jobs) /\ task[k] \in TaskStates /\ sending \in Sendings
           /\ TaskOK(task[k], sending, k)
           /\ OrderTypes(Queued(k), conn[k].inbox, owner, ran[k])
           /\ OrderOK(Queued(k), task[k].st, conn[k].inbox, owner, ran[k], k)
           /\ k \in Nat /\ k # 0
<1>1. Queued(k) = QueuedOf(task[k], sending, k)
    BY DEF Queued, QueuedOf
<1>2. task[k] \in TaskStates /\ sending \in Sendings /\ TaskOK(task[k], sending, k)
    BY DEF OInv, Numbers
<1>3. Queued(k) \in Seq(Jobs)
    BY <1>1, <1>2, QueuedType
<1>4. OrderTypes(Queued(k), conn[k].inbox, owner, ran[k])
    BY <1>3 DEF OrderTypes, OInv, Numbers
<1> QED BY <1>1, <1>2, <1>3, <1>4, Constants DEF OInv, Ordered

\* What is queued for the other streams stays.
LEMMA OtherQueues ==
    ASSUME OInv, NEW k \in Ids, Apart(k), NEW l \in Ids, l # k
    PROVE  Queued(l)' = Queued(l)
<1>1. task'[l] = task[l] /\ (sending.k = l \/ sending'.k = l => sending' = sending)
    BY DEF Apart
<1>2. (sending'.k = l <=> sending.k = l) /\ (sending.k = l => sending'.job = sending.job)
    BY <1>1
<1> QED BY <1>1, <1>2 DEF Queued

\* Such a step keeps the invariant.
LEMMA OneTask ==
    ASSUME OInv, NEW k \in Ids, NEW q, Apart(k), TaskStep(k, q)
    PROVE  OInv' /\ Queued(k)' = q
<1>1. Queued(k)' = q
    BY DEF Queued, QueuedOf, TaskStep
<1>2. \A l \in Ids : l # k => Queued(l)' = Queued(l)
    BY OtherQueues
<1>3. received \in Nat /\ received' \in Nat /\ received <= received' /\ MaxRequests \in Nat
      /\ \A x \in Ids : x \in Nat
    BY Constants DEF Apart, OInv, Numbers
<1>4. \A l \in Ids : \A a \in 1..Len(Queued(l)) : Queued(l)[a].i \in Nat /\ Queued(l)[a].i <= received
  <2>1. ASSUME NEW l \in Ids, NEW a \in 1..Len(Queued(l)) PROVE Queued(l)[a].i \in Nat
      BY <1>3, StreamFacts, OrderElements
  <2> QED BY <2>1 DEF OInv, Numbers
<1>5. Numbers'
  <2>1. \A l \in Ids : TaskOK(task'[l], sending', l)
    <3>1. ASSUME NEW l \in Ids, l # k PROVE TaskOK(task'[l], sending', l)
        BY <3>1 DEF Apart, OInv, Numbers, TaskOK
    <3> QED BY <3>1 DEF TaskStep
  <2>2. \A l \in Ids : l > received' => task'[l] = NoTask
    <3>1. ASSUME NEW l \in Ids, l > received' PROVE task'[l] = NoTask
      <4>1. l > received
          BY <1>3, <3>1
      <4>2. CASE l = k
          BY <1>3, <3>1, <4>2 DEF TaskStep
      <4>3. CASE l # k
          BY <4>1, <4>3 DEF Apart, OInv, Numbers
      <4> QED BY <4>2, <4>3
    <3> QED BY <3>1
  <2>3. ASSUME NEW l \in Ids, NEW a \in 1..Len(Queued(l)') PROVE Queued(l)'[a].i <= received'
    <3>1. CASE l = k
        BY <1>1, <1>3, <1>4, <2>3, <3>1 DEF TaskStep
    <3>2. CASE l # k
        BY <1>2, <1>3, <1>4, <2>3, <3>2
    <3> QED BY <3>1, <3>2
  <2>4. ASSUME NEW l \in Ids, NEW p \in 1..Len(conn'[l].inbox) PROVE conn'[l].inbox[p] <= received'
    <3>1. CASE l = k
        BY <2>4, <3>1 DEF TaskStep
    <3>2. CASE l # k
      <4>1. conn'[l].inbox = conn[l].inbox /\ conn[l].inbox[p] <= received
          BY <2>4, <3>2 DEF Apart, OInv, Numbers
      <4>2. conn[l].inbox[p] \in Nat
          BY <1>3, <2>4, <4>1, StreamFacts, OrderElements
      <4> QED BY <1>3, <4>1, <4>2
    <3> QED BY <3>1, <3>2
  <2>5. ASSUME NEW i \in Ids, owner'[i] # 0 PROVE i <= received'
    <3>1. i <= received
        BY <2>5 DEF Apart, OInv, Numbers
    <3> QED BY <1>3, <3>1
  <2>6. ASSUME NEW l \in Ids PROVE ran'[l] <= received'
    <3>1. CASE l = k
        BY <3>1 DEF TaskStep
    <3>2. CASE l # k
      <4>1. ran'[l] = ran[l] /\ ran[l] <= received /\ ran[l] \in Nat
          BY <1>3, <3>2 DEF Apart, OInv, Numbers
      <4> QED BY <1>3, <4>1
    <3> QED BY <3>1, <3>2
  <2>7. /\ received' \in 0..MaxRequests /\ owner' \in [Ids -> 0..MaxRequests]
        /\ task' \in [Ids -> TaskStates] /\ sending' \in Sendings
        /\ conn' \in [Ids -> [th : {"none", "up", "ended"}, inbox : Seq(Ids)]]
        /\ ran' \in [Ids -> 0..MaxRequests] /\ DOMAIN cur' = Ids
      BY <1>3 DEF Apart, OInv, Numbers, Conns
  <2> QED BY <2>1, <2>2, <2>3, <2>4, <2>5, <2>6, <2>7 DEF Numbers
<1>6. Disjoint'
  <2>1. ASSUME NEW l \in Ids, NEW a \in 1..Len(Queued(l)')
        PROVE  \/ l = k /\ Queued(l)'[a].i > received
               \/ \E b \in 1..Len(Queued(l)) : Queued(l)'[a].i = Queued(l)[b].i
    <3>1. CASE l = k
        BY <1>1, <1>3, <2>1, <3>1 DEF TaskStep
    <3>2. CASE l # k
        BY <1>2, <2>1, <3>2
    <3> QED BY <3>1, <3>2
  <2>2. ASSUME NEW l \in Ids, NEW m \in Ids, NEW a \in 1..Len(Queued(l)'), NEW b \in 1..Len(Queued(m)'),
               Queued(l)'[a].i = Queued(m)'[b].i
        PROVE  l = m
    <3>1. CASE /\ \E c \in 1..Len(Queued(l)) : Queued(l)'[a].i = Queued(l)[c].i
               /\ \E c \in 1..Len(Queued(m)) : Queued(m)'[b].i = Queued(m)[c].i
        BY <2>2, <3>1 DEF OInv, Disjoint
    <3>2. CASE l = k /\ Queued(l)'[a].i > received
        BY <1>3, <1>4, <2>1, <2>2, <3>2
    <3>3. CASE m = k /\ Queued(m)'[b].i > received
      <4>1. ASSUME NEW c \in 1..Len(Queued(l)), Queued(l)'[a].i = Queued(l)[c].i PROVE FALSE
        <5>1. Queued(l)[c].i \in Nat /\ Queued(l)[c].i <= received
            BY <1>4
        <5> QED BY <1>3, <2>2, <3>3, <4>1, <5>1
      <4> QED BY <2>1, <2>2, <3>3, <4>1
    <3> QED BY <2>1, <2>2, <3>1, <3>2, <3>3
  <2> QED BY <2>2 DEF Disjoint
<1>7. CursorTasks'
  <2>1. \A l \in Ids : task'[l].hnd # 0 => owner'[task'[l].hnd] # 0
    <3>1. ASSUME NEW l \in Ids, l # k, task'[l].hnd # 0 PROVE owner'[task'[l].hnd] # 0
        BY <3>1 DEF Apart, OInv, CursorTasks
    <3> QED BY <3>1 DEF TaskStep, Apart
  <2> QED BY <2>1 DEF CursorTasks, TaskStep, Apart
<1>8. Ordered'
  <2>1. ASSUME NEW l \in Ids
        PROVE  OrderOK(Queued(l)', task'[l].st, conn'[l].inbox, owner', ran'[l], l)
    <3>1. CASE l = k
        BY <1>1, <3>1 DEF TaskStep, Apart
    <3>2. CASE l # k
      <4>1. /\ task'[l].st = task[l].st /\ conn'[l].inbox = conn[l].inbox /\ ran'[l] = ran[l]
            /\ owner' = owner /\ Queued(l)' = Queued(l)
          BY <1>2, <3>2 DEF Apart
      <4> QED BY <4>1, StreamFacts
    <3> QED BY <3>1, <3>2
  <2> QED BY <2>1 DEF Ordered, OrderOK
<1> QED BY <1>1, <1>5, <1>6, <1>7, <1>8 DEF OInv

\* Nothing changes but what cursors do, which threads there are and how many requests were
\* received.
LEMMA Aside ==
    ASSUME OInv, UNCHANGED <<task, sending, owner, ran>>, received' \in received..MaxRequests,
           conn' \in [Ids -> Conns], \A k \in Ids : conn'[k].inbox = conn[k].inbox,
           DOMAIN cur' = Ids, \A i \in Ids : owner[i] = 0 => cur'[i] = NoCursor
    PROVE  OInv' /\ \A k \in Ids : Queued(k)' = Queued(k)
<1>1. \A k \in Ids : Queued(k)' = Queued(k)
    BY DEF Queued
<1>2. received \in Nat /\ received' \in Nat /\ received <= received' /\ MaxRequests \in Nat
      /\ \A x \in Ids : x \in Nat
    BY Constants DEF OInv, Numbers
<1>3. Numbers'
  <2>1. \A k \in Ids : \A a \in 1..Len(Queued(k)) : Queued(k)[a].i \in Nat
      BY <1>2, StreamFacts, OrderElements
  <2>2. \A k \in Ids : \A p \in 1..Len(conn[k].inbox) : conn[k].inbox[p] \in Nat
      BY <1>2, StreamFacts, OrderElements
  <2>3. \A k \in Ids : \A a \in 1..Len(Queued(k)') : Queued(k)'[a].i <= received'
      BY <1>1, <1>2, <2>1 DEF OInv, Numbers
  <2>4. \A k \in Ids : \A p \in 1..Len(conn'[k].inbox) : conn'[k].inbox[p] <= received'
    <3>1. ASSUME NEW k \in Ids, NEW p \in 1..Len(conn[k].inbox)
          PROVE  conn[k].inbox[p] <= received'
      <4>1. conn[k].inbox[p] <= received
          BY DEF OInv, Numbers
      <4> QED BY <1>2, <2>2, <4>1
    <3> QED BY <3>1
  <2>5. \A k \in Ids : ran'[k] <= received'
    <3>1. \A k \in Ids : ran[k] \in Nat /\ ran[k] <= received
        BY <1>2 DEF OInv, Numbers
    <3> QED BY <1>2, <3>1
  <2>6. \A i \in Ids : owner'[i] # 0 => i <= received'
      BY <1>2 DEF OInv, Numbers
  <2>7. \A k \in Ids : k > received' => task'[k] = NoTask
      BY <1>2 DEF OInv, Numbers
  <2>8. \A k \in Ids : TaskOK(task'[k], sending', k)
      BY DEF OInv, Numbers
  <2>9. /\ received' \in 0..MaxRequests /\ owner' \in [Ids -> 0..MaxRequests]
        /\ task' \in [Ids -> TaskStates] /\ sending' \in Sendings
        /\ conn' \in [Ids -> [th : {"none", "up", "ended"}, inbox : Seq(Ids)]]
        /\ ran' \in [Ids -> 0..MaxRequests] /\ DOMAIN cur' = Ids
      BY <1>2 DEF OInv, Numbers, Conns
  <2> QED BY <2>3, <2>4, <2>5, <2>6, <2>7, <2>8, <2>9 DEF Numbers
<1>4. Disjoint'
    BY <1>1 DEF OInv, Disjoint
<1>5. CursorTasks'
    BY DEF OInv, CursorTasks
<1>6. Ordered'
    BY <1>1 DEF OInv, Ordered, OrderOK
<1> QED BY <1>1, <1>3, <1>4, <1>5, <1>6 DEF OInv

\* A request r is queued for stream k, whose task then has state u but for the queue.
Enqueues(k, u, r) ==
    /\ sending = NotSending /\ received < MaxRequests /\ received' = received + 1
    /\ k <= received + 1
    /\ u \in TaskStates /\ u.job = task[k].job /\ u.queue = task[k].queue /\ u.hnd = task[k].hnd
    /\ u.st \notin {"none", "ended"}
    /\ u.st = task[k].st \/ (task[k].st = "none" /\ u.st = "idle")
    /\ Queue(k, [task EXCEPT ![k] = u], r)
    /\ UNCHANGED <<cur, owner, conn, ran>>

\* A request that is received is the last one queued for its stream, and the invariant holds.
LEMMA Appends ==
    ASSUME OInv, NEW k \in Ids, NEW u, NEW r \in Requests, Enqueues(k, u, r)
    PROVE  /\ OInv' /\ Apart(k)
           /\ Queued(k)' = Append(Queued(k), [i |-> received + 1, r |-> r])
           /\ task'[k].st = u.st /\ task'[k].tx = u.tx /\ task'[k].db = u.db
           /\ task'[k].hnd = u.hnd
<1> DEFINE j == [i |-> received + 1, r |-> r]
           q == Append(Queued(k), j)
<1>1. received \in Nat /\ received + 1 \in Ids /\ MaxRequests \in Nat
      /\ \A x \in Ids : x \in Nat /\ x # 0
    BY Constants DEF Enqueues, OInv, Numbers
<1>2. j \in Jobs
    BY <1>1 DEF Jobs
<1>3. task \in [Ids -> TaskStates] /\ sending \in Sendings /\ sending.k # k
    BY <1>1 DEF OInv, Numbers, Enqueues, NotSending
<1>4. /\ sending' \in Sendings /\ task' \in [Ids -> TaskStates]
      /\ \A l \in Ids : l # k => task'[l] = task[l] /\ sending'.k # l
      /\ QueuedOf(task'[k], sending', k) = q
      /\ task'[k].job = u.job /\ task'[k].st = u.st /\ task'[k].tx = u.tx
      /\ task'[k].db = u.db /\ task'[k].hnd = u.hnd
  <2>1. Queued(k) = QueuedOf(u, NotSending, k)
      BY DEF Queued, QueuedOf, Enqueues
  <2>2. u.queue \in Seq(Jobs)
      BY DEF Enqueues, TaskStates
  <2>3. CASE Len(u.queue) < QUEUE
    <3>1. /\ task' = [task EXCEPT ![k] = [u EXCEPT !.queue = Append(u.queue, j)]]
          /\ sending' = NotSending
        BY <1>3, <2>3 DEF Enqueues, Queue
    <3> DEFINE v == [u EXCEPT !.queue = Append(u.queue, j)]
    <3>2. Append(u.queue, j) \in Seq(Jobs)
        BY <1>2, <2>2, AppendProperties
    <3>3. /\ v \in TaskStates /\ v.job = u.job /\ v.queue = Append(u.queue, j) /\ v.st = u.st
          /\ v.tx = u.tx /\ v.db = u.db /\ v.hnd = u.hnd
        BY <3>2 DEF TaskStates, Enqueues
    <3> HIDE DEF v
    <3>4. QueuedOf(v, NotSending, k) = Append(QueuedOf(u, NotSending, k), j)
        BY <1>2, <3>3, QueueAppends DEF Enqueues
    <3>5. task'[k] = v /\ \A l \in Ids : l # k => task'[l] = task[l]
        BY <1>3, <3>1 DEF v
    <3>6. sending' \in Sendings /\ \A l \in Ids : sending'.k # l
        BY <1>1, <3>1 DEF NotSending, Sendings
    <3>7. task' \in [Ids -> TaskStates]
        BY <1>3, <3>1, <3>3 DEF v
    <3> QED BY <2>1, <3>1, <3>3, <3>4, <3>5, <3>6, <3>7
  <2>4. CASE ~(Len(u.queue) < QUEUE)
    <3>1. task' = [task EXCEPT ![k] = u] /\ sending' = [k |-> k, job |-> j]
        BY <1>3, <2>4 DEF Enqueues, Queue
    <3>2. sending'.k = k /\ sending'.job = j /\ sending' \in Sendings
        BY <1>2, <3>1 DEF Sendings
    <3>3. task'[k] = u /\ \A l \in Ids : l # k => task'[l] = task[l]
        BY <1>3, <3>1
    <3>4. task' \in [Ids -> TaskStates]
        BY <1>3, <3>1 DEF Enqueues
    <3>5. QueuedOf(u, sending', k) = Append(QueuedOf(u, NotSending, k), j)
        BY <1>2, <3>2, QueueAppends DEF Enqueues
    <3> QED BY <2>1, <3>2, <3>3, <3>4, <3>5
  <2> QED BY <2>3, <2>4
<1>5. Apart(k)
  <2>1. \A l \in Ids : l # k => sending.k # l
      BY <1>1 DEF Enqueues, NotSending
  <2>2. received' \in received..MaxRequests
      BY <1>1 DEF Enqueues, OInv, Numbers
  <2>3. /\ owner' = owner /\ conn' \in [Ids -> Conns] /\ ran' \in [Ids -> 0..MaxRequests]
        /\ DOMAIN cur' = Ids
      BY DEF Enqueues, OInv, Numbers, Conns
  <2>4. conn' = conn /\ ran' = ran
      BY DEF Enqueues
  <2> QED BY <1>4, <2>1, <2>2, <2>3, <2>4 DEF Apart
<1>6. TaskOK(task'[k], sending', k)
    BY <1>4 DEF TaskOK, Enqueues, OInv, Numbers
<1>7. OrderOK(q, task'[k].st, conn[k].inbox, owner, ran[k], k)
  <2>1. j.i = received + 1
      OBVIOUS
  <2>2. owner[received + 1] = 0
      BY <1>1 DEF OInv, Numbers
  <2>3. ran[k] < received + 1
    <3>1. ran[k] \in Nat /\ ran[k] <= received
        BY <1>1 DEF OInv, Numbers
    <3> QED BY <1>1, <3>1
  <2>4. \A a \in 1..Len(Queued(k)) : Queued(k)[a].i < received + 1
    <3>1. ASSUME NEW a \in 1..Len(Queued(k)) PROVE Queued(k)[a].i < received + 1
      <4>1. Queued(k)[a].i <= received /\ Queued(k)[a].i \in Nat
          BY <1>1, StreamFacts, OrderElements DEF OInv, Numbers
      <4> QED BY <1>1, <4>1
    <3> QED BY <3>1
  <2>5. \A p \in 1..Len(conn[k].inbox) : conn[k].inbox[p] < received + 1
    <3>1. ASSUME NEW p \in 1..Len(conn[k].inbox) PROVE conn[k].inbox[p] < received + 1
      <4>1. conn[k].inbox[p] <= received /\ conn[k].inbox[p] \in Nat
          BY <1>1, StreamFacts, OrderElements DEF OInv, Numbers
      <4> QED BY <1>1, <4>1
    <3> QED BY <3>1
  <2>6. \A x \in Ids : owner[x] = k => x < received + 1
    <3>1. k # 0
        BY Constants
    <3>2. \A x \in Ids : owner[x] # 0 => x <= received
        BY DEF OInv, Numbers
    <3>3. \A x \in Ids : owner[x] = k => x <= received
        BY <3>1, <3>2
    <3>4. ASSUME NEW x \in Ids, x <= received PROVE x < received + 1
        BY <1>1, <3>4, Constants
    <3> QED BY <3>3, <3>4
  <2>7. u.st = task[k].st \/ task[k].st \notin {"waiting", "ended"}
      BY DEF Enqueues
  <2> HIDE DEF j
  <2>8. /\ OrderTypes(Queued(k), conn[k].inbox, owner, ran[k])
        /\ OrderOK(Queued(k), task[k].st, conn[k].inbox, owner, ran[k], k)
      BY StreamFacts
  <2>9. OrderOK(Append(Queued(k), j), u.st, conn[k].inbox, owner, ran[k], k)
      BY <1>2, <2>1, <2>2, <2>3, <2>4, <2>5, <2>6, <2>7, <2>8, OrderAppend
  <2>10. task'[k].st = u.st
      BY <1>4
  <2> QED BY <2>9, <2>10
<1>8. TaskStep(k, q)
  <2>1. ASSUME NEW a \in 1..Len(q)
        PROVE  q[a].i = received + 1 \/ \E b \in 1..Len(Queued(k)) : q[a].i = Queued(k)[b].i
    <3>1. Queued(k) \in Seq(Jobs)
        BY StreamFacts
    <3> HIDE DEF j
    <3>2. /\ Len(q) = Len(Queued(k)) + 1 /\ Len(Queued(k)) \in Nat
          /\ \A b \in 1..Len(Queued(k)) : q[b] = Queued(k)[b]
          /\ q[Len(Queued(k)) + 1] = j
        BY <1>2, <3>1, AppendProperties, LenProperties
    <3> HIDE DEF q
    <3>3. a \in 1..Len(Queued(k)) \/ a = Len(Queued(k)) + 1
        BY <3>2
    <3>4. j.i = received + 1
        BY DEF j
    <3> QED BY <3>2, <3>3, <3>4
  <2>2. conn' = conn /\ ran' = ran /\ cur' = cur /\ received' = received + 1 /\ k <= received'
      BY DEF Enqueues
  <2>3. received < received'
      BY <1>1, <2>2
  <2>4. \A p \in 1..Len(conn'[k].inbox) : conn'[k].inbox[p] <= received'
    <3>1. ASSUME NEW p \in 1..Len(conn[k].inbox) PROVE conn[k].inbox[p] <= received + 1
      <4>1. conn[k].inbox[p] <= received /\ conn[k].inbox[p] \in Nat
          BY <1>1, StreamFacts, OrderElements DEF OInv, Numbers
      <4> QED BY <1>1, <4>1
    <3> QED BY <2>2, <3>1
  <2>5. ran'[k] <= received'
    <3>1. ran[k] \in Nat /\ ran[k] <= received
        BY <1>1 DEF OInv, Numbers
    <3> QED BY <1>1, <2>2, <3>1
  <2>6. task'[k].hnd # 0 => owner[task'[k].hnd] # 0
      BY <1>4 DEF Enqueues, OInv, CursorTasks
  <2>7. \A i \in Ids : owner[i] = 0 => cur'[i] = NoCursor
      BY <2>2 DEF OInv, CursorTasks
  <2>8. \A a \in 1..Len(q) :
            (q[a].i = received' /\ received < received') \/ \E b \in 1..Len(Queued(k)) : q[a].i = Queued(k)[b].i
      BY <2>1, <2>2, <2>3
  <2> HIDE DEF q
  <2> QED BY <1>4, <1>6, <1>7, <2>2, <2>4, <2>5, <2>6, <2>7, <2>8 DEF TaskStep
<1> QED BY <1>4, <1>5, <1>8, OneTask

-----------------------------------------------------------------------------
(* The steps of a stream's task and of its connection. *)

\* The task of stream k goes on to state u; no cursor is opened.
Works(k, u) ==
    /\ task' = [task EXCEPT ![k] = u] /\ u \in TaskStates
    /\ u = task[k] \/ task[k].st # "none"
    /\ UNCHANGED <<sending, received, owner>>
    /\ conn' \in [Ids -> Conns] /\ ran' \in [Ids -> 0..MaxRequests] /\ DOMAIN cur' = Ids
    /\ \A l \in Ids : l # k => conn'[l].inbox = conn[l].inbox /\ ran'[l] = ran[l]
    /\ \A i \in Ids : owner[i] = 0 => cur'[i] = NoCursor
    /\ u.hnd # 0 => owner[u.hnd] # 0
    /\ \A p \in 1..Len(conn'[k].inbox) : conn'[k].inbox[p] <= received
    /\ ran'[k] <= received

\* A step of a task keeps the invariant if it keeps what is queued for it in order.
LEMMA Worked ==
    ASSUME OInv, NEW k \in Ids, NEW u, Works(k, u), TaskOK(u, sending, k),
           NEW q, q = QueuedOf(u, sending, k),
           \A a \in 1..Len(q) : \E b \in 1..Len(Queued(k)) : q[a].i = Queued(k)[b].i,
           OrderOK(q, u.st, conn'[k].inbox, owner, ran'[k], k)
    PROVE  OInv' /\ Apart(k) /\ Queued(k)' = q /\ task'[k] = u
<1>1. task'[k] = u /\ \A l \in Ids : l # k => task'[l] = task[l]
    BY DEF Works, OInv, Numbers
<1>2. received \in received..MaxRequests
    BY Constants DEF OInv, Numbers
<1>3. task' \in [Ids -> TaskStates]
    BY DEF Works, OInv, Numbers
<1>4. Apart(k)
    BY <1>1, <1>2, <1>3 DEF Apart, Works, OInv, Numbers
<1>5. k <= received \/ u = NoTask
  <2>1. CASE k > received
    <3>1. task[k] = NoTask /\ NoTask.st = "none"
        BY <2>1 DEF OInv, Numbers, NoTask
    <3> QED BY <3>1 DEF Works
  <2> QED BY <2>1, Constants DEF OInv, Numbers
<1>6. TaskStep(k, q)
    BY <1>1, <1>5 DEF TaskStep, Works
<1> QED BY <1>1, <1>4, <1>6, OneTask

\* What the task makes of its job, if that has the kind c.
Effect(c, t, u) ==
    /\ c # "open_stream" => u.db = t.db
    /\ CASE c = "open_cursor" -> (t.db => u.hnd # 0)
         [] c = "close_cursor" -> u.hnd = 0
         [] OTHER -> u.hnd = t.hnd

\* What a step of the task of stream k is to the session: nothing, or the job is done.
Serves(k) ==
    /\ \A l \in Ids : l # k => task'[l] = task[l] /\ Queued(l)' = Queued(l)
    /\ task'[k].tx = task[k].tx /\ task'[k].st \in {"idle", "run", "waiting"}
    /\ \/ Queued(k)' = Queued(k) /\ task'[k].hnd = task[k].hnd /\ task'[k].db = task[k].db
       \/ /\ Queued(k) # <<>> /\ Queued(k)' = Tail(Queued(k))
          /\ Effect(Queued(k)[1].r.kind, task[k], task'[k])

\* The task has done its job.
Done(k, u) ==
    /\ u.st = "idle" /\ u.job = NoJob /\ u.queue = task[k].queue /\ u.tx = task[k].tx
    /\ Effect(Job(k).r.kind, task[k], u)

\* A task that is done with a job drops it from what is queued.
LEMMA Finished ==
    ASSUME OInv, NEW k \in Ids, NEW u, Works(k, u), Done(k, u), task[k].st = "run",
           conn'[k].inbox = conn[k].inbox, ran'[k] = ran[k]
    PROVE  OInv' /\ Serves(k)
<1> DEFINE q == Tail(Queued(k))
<1>1. task[k].job # NoJob /\ task[k] \in TaskStates /\ sending \in Sendings
    BY DEF OInv, Numbers, TaskOK
<1>2. Queued(k) # <<>> /\ Queued(k)[1] = task[k].job /\ q = QueuedOf(u, sending, k)
    BY <1>1, StreamFacts, QueueFinishes DEF Done
<1>3. TaskOK(u, sending, k)
    BY DEF TaskOK, Done, Works
<1>4. OrderOK(q, u.st, conn'[k].inbox, owner, ran'[k], k)
    BY <1>2, StreamFacts, OrderFinish DEF Done
<1>5. \A a \in 1..Len(q) : \E b \in 1..Len(Queued(k)) : q[a].i = Queued(k)[b].i
    BY <1>2, StreamFacts, TailElements
<1> HIDE DEF q
<1>6. OInv' /\ Apart(k) /\ Queued(k)' = q /\ task'[k] = u
    BY <1>2, <1>3, <1>4, <1>5, Worked
<1>7. \A l \in Ids : l # k => task'[l] = task[l] /\ Queued(l)' = Queued(l)
    BY <1>6, OtherQueues DEF Apart
<1> QED BY <1>2, <1>6, <1>7 DEF Serves, Done, q, Job

\* Where the fields of Works that most steps do not touch come from.
LEMMA Untouched ==
    ASSUME OInv, NEW k \in Ids
    PROVE  /\ conn \in [Ids -> Conns] /\ ran \in [Ids -> 0..MaxRequests] /\ DOMAIN cur = Ids
           /\ \A i \in Ids : owner[i] = 0 => cur[i] = NoCursor
           /\ task[k].hnd # 0 => owner[task[k].hnd] # 0
           /\ \A p \in 1..Len(conn[k].inbox) : conn[k].inbox[p] <= received
           /\ ran[k] <= received
           /\ task[k] \in TaskStates /\ task \in [Ids -> TaskStates]
           /\ owner \in [Ids -> 0..MaxRequests]
    BY DEF OInv, Numbers, CursorTasks, Conns

\* The channel of a connection thread is replaced.
LEMMA InboxSet ==
    ASSUME NEW c \in Conns, NEW b \in Seq(Ids)
    PROVE  [c EXCEPT !.inbox = b] \in Conns /\ [c EXCEPT !.inbox = b].inbox = b
BY DEF Conns

\* How Finish leaves the task, if tasks differs from task by the state t of it.
LEMMA FinishState ==
    ASSUME NEW k \in Ids, task \in [Ids -> TaskStates], NEW t \in TaskStates, NEW answer,
           NEW tasks, tasks = [task EXCEPT ![k] = t], Finish(k, tasks, answer)
    PROVE  \E u \in TaskStates :
            /\ task' = [task EXCEPT ![k] = u]
            /\ u.st = "idle" /\ u.job = NoJob /\ u.queue = t.queue /\ u.tx = t.tx
            /\ u.hnd = t.hnd /\ u.db = t.db
<1> DEFINE u == [t EXCEPT !.st = "idle", !.job = NoJob, !.got = 0]
<1>1. /\ u \in TaskStates /\ u.st = "idle" /\ u.job = NoJob /\ u.queue = t.queue /\ u.tx = t.tx
      /\ u.hnd = t.hnd /\ u.db = t.db
    BY DEF TaskStates
<1>2. task' = [task EXCEPT ![k] = u]
    BY DEF Finish
<1> QED BY <1>1, <1>2

\* The kinds of requests.
LEMMA Kinds ==
    ~({"open_stream", "close_stream", "open_cursor", "close_cursor", "fetch_cursor"}
        \cap OnConnection # {})
    BY DEF OnConnection

\* The job of open_stream: the connection is made, or could not be.
LEMMA CreateConnectionStep ==
    ASSUME OInv, NEW k \in Ids, CreateConnection(k)
    PROVE  OInv' /\ Serves(k)
<1>1. /\ UNCHANGED <<sending, received, owner, cur, ran>> /\ task[k].st = "run"
      /\ Job(k).r.kind = "open_stream"
    BY DEF CreateConnection, Elsewhere, history, Doing
<1>2. CASE Finish(k, [task EXCEPT ![k].db = TRUE], "ok") /\ conn' = [conn EXCEPT ![k].th = "up"]
  <2> DEFINE t == [task[k] EXCEPT !.db = TRUE]
             tasks == [task EXCEPT ![k].db = TRUE]
  <2>1. /\ t \in TaskStates /\ t.queue = task[k].queue /\ t.tx = task[k].tx
        /\ t.hnd = task[k].hnd /\ tasks = [task EXCEPT ![k] = t] /\ Finish(k, tasks, "ok")
      BY <1>2, Untouched DEF TaskStates
  <2> HIDE DEF t, tasks
  <2>2. PICK u \in TaskStates :
            /\ task' = [task EXCEPT ![k] = u]
            /\ u.st = "idle" /\ u.job = NoJob /\ u.queue = t.queue /\ u.tx = t.tx
            /\ u.hnd = t.hnd /\ u.db = t.db
      BY <2>1, Untouched, FinishState
  <2>3. conn' \in [Ids -> Conns] /\ \A l \in Ids : conn'[l].inbox = conn[l].inbox
      BY <1>2, Untouched DEF Conns
  <2>4. Works(k, u)
      BY <1>1, <2>1, <2>2, <2>3, Untouched DEF Works
  <2>5. Done(k, u)
      BY <1>1, <2>1, <2>2 DEF Done, Effect
  <2> QED BY <1>1, <2>3, <2>4, <2>5, Finished
<1>3. CASE Finish(k, task, "fatal") /\ UNCHANGED conn
  <2> DEFINE t == task[k]
  <2>1. task = [task EXCEPT ![k] = t] /\ t \in TaskStates
      BY Untouched
  <2>2. PICK u \in TaskStates :
            /\ task' = [task EXCEPT ![k] = u]
            /\ u.st = "idle" /\ u.job = NoJob /\ u.queue = t.queue /\ u.tx = t.tx
            /\ u.hnd = t.hnd /\ u.db = t.db
      BY <1>3, <2>1, Untouched, FinishState
  <2>3. Works(k, u)
      BY <1>1, <1>3, <2>2, Untouched DEF Works
  <2>4. Done(k, u)
      BY <1>1, <2>2 DEF Done, Effect
  <2> QED BY <1>1, <1>3, <2>3, <2>4, Finished
<1> QED BY <1>2, <1>3 DEF CreateConnection

\* The task answers, and only the cursor it holds is touched: the job opened no stream and
\* no cursor, or there was no connection.
LEMMA Answers1 ==
    ASSUME OInv, NEW k \in Ids, NEW answer, Finish(k, task, answer), task[k].st = "run",
           Job(k).r.kind \notin {"close_cursor", "open_stream"},
           Job(k).r.kind = "open_cursor" => ~task[k].db,
           UNCHANGED <<sending, received, owner, ran, conn>>,
           cur' = cur \/ \E c : task[k].hnd # 0 /\ cur' = [cur EXCEPT ![task[k].hnd] = c]
    PROVE  OInv' /\ Serves(k)
<1> DEFINE t == task[k]
<1>1. task = [task EXCEPT ![k] = t] /\ t \in TaskStates
    BY Untouched
<1>2. PICK u \in TaskStates :
          /\ task' = [task EXCEPT ![k] = u]
          /\ u.st = "idle" /\ u.job = NoJob /\ u.queue = t.queue /\ u.tx = t.tx
          /\ u.hnd = t.hnd /\ u.db = t.db
    BY <1>1, Untouched, FinishState
<1>3. DOMAIN cur' = Ids /\ \A i \in Ids : owner[i] = 0 => cur'[i] = NoCursor
    BY Untouched
<1>4. Works(k, u)
    BY <1>2, <1>3, Untouched DEF Works
<1>5. Done(k, u)
    BY <1>2 DEF Done, Effect
<1> QED BY <1>4, <1>5, Finished

\* The job of close_stream.
LEMMA AnswerCloseStep ==
    ASSUME OInv, NEW k \in Ids, AnswerClose(k)
    PROVE  OInv' /\ Serves(k)
<1>1. /\ UNCHANGED <<sending, received, owner, cur, ran, conn>> /\ task[k].st = "run"
      /\ Job(k).r.kind = "close_stream" /\ Finish(k, task, "ok")
    BY DEF AnswerClose, Elsewhere, history, Doing
<1> QED BY <1>1, Answers1

\* The job of close_cursor drops the handle.
LEMMA StopCursorStep ==
    ASSUME OInv, NEW k \in Ids, StopCursor(k)
    PROVE  OInv' /\ Serves(k)
<1>1. /\ UNCHANGED <<sending, received, owner, ran, conn>> /\ task[k].st = "run"
      /\ Job(k).r.kind = "close_cursor" /\ Finish(k, [task EXCEPT ![k].hnd = 0], "ok")
      /\ DropHandle(k)
    BY DEF StopCursor, Elsewhere, history, Doing
<1> DEFINE t == [task[k] EXCEPT !.hnd = 0]
           tasks == [task EXCEPT ![k].hnd = 0]
<1>2. /\ t \in TaskStates /\ t.queue = task[k].queue /\ t.tx = task[k].tx /\ t.hnd = 0
      /\ t.db = task[k].db
  <2>1. 0 \in 0..MaxRequests
      BY Constants
  <2> QED BY <2>1, Untouched DEF TaskStates
<1>7. tasks = [task EXCEPT ![k] = t] /\ Finish(k, tasks, "ok")
    BY <1>1, Untouched
<1> HIDE DEF t, tasks
<1>3. PICK u \in TaskStates :
          /\ task' = [task EXCEPT ![k] = u]
          /\ u.st = "idle" /\ u.job = NoJob /\ u.queue = t.queue /\ u.tx = t.tx
          /\ u.hnd = t.hnd /\ u.db = t.db
    BY <1>2, <1>7, Untouched, FinishState
<1>4. DOMAIN cur' = Ids /\ \A i \in Ids : owner[i] = 0 => cur'[i] = NoCursor
    BY <1>1, Untouched DEF DropHandle
<1>5. Works(k, u)
    BY <1>1, <1>2, <1>3, <1>4, Untouched DEF Works
<1>6. Done(k, u)
    BY <1>1, <1>2, <1>3 DEF Done, Effect
<1> QED BY <1>1, <1>5, <1>6, Finished

\* The task goes on with its job, or takes the next.
LEMMA Continued ==
    ASSUME OInv, NEW k \in Ids, NEW u, Works(k, u), TaskOK(u, sending, k),
           u.st \in {"idle", "run", "waiting"}, u.tx = task[k].tx, u.db = task[k].db,
           u.hnd = task[k].hnd, QueuedOf(u, sending, k) = Queued(k),
           OrderOK(Queued(k), u.st, conn'[k].inbox, owner, ran'[k], k)
    PROVE  OInv' /\ Serves(k)
<1>1. OInv' /\ Apart(k) /\ Queued(k)' = Queued(k) /\ task'[k] = u
  <2>1. \A a \in 1..Len(Queued(k)) : \E b \in 1..Len(Queued(k)) : Queued(k)[a].i = Queued(k)[b].i
      OBVIOUS
  <2> QED BY <2>1, Worked
<1>2. \A l \in Ids : l # k => task'[l] = task[l] /\ Queued(l)' = Queued(l)
    BY <1>1, OtherQueues DEF Apart
<1> QED BY <1>1, <1>2 DEF Serves

\* A task takes the first job of its queue: nothing changes in what is queued.
LEMMA TakeJobStep ==
    ASSUME OInv, NEW k \in Ids, TakeJob(k)
    PROVE  OInv' /\ Serves(k)
<1> DEFINE u == [task[k] EXCEPT !.st = "run", !.job = Head(task[k].queue),
                                !.queue = Tail(task[k].queue)]
<1>1. UNCHANGED <<sending, received, owner, ran, conn, cur>> /\ task[k].st = "idle"
      /\ task[k].queue # <<>> /\ task[k].queue \in Seq(Jobs)
    BY Untouched DEF TakeJob, history, TaskStates
<1>2. Head(task[k].queue) \in Jobs /\ Tail(task[k].queue) \in Seq(Jobs)
    BY <1>1, HeadTailProperties
<1>3. /\ u \in TaskStates /\ u.st = "run" /\ u.job = Head(task[k].queue)
      /\ u.queue = Tail(task[k].queue) /\ u.tx = task[k].tx /\ u.db = task[k].db
      /\ u.hnd = task[k].hnd
    BY <1>2, Untouched DEF TaskStates
<1>4. task' = [task EXCEPT ![k] = u]
    BY Untouched DEF TakeJob
<1> HIDE DEF u
<1>5. Works(k, u)
    BY <1>1, <1>3, <1>4, Untouched DEF Works
<1>6. task[k].job = NoJob
    BY <1>1, StreamFacts DEF TaskOK
<1>7. QueuedOf(u, sending, k) = Queued(k)
  <2>1. task[k] \in TaskStates
      BY Untouched
  <2>2. QueuedOf(u, sending, k) = QueuedOf(task[k], sending, k)
      BY <1>1, <1>3, <1>6, <2>1, QueueTakes
  <2> QED BY <2>2, StreamFacts
<1>8. TaskOK(u, sending, k)
    BY <1>2, <1>3, JobOrNone DEF TaskOK
<1>9. OrderOK(Queued(k), "run", conn[k].inbox, owner, ran[k], k)
    BY <1>1, StreamFacts, OrderTake
<1> QED BY <1>1, <1>3, <1>5, <1>7, <1>8, <1>9, Continued

\* The job a task works on is the first that is queued.
LEMMA FirstJob ==
    ASSUME OInv, NEW k \in Ids, task[k].st \in {"run", "waiting"}
    PROVE  /\ Queued(k) # <<>> /\ Queued(k)[1] = Job(k) /\ Job(k) \in Jobs /\ Job(k) # NoJob
           /\ Job(k).i \in Ids /\ Job(k).i <= received
<1>1. task[k].job # NoJob /\ task[k] \in TaskStates /\ sending \in Sendings
    BY DEF OInv, Numbers, TaskOK
<1>2. Queued(k) # <<>> /\ Queued(k)[1] = task[k].job
  <2>1. QueuedOf(task[k], sending, k) # <<>> /\ QueuedOf(task[k], sending, k)[1] = task[k].job
      BY <1>1, QueuedType
  <2> QED BY <2>1, StreamFacts
<1>3. Job(k) \in Jobs
    BY <1>1 DEF Job, TaskStates
<1>4. 1 \in 1..Len(Queued(k))
    BY <1>2, StreamFacts, OrderElements
<1> QED BY <1>1, <1>2, <1>3, <1>4, JobOrNone DEF Job, OInv, Numbers

\* A task sends a program to its connection and waits, or has no connection to send it to.
LEMMA SendProgramStep ==
    ASSUME OInv, NEW k \in Ids, SendProgram(k)
    PROVE  OInv' /\ Serves(k)
<1>1. UNCHANGED <<sending, received, owner, ran, cur>> /\ task[k].st = "run"
      /\ Job(k).r.kind \in OnConnection
    BY DEF SendProgram, Elsewhere, history, Doing
<1>2. CASE Finish(k, task, "error") /\ UNCHANGED conn
    BY <1>1, <1>2, Kinds, Answers1
<1>3. CASE /\ task' = [task EXCEPT ![k].st = "waiting"]
           /\ conn' = [conn EXCEPT ![k].inbox = Append(@, Job(k).i)]
  <2> DEFINE u == [task[k] EXCEPT !.st = "waiting"]
  <2>1. /\ u \in TaskStates /\ u.st = "waiting" /\ u.job = task[k].job
        /\ u.queue = task[k].queue /\ u.tx = task[k].tx /\ u.db = task[k].db
        /\ u.hnd = task[k].hnd
      BY Untouched DEF TaskStates
  <2>2. task' = [task EXCEPT ![k] = u]
      BY <1>3, Untouched
  <2> HIDE DEF u
  <2>3. Job(k).i \in Ids /\ Job(k).i <= received /\ Queued(k)[1] = Job(k) /\ Queued(k) # <<>>
      BY <1>1, FirstJob
  <2>4. conn[k].inbox \in Seq(Ids)
      BY Untouched DEF Conns
  <2> DEFINE box == Append(conn[k].inbox, Job(k).i)
  <2>5. /\ box \in Seq(Ids) /\ Len(box) = Len(conn[k].inbox) + 1 /\ Len(conn[k].inbox) \in Nat
        /\ \A p \in 1..Len(conn[k].inbox) : box[p] = conn[k].inbox[p]
        /\ box[Len(conn[k].inbox) + 1] = Job(k).i
      BY <2>3, <2>4, AppendProperties, LenProperties
  <2>6. /\ conn' \in [Ids -> Conns] /\ conn'[k].inbox = box
        /\ \A l \in Ids : l # k => conn'[l].inbox = conn[l].inbox
    <3>1. conn' = [conn EXCEPT ![k].inbox = box]
        BY <1>3
    <3>2. conn \in [Ids -> Conns]
        BY Untouched
    <3> HIDE DEF box
    <3>3. box \in Seq(Ids)
        BY <2>5
    <3>4. PICK e : e = [conn[k] EXCEPT !.inbox = box]
        OBVIOUS
    <3>5. e \in Conns /\ e.inbox = box
        BY <3>2, <3>3, <3>4, InboxSet
    <3>6. conn' = [conn EXCEPT ![k] = e]
        BY <3>1, <3>4
    <3> QED BY <3>2, <3>5, <3>6
  <2>7. OrderOK(Queued(k), "waiting", box, owner, ran[k], k)
      BY <1>1, <2>3, StreamFacts, OrderSend
  <2> HIDE DEF box
  <2>8. \A p \in 1..Len(box) : box[p] <= received
    <3>1. \A p \in 1..Len(box) : p \in 1..Len(conn[k].inbox) \/ p = Len(conn[k].inbox) + 1
        BY <2>5
    <3> QED BY <2>3, <2>5, <3>1, Untouched
  <2>9. Works(k, u)
      BY <1>1, <2>1, <2>2, <2>6, <2>8, Untouched DEF Works
  <2>10. TaskOK(u, sending, k)
      BY <1>1, <2>1, FirstJob DEF TaskOK, Job
  <2>11. QueuedOf(u, sending, k) = Queued(k)
      BY <2>1 DEF QueuedOf, Queued
  <2> QED BY <1>1, <2>1, <2>6, <2>7, <2>9, <2>10, <2>11, Continued
<1> QED BY <1>2, <1>3 DEF SendProgram

\* The job of fetch_cursor.
LEMMA FetchEntryStep ==
    ASSUME OInv, NEW k \in Ids, FetchEntry(k)
    PROVE  OInv' /\ Serves(k)
<1>1. UNCHANGED <<sending, received, owner, ran, conn>> /\ task[k].st = "run"
      /\ Job(k).r.kind = "fetch_cursor"
    BY DEF FetchEntry, Elsewhere, history, Doing
<1>2. cur' = cur \/ \E c : task[k].hnd # 0 /\ cur' = [cur EXCEPT ![task[k].hnd] = c]
    BY DEF FetchEntry
<1>3. CASE \E answer : Finish(k, task, answer)
    BY <1>1, <1>2, <1>3, Answers1
<1>4. CASE task' = [task EXCEPT ![k].got = @ + 1]
  <2> DEFINE n == task[k].got + 1
             u == [task[k] EXCEPT !.got = n]
  <2>1. /\ u \in TaskStates /\ u.st = task[k].st /\ u.job = task[k].job
        /\ u.queue = task[k].queue /\ u.tx = task[k].tx /\ u.db = task[k].db
        /\ u.hnd = task[k].hnd
    <3>1. task[k].got \in Nat
        BY Untouched DEF TaskStates
    <3>2. n \in Nat
        BY <3>1
    <3> HIDE DEF n
    <3> QED BY <3>2, Untouched DEF TaskStates
  <2>2. task' = [task EXCEPT ![k] = u]
      BY <1>4, Untouched
  <2> HIDE DEF u
  <2>3. DOMAIN cur' = Ids /\ \A i \in Ids : owner[i] = 0 => cur'[i] = NoCursor
      BY <1>2, Untouched
  <2>4. Works(k, u)
      BY <1>1, <2>1, <2>2, <2>3, Untouched DEF Works
  <2>5. TaskOK(u, sending, k)
      BY <1>1, <2>1, StreamFacts DEF TaskOK
  <2>6. QueuedOf(u, sending, k) = Queued(k)
      BY <2>1 DEF QueuedOf, Queued
  <2> QED BY <1>1, <2>1, <2>4, <2>5, <2>6, StreamFacts, Continued
<1> QED BY <1>3, <1>4 DEF FetchEntry

\* The program that a connection's thread has, and what it has run after it.
LEMMA CurrentFacts ==
    ASSUME OInv, NEW k \in Ids, conn[k].inbox # <<>>
    PROVE  /\ conn[k].inbox \in Seq(Ids) /\ Current(k) = conn[k].inbox[1]
           /\ 1 \in 1..Len(conn[k].inbox) /\ Current(k) \in Ids /\ Current(k) <= received
<1>1. conn[k].inbox \in Seq(Ids)
    BY Untouched DEF Conns
<1>2. 1 \in 1..Len(conn[k].inbox) /\ conn[k].inbox[1] \in Ids
    BY StreamFacts, OrderElements
<1>3. Current(k) = conn[k].inbox[1]
    BY <1>1, HeadTailProperties DEF Current
<1> QED BY <1>1, <1>2, <1>3, Untouched

\* A program runs: it is among those the connection has run.
LEMMA RanFacts ==
    ASSUME OInv, NEW k \in Ids, conn[k].inbox # <<>>, RunsNow(k),
           NEW m, m = Max({ran[k], conn[k].inbox[1]})
    PROVE  /\ ran' \in [Ids -> 0..MaxRequests] /\ ran'[k] = m /\ m <= received
           /\ \A l \in Ids : l # k => ran'[l] = ran[l]
<1>1. ran[k] \in 0..MaxRequests /\ ran[k] <= received
    BY Untouched
<1>2. m = ran[k] \/ m = Current(k)
  <2>1. ran[k] \in Int /\ Current(k) \in Int
      BY <1>1, CurrentFacts, Constants
  <2> QED BY <2>1, CurrentFacts, LargerOf
<1>3. m \in 0..MaxRequests /\ m <= received
    BY <1>1, <1>2, CurrentFacts, Constants
<1>4. ran' = [ran EXCEPT ![k] = m]
    BY CurrentFacts DEF RunsNow
<1> QED BY <1>3, <1>4, Untouched

\* The thread of a connection has run a program of the stream's task, or nobody waits for
\* it and it ends.
LEMMA RunProgramStep ==
    ASSUME OInv, NEW k \in Ids, RunProgram(k)
    PROVE  OInv' /\ (Serves(k) \/ (UNCHANGED task /\ \A l \in Ids : Queued(l)' = Queued(l)))
<1>1. /\ UNCHANGED <<sending, received, owner, cur>> /\ conn[k].inbox # <<>>
      /\ owner[Current(k)] = 0 /\ RunsNow(k)
    BY DEF RunProgram
<1>2. conn[k].inbox \in Seq(Ids) /\ Current(k) = conn[k].inbox[1] /\ 1 \in 1..Len(conn[k].inbox)
    BY <1>1, CurrentFacts
<1> DEFINE m == Max({ran[k], conn[k].inbox[1]})
<1>3. /\ ran' \in [Ids -> 0..MaxRequests] /\ ran'[k] = m /\ m <= received
      /\ \A l \in Ids : l # k => ran'[l] = ran[l]
    BY <1>1, RanFacts
<1>4. CASE /\ task[k].st = "waiting" /\ conn' = [conn EXCEPT ![k].inbox = Tail(@)]
           /\ \E answer : Finish(k, task, answer)
  <2> DEFINE t == task[k]
             q == Tail(Queued(k))
             box == Tail(conn[k].inbox)
  <2>1. task = [task EXCEPT ![k] = t] /\ t \in TaskStates
      BY Untouched
  <2>2. PICK u \in TaskStates :
            /\ task' = [task EXCEPT ![k] = u]
            /\ u.st = "idle" /\ u.job = NoJob /\ u.queue = t.queue /\ u.tx = t.tx
            /\ u.hnd = t.hnd /\ u.db = t.db
      BY <1>4, <2>1, Untouched, FinishState
  <2>3. /\ box \in Seq(Ids) /\ Len(box) \in Nat
        /\ \A p \in 1..Len(box) : p + 1 \in 1..Len(conn[k].inbox) /\ box[p] = conn[k].inbox[p + 1]
      BY <1>1, <1>2, TailElements
  <2>4. /\ conn' \in [Ids -> Conns] /\ conn'[k].inbox = box
        /\ \A l \in Ids : l # k => conn'[l].inbox = conn[l].inbox
    <3>1. conn' = [conn EXCEPT ![k].inbox = box]
        BY <1>4
    <3>2. conn \in [Ids -> Conns]
        BY Untouched
    <3> HIDE DEF box
    <3>3. box \in Seq(Ids)
        BY <2>3
    <3>4. PICK e : e = [conn[k] EXCEPT !.inbox = box]
        OBVIOUS
    <3>5. e \in Conns /\ e.inbox = box
        BY <3>2, <3>3, <3>4, InboxSet
    <3>6. conn' = [conn EXCEPT ![k] = e]
        BY <3>1, <3>4
    <3> QED BY <3>2, <3>5, <3>6
  <2>5. Queued(k) # <<>> /\ Queued(k)[1] = Job(k) /\ Job(k) # NoJob
      BY <1>4, FirstJob
  <2>6. OrderOK(q, "idle", box, owner, m, k)
      BY <1>1, <1>2, <1>4, <2>5, StreamFacts, OrderRun
  <2> HIDE DEF box, m
  <2>7. \A p \in 1..Len(box) : box[p] <= received
      BY <2>3, Untouched
  <2>8. Works(k, u)
      BY <1>1, <1>3, <1>4, <2>2, <2>4, <2>7, Untouched DEF Works
  <2>9. TaskOK(u, sending, k)
      BY <2>2 DEF TaskOK
  <2>10. q = QueuedOf(u, sending, k)
      BY <2>2, <2>5, StreamFacts, QueueFinishes DEF Job
  <2>11. \A a \in 1..Len(q) : \E b \in 1..Len(Queued(k)) : q[a].i = Queued(k)[b].i
      BY <2>5, StreamFacts, TailElements
  <2> HIDE DEF q
  <2>12. OInv' /\ Apart(k) /\ Queued(k)' = q /\ task'[k] = u
    <3>1. OrderOK(q, u.st, conn'[k].inbox, owner, ran'[k], k)
        BY <1>3, <2>2, <2>4, <2>6
    <3> QED BY <2>8, <2>9, <2>10, <2>11, <3>1, Worked
  <2>13. \A l \in Ids : l # k => task'[l] = task[l] /\ Queued(l)' = Queued(l)
      BY <2>12, OtherQueues DEF Apart
  <2>14. Effect(Queued(k)[1].r.kind, task[k], u)
    <3>1. Job(k).r.kind \in OnConnection
        BY <1>4, StreamFacts DEF TaskOK, Job
    <3> QED BY <2>2, <2>5, <3>1, Kinds DEF Effect
  <2> QED BY <2>2, <2>5, <2>12, <2>13, <2>14 DEF Serves, q
<1>5. CASE task[k].st # "waiting" /\ ThreadDies(k) /\ UNCHANGED task
  <2>1. task[k].st = "ended"
      BY <1>1, <1>2, <1>5, StreamFacts DEF OrderOK
  <2>2. Queued(k) = <<>>
    <3>1. task[k].queue = <<>> /\ sending.k # k /\ task[k].job = NoJob
        BY <2>1, StreamFacts DEF TaskOK
    <3> QED BY <3>1 DEF Queued
  <2>3. OrderOK(Queued(k), "ended", <<>>, owner, m, k)
      BY <2>1, <2>2, StreamFacts, OrderStop
  <2> HIDE DEF m
  <2>4. /\ conn' \in [Ids -> Conns] /\ conn'[k].inbox = <<>>
        /\ \A l \in Ids : l # k => conn'[l].inbox = conn[l].inbox
      BY <1>5, Untouched DEF ThreadDies, Conns
  <2>5. Works(k, task[k])
    <3>1. task' = [task EXCEPT ![k] = task[k]] /\ Len(<<>>) = 0
        BY <1>5, Untouched
    <3> QED BY <1>1, <1>3, <2>4, <3>1, Untouched DEF Works
  <2>6. OInv' /\ Apart(k) /\ Queued(k)' = Queued(k)
    <3>1. \A a \in 1..Len(Queued(k)) : \E b \in 1..Len(Queued(k)) : Queued(k)[a].i = Queued(k)[b].i
        OBVIOUS
    <3>2. TaskOK(task[k], sending, k) /\ Queued(k) = QueuedOf(task[k], sending, k)
        BY StreamFacts
    <3>3. OrderOK(Queued(k), task[k].st, conn'[k].inbox, owner, ran'[k], k)
        BY <1>3, <2>1, <2>3, <2>4
    <3> QED BY <2>5, <3>1, <3>2, <3>3, Worked
  <2> QED BY <1>5, <2>6, OtherQueues
<1> QED BY <1>4, <1>5 DEF RunProgram

\* The thread has run the program of a cursor.
LEMMA EndProgramStep ==
    ASSUME OInv, NEW k \in Ids, EndProgram(k)
    PROVE  OInv' /\ UNCHANGED task /\ \A l \in Ids : Queued(l)' = Queued(l)
<1>1. /\ UNCHANGED <<sending, received, owner, task>> /\ conn[k].inbox # <<>>
      /\ Ran(cur[Current(k)]) /\ RunsNow(k)
    BY DEF EndProgram
<1>2. /\ conn[k].inbox \in Seq(Ids) /\ Current(k) = conn[k].inbox[1]
      /\ 1 \in 1..Len(conn[k].inbox) /\ Current(k) \in Ids
    BY <1>1, CurrentFacts
<1> DEFINE m == Max({ran[k], conn[k].inbox[1]})
<1>3. /\ ran' \in [Ids -> 0..MaxRequests] /\ ran'[k] = m /\ m <= received
      /\ \A l \in Ids : l # k => ran'[l] = ran[l]
    BY <1>1, RanFacts
<1>4. owner[conn[k].inbox[1]] # 0
    BY <1>1, <1>2, Untouched DEF Ran, NoCursor
<1>5. DOMAIN cur' = Ids /\ \A i \in Ids : owner[i] = 0 => cur'[i] = NoCursor
  <2>1. \E c : cur' = [cur EXCEPT ![Current(k)] = c]
      BY DEF EndProgram
  <2> QED BY <1>2, <1>4, <2>1, Untouched
<1> DEFINE box == Tail(conn[k].inbox)
<1>6. /\ OrderOK(Queued(k), task[k].st, box, owner, m, k)
      /\ OrderOK(Queued(k), task[k].st, <<>>, owner, m, k)
    BY <1>1, <1>4, StreamFacts, OrderRunCursor
<1>7. /\ box \in Seq(Ids) /\ Len(box) \in Nat
      /\ \A p \in 1..Len(box) : p + 1 \in 1..Len(conn[k].inbox) /\ box[p] = conn[k].inbox[p + 1]
    BY <1>1, <1>2, TailElements
<1>8. /\ conn' \in [Ids -> Conns] /\ (conn'[k].inbox = box \/ conn'[k].inbox = <<>>)
      /\ \A l \in Ids : l # k => conn'[l].inbox = conn[l].inbox
  <2>1. CASE conn' = [conn EXCEPT ![k].inbox = Tail(@)]
    <3>1. conn' = [conn EXCEPT ![k].inbox = box]
        BY <2>1
    <3>2. conn \in [Ids -> Conns]
        BY Untouched
    <3> HIDE DEF box
    <3>3. box \in Seq(Ids)
        BY <1>7
    <3>4. PICK e : e = [conn[k] EXCEPT !.inbox = box]
        OBVIOUS
    <3>5. e \in Conns /\ e.inbox = box
        BY <3>2, <3>3, <3>4, InboxSet
    <3>6. conn' = [conn EXCEPT ![k] = e]
        BY <3>1, <3>4
    <3> QED BY <3>2, <3>5, <3>6
  <2>2. CASE ThreadDies(k)
      BY <2>2, Untouched DEF ThreadDies, Conns
  <2> QED BY <2>1, <2>2 DEF EndProgram
<1> HIDE DEF m, box
<1>9. \A p \in 1..Len(conn'[k].inbox) : conn'[k].inbox[p] <= received
  <2>1. \A p \in 1..Len(box) : box[p] <= received
      BY <1>7, Untouched
  <2>2. Len(<<>>) = 0
      OBVIOUS
  <2> QED BY <1>8, <2>1, <2>2
<1>10. Works(k, task[k])
  <2>1. task' = [task EXCEPT ![k] = task[k]]
      BY <1>1, Untouched
  <2> QED BY <1>1, <1>3, <1>5, <1>8, <1>9, <2>1, Untouched DEF Works
<1>11. OInv' /\ Apart(k) /\ Queued(k)' = Queued(k)
  <2>1. \A a \in 1..Len(Queued(k)) : \E b \in 1..Len(Queued(k)) : Queued(k)[a].i = Queued(k)[b].i
      OBVIOUS
  <2>2. TaskOK(task[k], sending, k) /\ Queued(k) = QueuedOf(task[k], sending, k)
      BY StreamFacts
  <2>3. OrderOK(Queued(k), task[k].st, conn'[k].inbox, owner, ran'[k], k)
      BY <1>3, <1>6, <1>8
  <2> QED BY <1>10, <2>1, <2>2, <2>3, Worked
<1> QED BY <1>1, <1>11, OtherQueues

\* The task of a cursor sends its program.
LEMMA RunCursorStep ==
    ASSUME OInv, NEW i \in Ids, RunCursor(i)
    PROVE  OInv' /\ UNCHANGED task /\ \A l \in Ids : Queued(l)' = Queued(l)
<1>1. /\ UNCHANGED <<sending, received, owner, task, ran>> /\ cur[i].task = "open"
      /\ cur' = [cur EXCEPT ![i].task = "run"]
      /\ conn' = [conn EXCEPT ![owner[i]].inbox = Append(@, i)]
    BY DEF RunCursor, Elsewhere, history
<1>2. PICK k \in Ids : k = owner[i] /\ k # 0 /\ i <= received
  <2>1. owner[i] # 0
      BY <1>1, Untouched DEF NoCursor
  <2>2. owner[i] \in 0..MaxRequests /\ i <= received
      BY <2>1, Untouched DEF OInv, Numbers
  <2>3. owner[i] \in Ids
      BY <2>1, <2>2, Constants
  <2> QED BY <2>1, <2>2, <2>3
<1> DEFINE box == Append(conn[k].inbox, i)
<1>3. conn[k].inbox \in Seq(Ids)
    BY <1>2, Untouched DEF Conns
<1>4. /\ box \in Seq(Ids) /\ Len(box) = Len(conn[k].inbox) + 1 /\ Len(conn[k].inbox) \in Nat
      /\ \A p \in 1..Len(conn[k].inbox) : box[p] = conn[k].inbox[p]
      /\ box[Len(conn[k].inbox) + 1] = i
    BY <1>3, AppendProperties, LenProperties
<1>5. OrderOK(Queued(k), task[k].st, box, owner, ran[k], k)
    BY <1>2, StreamFacts, OrderSendCursor
<1>6. /\ conn' \in [Ids -> Conns] /\ conn'[k].inbox = box
      /\ \A l \in Ids : l # k => conn'[l].inbox = conn[l].inbox
  <2>1. conn' = [conn EXCEPT ![k].inbox = box]
      BY <1>1, <1>2
  <2> HIDE DEF box
  <2>2. conn \in [Ids -> Conns]
      BY Untouched
  <2>3. box \in Seq(Ids)
      BY <1>4
  <2>4. PICK e : e = [conn[k] EXCEPT !.inbox = box]
      OBVIOUS
  <2>5. e \in Conns /\ e.inbox = box
      BY <2>2, <2>3, <2>4, InboxSet
  <2>6. conn' = [conn EXCEPT ![k] = e]
      BY <2>1, <2>4
  <2> QED BY <2>2, <2>5, <2>6
<1>7. DOMAIN cur' = Ids /\ \A j \in Ids : owner[j] = 0 => cur'[j] = NoCursor
    BY <1>1, <1>2, Untouched
<1>8. UNCHANGED task /\ task' = [task EXCEPT ![k] = task[k]]
    BY <1>1, <1>2, Untouched
<1> HIDE DEF box
<1>9. \A p \in 1..Len(box) : box[p] <= received
  <2>1. \A p \in 1..Len(box) : p \in 1..Len(conn[k].inbox) \/ p = Len(conn[k].inbox) + 1
      BY <1>4
  <2> QED BY <1>2, <1>4, <2>1, Untouched
<1>10. Works(k, task[k])
    BY <1>1, <1>2, <1>6, <1>7, <1>8, <1>9, Untouched DEF Works
<1>11. OInv' /\ Apart(k) /\ Queued(k)' = Queued(k)
  <2>1. \A a \in 1..Len(Queued(k)) : \E b \in 1..Len(Queued(k)) : Queued(k)[a].i = Queued(k)[b].i
      OBVIOUS
  <2>2. TaskOK(task[k], sending, k) /\ Queued(k) = QueuedOf(task[k], sending, k)
      BY <1>2, StreamFacts
  <2>3. OrderOK(Queued(k), task[k].st, conn'[k].inbox, owner, ran'[k], k)
      BY <1>1, <1>5, <1>6
  <2> QED BY <1>10, <2>1, <2>2, <2>3, Worked
<1> QED BY <1>2, <1>8, <1>11, OtherQueues

\* The job that could not be queued is.
LEMMA UnblockStep ==
    ASSUME OInv, Unblock
    PROVE  OInv' /\ \E k \in Ids : Serves(k)
<1>1. PICK k \in Ids : sending \in Sendings /\ sending.k = k /\ sending.job \in Jobs
    BY DEF Unblock, OInv, Numbers, Sendings
<1> DEFINE u == [task[k] EXCEPT !.queue = Append(task[k].queue, sending.job)]
<1>2. Append(task[k].queue, sending.job) \in Seq(Jobs)
  <2>1. task[k].queue \in Seq(Jobs)
      BY Untouched DEF TaskStates
  <2> QED BY <1>1, <2>1, AppendProperties
<1>3. /\ u \in TaskStates /\ u.st = task[k].st /\ u.job = task[k].job
      /\ u.queue = Append(task[k].queue, sending.job) /\ u.tx = task[k].tx /\ u.db = task[k].db
      /\ u.hnd = task[k].hnd
    BY <1>2, Untouched DEF TaskStates
<1>4. /\ task' = [task EXCEPT ![k] = u] /\ sending' = NotSending
      /\ UNCHANGED <<received, owner, conn, ran, cur>>
    BY <1>1, Untouched DEF Unblock, history
<1> HIDE DEF u
<1>5. task' \in [Ids -> TaskStates] /\ task'[k] = u /\ \A l \in Ids : l # k => task'[l] = task[l]
    BY <1>3, <1>4, Untouched
<1>6. sending' \in Sendings /\ \A l \in Ids : sending'.k # l
    BY <1>4, Constants DEF Sendings, NotSending
<1>7. Apart(k)
  <2>1. received \in received..MaxRequests
      BY Constants DEF OInv, Numbers
  <2> QED BY <1>1, <1>4, <1>5, <1>6, <2>1, Untouched DEF Apart
<1>8. task[k].st \in {"idle", "run", "waiting"}
    BY <1>1, StreamFacts DEF TaskOK, TaskStates
<1>9. TaskStep(k, Queued(k))
  <2>1. TaskOK(task'[k], sending', k)
      BY <1>3, <1>5, <1>8, StreamFacts DEF TaskOK
  <2>2. k <= received
    <3>1. NoTask.st = "none"
        BY DEF NoTask
    <3>2. k > received => task[k] = NoTask
        BY DEF OInv, Numbers
    <3>3. ~(k > received)
        BY <1>8, <3>1, <3>2
    <3>4. k \in Nat /\ received \in Nat
        BY Constants DEF OInv, Numbers
    <3> QED BY <3>3, <3>4
  <2>3. Queued(k) = QueuedOf(task'[k], sending', k)
    <3>1. task[k] \in TaskStates
        BY Untouched
    <3>2. QueuedOf(u, NotSending, k) = QueuedOf(task[k], sending, k)
      <4>1. sending \in Sendings
          BY StreamFacts
      <4>2. sending.k = k /\ u.job = task[k].job /\ u.queue = Append(task[k].queue, sending.job)
          BY <1>1, <1>3
      <4> QED BY <3>1, <4>1, <4>2, QueueUnblocks
    <3> QED BY <1>4, <1>5, <3>2, StreamFacts
  <2>4. \A a \in 1..Len(Queued(k)) :
            (Queued(k)[a].i = received' /\ received < received')
            \/ \E b \in 1..Len(Queued(k)) : Queued(k)[a].i = Queued(k)[b].i
      OBVIOUS
  <2>5. OrderOK(Queued(k), task'[k].st, conn'[k].inbox, owner, ran'[k], k)
      BY <1>3, <1>4, <1>5, StreamFacts
  <2> QED BY <1>3, <1>4, <1>5, <2>1, <2>2, <2>3, <2>4, <2>5, Untouched DEF TaskStep
<1>10. OInv' /\ Queued(k)' = Queued(k)
    BY <1>7, <1>9, OneTask
<1>11. Serves(k)
    BY <1>3, <1>5, <1>7, <1>8, <1>10, OtherQueues DEF Serves
<1> QED BY <1>10, <1>11

\* The task of a stream ends.
LEMMA EndTaskStep ==
    ASSUME OInv, NEW k \in Ids, EndTask(k)
    PROVE  /\ OInv' /\ ~task[k].tx /\ Queued(k)' = <<>>
           /\ \A l \in Ids : l # k => task'[l] = task[l] /\ Queued(l)' = Queued(l)
<1> DEFINE u == [NoTask EXCEPT !.st = "ended"]
<1>1. /\ UNCHANGED <<sending, received, owner, conn, ran>> /\ task' = [task EXCEPT ![k] = u]
      /\ task[k].st = "idle" /\ task[k].queue = <<>> /\ ~task[k].tx /\ sending.k # k
      /\ DropHandle(k)
    BY DEF EndTask, Elsewhere, history
<1>2. /\ u \in TaskStates /\ u.st = "ended" /\ u.job = NoJob /\ u.queue = <<>> /\ u.hnd = 0
  <2>1. 0 \in 0..MaxRequests /\ <<>> \in Seq(Jobs)
      BY Constants
  <2> QED BY <2>1 DEF TaskStates, NoTask
<1> HIDE DEF u
<1>3. DOMAIN cur' = Ids /\ \A i \in Ids : owner[i] = 0 => cur'[i] = NoCursor
    BY <1>1, Untouched DEF DropHandle
<1>4. Works(k, u)
    BY <1>1, <1>2, <1>3, Untouched DEF Works
<1>5. TaskOK(u, sending, k)
    BY <1>1, <1>2 DEF TaskOK
<1>6. QueuedOf(u, sending, k) = <<>>
    BY <1>1, <1>2 DEF QueuedOf
<1>7. OrderOK(<<>>, u.st, conn'[k].inbox, owner, ran'[k], k)
    BY <1>1, <1>2, StreamFacts, OrderStop
<1>8. OInv' /\ Apart(k) /\ Queued(k)' = <<>>
  <2>1. \A a \in 1..Len(<<>>) : \E b \in 1..Len(Queued(k)) : <<>>[a].i = Queued(k)[b].i
      OBVIOUS
  <2> QED BY <1>4, <1>5, <1>6, <1>7, <2>1, Worked
<1> QED BY <1>1, <1>8, OtherQueues DEF Apart

\* The connection is closed.
LEMMA TerminateStep ==
    ASSUME OInv, NEW c, Terminate(c), UNCHANGED <<received, ran>>
    PROVE  OInv' /\ \A k \in Ids : Queued(k)' = <<>>
<1>1. /\ UNCHANGED <<owner, conn, received, ran>> /\ sending' = NotSending
      /\ task' = [k \in Ids |-> IF task[k].st = "none" THEN NoTask
                                ELSE [NoTask EXCEPT !.st = "ended"]]
      /\ cur' = [i \in Ids |-> IF cur[i].task = "run" THEN Unread(cur[i]) ELSE NoCursor]
    BY DEF Terminate
<1>2. \A k \in Ids :
        /\ task'[k] \in TaskStates /\ task'[k].job = NoJob /\ task'[k].queue = <<>>
        /\ task'[k].hnd = 0 /\ task'[k].st = (IF task[k].st = "none" THEN "none" ELSE "ended")
        /\ task[k].st = "none" => task'[k] = NoTask
  <2>1. 0 \in 0..MaxRequests /\ <<>> \in Seq(Jobs)
      BY Constants
  <2> QED BY <1>1, <2>1 DEF TaskStates, NoTask
<1>3. sending' \in Sendings /\ \A k \in Ids : sending'.k # k
    BY <1>1, Constants DEF Sendings, NotSending
<1>4. \A k \in Ids : Queued(k)' = <<>> /\ Len(Queued(k)') = 0
  <2>1. ASSUME NEW k \in Ids PROVE Queued(k)' = <<>>
    <3>1. task'[k].job = NoJob /\ task'[k].queue = <<>> /\ sending'.k # k
        BY <1>2, <1>3
    <3>2. Queued(k)' = (<<>> \o <<>>) \o <<>>
        BY <3>1 DEF Queued
    <3> QED BY <3>2
  <2> QED BY <2>1
<1>5. Numbers'
  <2>1. \A k \in Ids : TaskOK(task'[k], sending', k)
      BY <1>2, <1>3 DEF TaskOK
  <2>2. \A k \in Ids : k > received' => task'[k] = NoTask
      BY <1>1, <1>2 DEF OInv, Numbers, NoTask
  <2>3. task' \in [Ids -> TaskStates] /\ DOMAIN cur' = Ids
      BY <1>1, <1>2
  <2>4. \A k \in Ids : \A a \in 1..Len(Queued(k)') : Queued(k)'[a].i <= received'
      BY <1>4
  <2>5. /\ received' \in 0..MaxRequests
        /\ conn' \in [Ids -> [th : {"none", "up", "ended"}, inbox : Seq(Ids)]]
        /\ owner' \in [Ids -> 0..MaxRequests] /\ ran' \in [Ids -> 0..MaxRequests]
        /\ \A k \in Ids : \A p \in 1..Len(conn'[k].inbox) : conn'[k].inbox[p] <= received'
        /\ \A i \in Ids : owner'[i] # 0 => i <= received'
        /\ \A k \in Ids : ran'[k] <= received'
      BY <1>1 DEF OInv, Numbers
  <2> QED BY <1>3, <2>1, <2>2, <2>3, <2>4, <2>5 DEF Numbers
<1>6. Disjoint'
    BY <1>4 DEF Disjoint
<1>7. CursorTasks'
  <2>1. \A i \in Ids : owner'[i] = 0 => cur'[i] = NoCursor
      BY <1>1 DEF OInv, CursorTasks, NoCursor
  <2> QED BY <1>2, <2>1 DEF CursorTasks
<1>8. Ordered'
  <2>1. ASSUME NEW k \in Ids
        PROVE  OrderOK(Queued(k)', task'[k].st, conn'[k].inbox, owner', ran'[k], k)
      BY <1>1, <1>2, <1>4, StreamFacts, OrderStop
  <2> QED BY <2>1 DEF Ordered, OrderOK
<1> QED BY <1>4, <1>5, <1>6, <1>7, <1>8 DEF OInv

\* A cursor is opened: its program comes after those that were begun, and before those of
\* the requests that are queued.
LEMMA StartCursorStep ==
    ASSUME OInv, NEW k \in Ids, StartCursor(k)
    PROVE  OInv' /\ Serves(k)
<1>1. UNCHANGED <<sending, received, ran, conn>> /\ task[k].st = "run"
      /\ Job(k).r.kind = "open_cursor"
    BY DEF StartCursor, Elsewhere, history, Doing
<1>2. CASE ~task[k].db
    BY <1>1, <1>2, Answers1 DEF StartCursor
<1>3. CASE task[k].db
  <2> DEFINE j == Job(k).i
             t == [task[k] EXCEPT !.hnd = j]
             tasks == [task EXCEPT ![k].hnd = j]
             q == Tail(Queued(k))
  <2>1. Queued(k) # <<>> /\ Queued(k)[1] = Job(k) /\ j \in Ids /\ j <= received /\ Job(k) # NoJob
      BY <1>1, FirstJob
  <2>2. PICK c : /\ Finish(k, tasks, "ok") /\ cur' = [cur EXCEPT ![j] = c]
                 /\ owner' = [owner EXCEPT ![j] = k]
      BY <1>3 DEF StartCursor
  <2>3. /\ t \in TaskStates /\ t.queue = task[k].queue /\ t.tx = task[k].tx /\ t.hnd = j
        /\ t.db = task[k].db
    <3>1. j \in 0..MaxRequests
        BY <2>1, Constants
    <3> HIDE DEF j
    <3> QED BY <3>1, Untouched DEF TaskStates
  <2>4. tasks = [task EXCEPT ![k] = t]
      BY Untouched
  <2> HIDE DEF t, tasks
  <2>5. PICK u \in TaskStates :
          /\ task' = [task EXCEPT ![k] = u]
          /\ u.st = "idle" /\ u.job = NoJob /\ u.queue = t.queue /\ u.tx = t.tx
          /\ u.hnd = t.hnd /\ u.db = t.db
      BY <2>2, <2>3, <2>4, Untouched, FinishState
  <2>6. /\ task' \in [Ids -> TaskStates] /\ task'[k] = u
        /\ \A l \in Ids : l # k => task'[l] = task[l]
      BY <2>5, Untouched
  <2>7. Queued(k)' = q
    <3>1. task[k] \in TaskStates /\ sending \in Sendings
        BY Untouched, StreamFacts
    <3>2. QueuedOf(u, sending, k) = Tail(QueuedOf(task[k], sending, k))
        BY <2>1, <2>3, <2>5, <3>1, QueueFinishes DEF Job
    <3>3. Queued(k)' = QueuedOf(u, sending, k)
        BY <1>1, <2>6 DEF Queued, QueuedOf
    <3> QED BY <3>2, <3>3, StreamFacts
  <2>8. \A l \in Ids : l # k => Queued(l)' = Queued(l)
      BY <1>1, <2>6 DEF Queued
  <2>9. \A l \in Ids : \A a \in 1..Len(Queued(l)') :
            \E b \in 1..Len(Queued(l)) : Queued(l)'[a].i = Queued(l)[b].i
    <3>1. \A a \in 1..Len(q) : \E b \in 1..Len(Queued(k)) : q[a].i = Queued(k)[b].i
        BY <2>1, StreamFacts, TailElements
    <3> HIDE DEF q
    <3>2. ASSUME NEW l \in Ids, NEW a \in 1..Len(Queued(l)')
          PROVE  \E b \in 1..Len(Queued(l)) : Queued(l)'[a].i = Queued(l)[b].i
      <4>1. CASE l = k
          BY <2>7, <3>1, <3>2, <4>1
      <4>2. CASE l # k
          BY <2>8, <3>2, <4>2
      <4> QED BY <4>1, <4>2
    <3> QED BY <3>2
  <2> HIDE DEF q, j
  <2>10. /\ owner' \in [Ids -> 0..MaxRequests]
         /\ \A i \in Ids : owner'[i] = IF i = j THEN k ELSE owner[i]
    <3>1. k \in 0..MaxRequests
        BY Constants
    <3> QED BY <2>1, <2>2, <3>1, Untouched
  <2>11. Numbers'
    <3>1. \A l \in Ids : TaskOK(task'[l], sending', l)
      <4>1. TaskOK(u, sending, k)
          BY <2>5 DEF TaskOK
      <4>2. \A l \in Ids : TaskOK(task[l], sending, l)
          BY DEF OInv, Numbers
      <4> QED BY <1>1, <2>6, <4>1, <4>2
    <3>2. \A l \in Ids : l > received' => task'[l] = NoTask
      <4>1. k <= received
        <5>1. NoTask.st = "none"
            BY DEF NoTask
        <5> QED BY <1>1, <5>1, Constants DEF OInv, Numbers
      <4>2. ASSUME NEW l \in Ids, l > received PROVE l # k
        <5>1. received \in Nat /\ l \in Nat /\ k \in Nat
            BY Constants DEF OInv, Numbers
        <5> QED BY <4>1, <4>2, <5>1
      <4> QED BY <1>1, <2>6, <4>2 DEF OInv, Numbers
    <3>3. \A l \in Ids : \A a \in 1..Len(Queued(l)') : Queued(l)'[a].i <= received'
      <4>1. \A l \in Ids : \A a \in 1..Len(Queued(l)) : Queued(l)[a].i <= received
          BY DEF OInv, Numbers
      <4>2. received' = received
          BY <1>1
      <4> QED BY <2>9, <4>1, <4>2
    <3>4. \A i \in Ids : owner'[i] # 0 => i <= received'
        BY <1>1, <2>1, <2>10 DEF OInv, Numbers
    <3>5. /\ received' \in 0..MaxRequests /\ sending' \in Sendings
          /\ conn' \in [Ids -> [th : {"none", "up", "ended"}, inbox : Seq(Ids)]]
          /\ ran' \in [Ids -> 0..MaxRequests]
          /\ \A l \in Ids : \A p \in 1..Len(conn'[l].inbox) : conn'[l].inbox[p] <= received'
          /\ \A l \in Ids : ran'[l] <= received'
        BY <1>1 DEF OInv, Numbers
    <3>6. DOMAIN cur' = Ids
        BY <2>2, Untouched
    <3> QED BY <2>6, <2>10, <3>1, <3>2, <3>3, <3>4, <3>5, <3>6 DEF Numbers
  <2>12. Disjoint'
    <3>1. ASSUME NEW l \in Ids, NEW m \in Ids, NEW a \in 1..Len(Queued(l)'),
                 NEW b \in 1..Len(Queued(m)'), Queued(l)'[a].i = Queued(m)'[b].i
          PROVE  l = m
        BY <2>9, <3>1 DEF OInv, Disjoint
    <3> QED BY <3>1 DEF Disjoint
  <2>13. CursorTasks'
    <3>1. k # 0
        BY Constants
    <3>2. ASSUME NEW i \in Ids, owner'[i] = 0 PROVE cur'[i] = NoCursor
      <4>1. i # j /\ owner[i] = 0
          BY <2>10, <3>1, <3>2
      <4> QED BY <2>1, <2>2, <4>1, Untouched
    <3>3. ASSUME NEW l \in Ids, task'[l].hnd # 0 PROVE owner'[task'[l].hnd] # 0
      <4>1. CASE l = k
          BY <2>1, <2>3, <2>5, <2>6, <2>10, <3>1, <4>1
      <4>2. CASE l # k
        <5>1. task[l].hnd \in Ids /\ owner[task[l].hnd] # 0 /\ task'[l].hnd = task[l].hnd
          <6>1. task[l].hnd \in 0..MaxRequests /\ task'[l].hnd = task[l].hnd
              BY <2>6, <4>2, Untouched DEF TaskStates
          <6> QED BY <3>3, <6>1, Untouched, Constants
        <5> QED BY <2>10, <3>1, <5>1
      <4> QED BY <4>1, <4>2
    <3> QED BY <3>2, <3>3 DEF CursorTasks
  <2>14. Ordered'
    <3>1. ASSUME NEW l \in Ids
          PROVE  OrderOK(Queued(l)', task'[l].st, conn'[l].inbox, owner', ran'[l], l)
      <4>1. CASE l = k
        <5>1. owner' = [owner EXCEPT ![Queued(k)[1].i] = k]
            BY <2>1, <2>2 DEF j
        <5>2. OrderOK(q, "idle", conn[k].inbox, owner', ran[k], k)
            BY <1>1, <2>1, <5>1, StreamFacts, OrderOpen DEF q
        <5> QED BY <1>1, <2>5, <2>6, <2>7, <4>1, <5>2
      <4>2. CASE l # k
        <5>1. \A a \in 1..Len(Queued(l)) : Queued(l)[a].i # j
          <6>1. 1 \in 1..Len(Queued(k)) /\ Queued(k)[1].i = j
              BY <2>1, StreamFacts, OrderElements DEF j
          <6> QED BY <4>2, <6>1 DEF OInv, Disjoint
        <5>2. OrderOK(Queued(l), task[l].st, conn[l].inbox, owner', ran[l], l)
            BY <2>1, <2>2, <4>2, <5>1, StreamFacts, OrderOpenElsewhere
        <5> QED BY <1>1, <2>6, <2>8, <4>2, <5>2
      <4> QED BY <4>1, <4>2
    <3> QED BY <3>1 DEF Ordered, OrderOK
  <2>15. OInv'
      BY <2>11, <2>12, <2>13, <2>14 DEF OInv
  <2>16. Effect(Queued(k)[1].r.kind, task[k], task'[k])
    <3>1. task'[k].hnd # 0 /\ task'[k].db = task[k].db
        BY <2>1, <2>3, <2>5, <2>6, Constants
    <3> QED BY <1>1, <2>1, <3>1 DEF Effect
  <2> QED BY <2>1, <2>3, <2>5, <2>6, <2>7, <2>8, <2>15, <2>16 DEF Serves, q
<1> QED BY <1>2, <1>3

-----------------------------------------------------------------------------
(* The session. *)

\* The first thing that is queued is what the stream was opened with.
Fresh(q) == q # <<>> /\ q[1].r.kind = "open_stream"

CursorIds == {r.cursor : r \in {r \in Requests : r.kind = "open_cursor"}}

\* The streams and the cursors that the session has refer to each other, and to a task
\* that runs; a stream's task will hold a cursor as the session has it, provided it has a
\* connection or is about to get one. Only a stream's first job opens it.
StreamOK(s) ==
    /\ streams[s] \in [task : Ids, cursor_id : {NoId} \cup CursorIds]
    /\ streams[s].task <= received
    /\ task[streams[s].task].st \in {"idle", "run", "waiting"} /\ task[streams[s].task].tx
    /\ streams[s].cursor_id # NoId =>
        streams[s].cursor_id \in DOMAIN cursors /\ cursors[streams[s].cursor_id] = s
    /\ task[streams[s].task].db \/ Fresh(Queued(streams[s].task)) =>
        (streams[s].cursor_id # NoId
            <=> CursorAfter(Queued(streams[s].task), task[streams[s].task].hnd # 0))
OwnTasks == \A s, t \in DOMAIN streams : streams[s].task = streams[t].task => s = t
CursorsOK ==
    \A c \in DOMAIN cursors :
        c # NoId /\ cursors[c] \in DOMAIN streams /\ streams[cursors[c]].cursor_id = c
OpensOnce ==
    \A k \in Ids : \A a \in 1..Len(Queued(k)) :
        Queued(k)[a].r.kind = "open_stream" => a = 1
Session ==
    /\ streams = [s \in DOMAIN streams |-> streams[s]]
    /\ \A s \in DOMAIN streams : StreamOK(s)
    /\ OwnTasks /\ CursorsOK /\ OpensOnce

\* The kind of a job decides what it does to the cursor.
LEMMA CursorAppend ==
    ASSUME NEW q \in Seq(Jobs), NEW j \in Jobs, NEW held \in BOOLEAN
    PROVE  /\ j.r.kind = "open_cursor" => CursorAfter(Append(q, j), held)
           /\ j.r.kind = "close_cursor" => ~CursorAfter(Append(q, j), held)
           /\ j.r.kind \notin {"open_cursor", "close_cursor"} =>
                (CursorAfter(Append(q, j), held) <=> CursorAfter(q, held))
<1> DEFINE r == Append(q, j)
           n == Len(q) + 1
<1>1. /\ n \in Nat /\ Len(q) \in Nat /\ r[n] = j /\ \A a \in 1..Len(q) : r[a] = q[a]
      /\ Len(r) = n /\ DOMAIN r = 1..n /\ DOMAIN q = 1..Len(q)
    BY AppendProperties, LenProperties
<1> HIDE DEF r
<1>2. ASSUME NEW a \in 1..n PROVE (a \in 1..Len(q) /\ r[a] = q[a]) \/ (a = n /\ r[a] = j)
    BY <1>1
<1>3. \A p : CursorAfter(r, held) <=>
        \E p1 \in {i \in 1..n : r[i].r.kind = "open_cursor"} \cup (IF held THEN {0} ELSE {}) :
            \A i \in 1..n : r[i].r.kind = "close_cursor" => i < p1
    BY <1>1 DEF CursorAfter
<1>4. CursorAfter(q, held) <=>
        \E p1 \in {i \in 1..Len(q) : q[i].r.kind = "open_cursor"} \cup (IF held THEN {0} ELSE {}) :
            \A i \in 1..Len(q) : q[i].r.kind = "close_cursor" => i < p1
    BY <1>1 DEF CursorAfter
<1>5. ASSUME j.r.kind = "open_cursor" PROVE CursorAfter(r, held)
  <2>1. \A i \in 1..n : r[i].r.kind = "close_cursor" => i < n
      BY <1>1, <1>2, <1>5
  <2>2. n \in {i \in 1..n : r[i].r.kind = "open_cursor"}
      BY <1>1, <1>5
  <2> QED BY <1>3, <2>1, <2>2
<1>6. ASSUME j.r.kind = "close_cursor" PROVE ~CursorAfter(r, held)
  <2>1. \A p \in {i \in 1..n : r[i].r.kind = "open_cursor"} \cup {0} : ~(n < p) /\ r[n].r.kind = "close_cursor"
      BY <1>1, <1>6
  <2> QED BY <1>1, <1>3, <2>1
<1>7. ASSUME j.r.kind \notin {"open_cursor", "close_cursor"}
      PROVE  CursorAfter(r, held) <=> CursorAfter(q, held)
  <2>1. {i \in 1..n : r[i].r.kind = "open_cursor"} = {i \in 1..Len(q) : q[i].r.kind = "open_cursor"}
      BY <1>1, <1>2, <1>7
  <2>2. \A p : (\A i \in 1..n : r[i].r.kind = "close_cursor" => i < p)
               <=> (\A i \in 1..Len(q) : q[i].r.kind = "close_cursor" => i < p)
      BY <1>1, <1>2, <1>7
  <2> QED BY <1>3, <1>4, <2>1, <2>2
<1> QED BY <1>5, <1>6, <1>7 DEF r

\* What that is for the job that is done.
LEMMA CursorTail ==
    ASSUME NEW q \in Seq(Jobs), q # <<>>, NEW held \in BOOLEAN
    PROVE  /\ q[1].r.kind = "open_cursor" => (CursorAfter(q, held) <=> CursorAfter(Tail(q), TRUE))
           /\ q[1].r.kind = "close_cursor" =>
                (CursorAfter(q, held) <=> CursorAfter(Tail(q), FALSE))
           /\ q[1].r.kind \notin {"open_cursor", "close_cursor"} =>
                (CursorAfter(q, held) <=> CursorAfter(Tail(q), held))
<1> DEFINE r == Tail(q)
           n == Len(q)
           m == Len(r)
<1>1. /\ n \in Nat /\ n >= 1 /\ m = n - 1 /\ m \in Nat /\ DOMAIN r = 1..m /\ DOMAIN q = 1..n
      /\ \A a \in 1..m : a + 1 \in 1..n /\ r[a] = q[a + 1]
    BY TailElements, HeadTailProperties, LenProperties, EmptySeq
<1> HIDE DEF r, n, m
<1>2. ASSUME NEW a \in 1..n PROVE a = 1 \/ (a - 1 \in 1..m /\ r[a - 1] = q[a])
  <2>1. a # 1 => a - 1 \in 1..m /\ (a - 1) + 1 = a
      BY <1>1
  <2> QED BY <1>1, <2>1
<1> DEFINE Last0(h) == \E p \in 0..m : (p = 0 => h) /\ (p # 0 => r[p].r.kind = "open_cursor")
                        /\ \A i \in 1..m : r[i].r.kind = "close_cursor" => i < p
<1>3. \A h \in BOOLEAN : CursorAfter(r, h) <=> Last0(h)
  <2>1. ASSUME NEW h \in BOOLEAN PROVE CursorAfter(r, h) <=> Last0(h)
    <3>1. {i \in DOMAIN r : r[i].r.kind = "open_cursor"} \cup (IF h THEN {0} ELSE {})
            = {p \in 0..m : (p = 0 => h) /\ (p # 0 => r[p].r.kind = "open_cursor")}
        BY <1>1
    <3> QED BY <1>1, <3>1 DEF CursorAfter
  <2> QED BY <2>1
<1> DEFINE Last1(h) == \E p \in 0..n : (p = 0 => h) /\ (p # 0 => q[p].r.kind = "open_cursor")
                        /\ \A i \in 1..n : q[i].r.kind = "close_cursor" => i < p
<1>4. CursorAfter(q, held) <=> Last1(held)
  <2>1. {i \in DOMAIN q : q[i].r.kind = "open_cursor"} \cup (IF held THEN {0} ELSE {})
            = {p \in 0..n : (p = 0 => held) /\ (p # 0 => q[p].r.kind = "open_cursor")}
      BY <1>1
  <2> QED BY <1>1, <2>1 DEF CursorAfter
<1>5. ASSUME NEW h \in BOOLEAN, q[1].r.kind = "open_cursor" => h,
             q[1].r.kind = "close_cursor" => ~h,
             q[1].r.kind \notin {"open_cursor", "close_cursor"} => h = held
      PROVE  Last1(held) <=> Last0(h)
  <2>1. ASSUME NEW p \in 0..n, (p = 0 => held) /\ (p # 0 => q[p].r.kind = "open_cursor"),
               \A i \in 1..n : q[i].r.kind = "close_cursor" => i < p
        PROVE  Last0(h)
    <3>1. \A x \in 0..m : (x = p - 1 \/ (p = 0 /\ x = 0)) =>
              \A i \in 1..m : r[i].r.kind = "close_cursor" => i < x
      <4>1. ASSUME NEW i \in 1..m, r[i].r.kind = "close_cursor" PROVE i + 1 < p
          BY <1>1, <2>1, <4>1
      <4> QED BY <4>1
    <3>2. 1 \in 1..n
        BY <1>1
    <3>3. CASE p = 0
      <4>1. q[1].r.kind # "close_cursor"
          BY <1>1, <2>1, <3>2, <3>3
      <4>2. h
          BY <1>5, <2>1, <3>3, <4>1
      <4>3. 0 \in 0..m
          BY <1>1
      <4>4. \A i \in 1..m : r[i].r.kind = "close_cursor" => i < 0
          BY <3>1, <3>3, <4>3
      <4> QED BY <4>2, <4>3, <4>4
    <3>4. CASE p = 1
      <4>1. h /\ p - 1 = 0
          BY <1>5, <2>1, <3>4
      <4> QED BY <1>1, <3>1, <4>1
    <3>5. CASE p # 0 /\ p # 1
      <4>1. p - 1 \in 1..m /\ p - 1 # 0 /\ r[p - 1] = q[p]
          BY <1>1, <1>2, <3>5
      <4>2. r[p - 1].r.kind = "open_cursor" /\ p - 1 \in 0..m
          BY <2>1, <3>5, <4>1
      <4> QED BY <3>1, <4>1, <4>2
    <3> QED BY <3>3, <3>4, <3>5
  <2>2. ASSUME NEW p \in 0..m, (p = 0 => h) /\ (p # 0 => r[p].r.kind = "open_cursor"),
               \A i \in 1..m : r[i].r.kind = "close_cursor" => i < p
        PROVE  Last1(held)
    <3>1. \A i \in 1..n : q[i].r.kind = "close_cursor" => i = 1 \/ i < p + 1
      <4>1. ASSUME NEW i \in 1..n, q[i].r.kind = "close_cursor", i # 1 PROVE i < p + 1
        <5>1. i - 1 \in 1..m /\ r[i - 1] = q[i]
            BY <1>2, <4>1
        <5>2. i - 1 < p
            BY <2>2, <4>1, <5>1
        <5> QED BY <5>2
      <4> QED BY <4>1
    <3>2. CASE p # 0
      <4>1. p + 1 \in 0..n /\ p + 1 # 0 /\ 1 < p + 1 /\ q[p + 1].r.kind = "open_cursor"
          BY <1>1, <2>2, <3>2
      <4>2. \A i \in 1..n : q[i].r.kind = "close_cursor" => i < p + 1
          BY <3>1, <4>1
      <4> QED BY <4>1, <4>2
    <3>3. CASE p = 0 /\ q[1].r.kind = "open_cursor"
      <4>1. 1 \in 0..n /\ 1 # 0 /\ q[1].r.kind = "open_cursor"
          BY <1>1, <3>3
      <4>2. \A i \in 1..n : q[i].r.kind = "close_cursor" => i < 1
          BY <3>1, <3>3
      <4> QED BY <4>1, <4>2
    <3>4. CASE p = 0 /\ q[1].r.kind # "open_cursor"
      <4>1. h /\ held /\ q[1].r.kind # "close_cursor"
          BY <1>5, <2>2, <3>4
      <4>2. \A i \in 1..n : q[i].r.kind = "close_cursor" => i < 0
          BY <3>1, <3>4, <4>1
      <4>3. 0 \in 0..n
          BY <1>1
      <4> QED BY <4>1, <4>2, <4>3
    <3> QED BY <3>2, <3>3, <3>4
  <2> QED BY <2>1, <2>2
<1> HIDE DEF Last0, Last1
<1>6. CursorAfter(q, held) <=> CursorAfter(r, CASE q[1].r.kind = "open_cursor" -> TRUE
                                               [] q[1].r.kind = "close_cursor" -> FALSE
                                               [] OTHER -> held)
    BY <1>3, <1>4, <1>5
<1> QED BY <1>6 DEF r

\* What the session has of a stream depends on what is queued for it and on the state of
\* its task.
LEMMA SameStream ==
    ASSUME OInv, Session, NEW s \in DOMAIN streams, UNCHANGED <<streams, cursors>>,
           received' \in Nat, received <= received', NEW k, k = streams[s].task,
           Queued(k)' = Queued(k), task'[k].st \in {"idle", "run", "waiting"},
           task'[k].tx = task[k].tx, task'[k].hnd = task[k].hnd, task'[k].db = task[k].db
    PROVE  StreamOK(s)'
<1>1. k \in Ids /\ k <= received /\ StreamOK(s)
    BY DEF Session, StreamOK
<1>2. k <= received'
    BY <1>1, Constants DEF OInv, Numbers
<1> QED BY <1>1, <1>2 DEF StreamOK

\* A step of a task keeps the session in agreement with it.
LEMMA ServesSession ==
    ASSUME OInv, Session, NEW k \in Ids, Serves(k), UNCHANGED <<streams, cursors, received>>
    PROVE  Session'
<1>0. Queued(k) \in Seq(Jobs) /\ task[k] \in TaskStates
    BY StreamFacts
<1>1. Queued(k) \in Seq(Jobs) /\ task[k] \in TaskStates /\ received \in Nat
  <2>1. received \in Nat
      BY Constants DEF OInv, Numbers
  <2> QED BY <1>0, <2>1
<1>2. ASSUME NEW s \in DOMAIN streams, streams[s].task = k PROVE StreamOK(s)'
  <2>1. CASE Queued(k)' = Queued(k) /\ task'[k].hnd = task[k].hnd /\ task'[k].db = task[k].db
      BY <1>1, <1>2, <2>1, SameStream DEF Serves
  <2>2. CASE /\ Queued(k) # <<>> /\ Queued(k)' = Tail(Queued(k))
             /\ Effect(Queued(k)[1].r.kind, task[k], task'[k])
    <3> DEFINE q == Queued(k)
               c == q[1].r.kind
               held == task[k].hnd # 0
               held2 == task'[k].hnd # 0
    <3>1. ~Fresh(Tail(q))
      <4>1. ASSUME Fresh(Tail(q)) PROVE FALSE
        <5>1. Tail(q) \in Seq(Jobs) /\ Len(Tail(q)) \in Nat /\ Tail(q) # <<>>
            BY <1>1, <2>2, <4>1, TailElements DEF Fresh
        <5>2. 1 \in 1..Len(Tail(q))
            BY <5>1, EmptySeq
        <5>3. 1 + 1 \in 1..Len(q) /\ Tail(q)[1] = q[1 + 1]
            BY <1>1, <2>2, <5>2, TailElements
        <5>4. q[1 + 1].r.kind = "open_stream"
            BY <4>1, <5>3 DEF Fresh
        <5>5. 1 + 1 = 1
            BY <5>3, <5>4 DEF Session, OpensOnce
        <5> QED BY <5>5
      <4> QED BY <4>1
    <3>2. ASSUME task'[k].db
          PROVE  streams[s].cursor_id # NoId <=> CursorAfter(Tail(q), held2)
      <4>1. task[k].db \/ Fresh(q)
          BY <2>2, <3>2 DEF Effect, Fresh
      <4>2. streams[s].cursor_id # NoId <=> CursorAfter(q, held)
          BY <1>2, <4>1 DEF Session, StreamOK
      <4>3. CASE c = "open_cursor"
        <5>1. held2
            BY <2>2, <3>2, <4>3 DEF Effect
        <5>2. CursorAfter(q, held) <=> CursorAfter(Tail(q), TRUE)
            BY <1>1, <2>2, <4>3, CursorTail
        <5> QED BY <4>2, <5>1, <5>2
      <4>4. CASE c = "close_cursor"
        <5>1. ~held2
            BY <2>2, <4>4 DEF Effect
        <5>2. CursorAfter(q, held) <=> CursorAfter(Tail(q), FALSE)
            BY <1>1, <2>2, <4>4, CursorTail
        <5> QED BY <4>2, <5>1, <5>2
      <4>5. CASE c \notin {"open_cursor", "close_cursor"}
        <5>1. held2 <=> held
            BY <2>2, <4>5 DEF Effect
        <5>2. CursorAfter(q, held) <=> CursorAfter(Tail(q), held)
            BY <1>1, <2>2, <4>5, CursorTail
        <5> QED BY <4>2, <5>1, <5>2
      <4> QED BY <4>3, <4>4, <4>5
    <3> HIDE DEF held2
    <3>3. StreamOK(s)
        BY DEF Session
    <3> QED BY <1>2, <2>2, <3>1, <3>2, <3>3 DEF StreamOK, Serves, held2
  <2> QED BY <2>1, <2>2 DEF Serves
<1>3. ASSUME NEW s \in DOMAIN streams, streams[s].task # k PROVE StreamOK(s)'
  <2>1. streams[s].task \in Ids /\ StreamOK(s)
      BY DEF Session, StreamOK
  <2>2. task'[streams[s].task] = task[streams[s].task]
        /\ Queued(streams[s].task)' = Queued(streams[s].task)
      BY <1>3, <2>1 DEF Serves
  <2> QED BY <2>1, <2>2 DEF StreamOK
<1>4. OpensOnce'
  <2>1. ASSUME NEW l \in Ids, NEW a \in 1..Len(Queued(l)'), Queued(l)'[a].r.kind = "open_stream"
        PROVE  a = 1
    <3>1. CASE Queued(l)' = Queued(l)
        BY <2>1, <3>1 DEF Session, OpensOnce
    <3>2. CASE l = k /\ Queued(k) # <<>> /\ Queued(k)' = Tail(Queued(k))
      <4>1. a + 1 \in 1..Len(Queued(k)) /\ Tail(Queued(k))[a] = Queued(k)[a + 1]
          BY <1>1, <2>1, <3>2, TailElements
      <4>2. a + 1 = 1
          BY <2>1, <3>2, <4>1 DEF Session, OpensOnce
      <4> QED BY <4>2
    <3> QED BY <3>1, <3>2 DEF Serves
  <2> QED BY <2>1 DEF OpensOnce
<1> QED BY <1>2, <1>3, <1>4 DEF Session, OwnTasks, CursorsOK

\* What the session has checked of a request that it queues.
LEMMA Accepted ==
    ASSUME NEW r, Refusal(r) = "ok"
    PROVE  /\ r.kind = "open_stream" => r.stream \notin DOMAIN streams
           /\ r.kind = "close_stream" \/ r.kind \in OnConnection => r.stream \in DOMAIN streams
           /\ r.kind = "open_cursor" =>
                /\ r.stream \in DOMAIN streams /\ streams[r.stream].cursor_id = NoId
                /\ r.cursor \notin DOMAIN cursors
           /\ r.kind \in {"close_cursor", "fetch_cursor"} => r.cursor \in DOMAIN cursors
<1>1. \A b, e : fatalIf(b, e) = "ok" => ~b
    BY DEF fatalIf
<1> DEFINE unknown == r.stream \notin DOMAIN streams
           taken == unknown \/ streams[r.stream].cursor_id # NoId \/ r.cursor \in DOMAIN cursors
<1>2. ASSUME r.kind = "open_stream" PROVE fatalIf(~unknown, "ok") = "ok"
    BY <1>2, Kinds DEF Refusal, OnConnection
<1>3. ASSUME r.kind = "close_stream" PROVE fatalIf(unknown, "ok") = "ok"
    BY <1>3, Kinds DEF Refusal, OnConnection
<1>4. ASSUME r.kind \in OnConnection PROVE \E e : fatalIf(unknown, e) = "ok"
    BY <1>4, Kinds DEF Refusal, OnConnection
<1>5. ASSUME r.kind = "open_cursor" PROVE \E e : fatalIf(taken, e) = "ok"
    BY <1>5, Kinds DEF Refusal, OnConnection
<1>6. ASSUME r.kind \in {"close_cursor", "fetch_cursor"}
      PROVE  fatalIf(r.cursor \notin DOMAIN cursors, "ok") = "ok"
    BY <1>6, Kinds DEF Refusal, OnConnection
<1> QED BY <1>1, <1>2, <1>3, <1>4, <1>5, <1>6

\* What the session has of stream s when request r was queued for its task.
LEMMA AppendStream ==
    ASSUME OInv, Session, NEW r \in Requests, NEW u, NEW k \in Ids, Enqueues(k, u, r),
           r.kind # "open_stream", NEW s \in DOMAIN streams, streams[s].task = k,
           u.tx /\ u.db = task[k].db,
           s \in DOMAIN streams', streams'[s] \in [task : Ids, cursor_id : {NoId} \cup CursorIds],
           streams'[s].task = k,
           streams'[s].cursor_id # NoId =>
                streams'[s].cursor_id \in DOMAIN cursors' /\ cursors'[streams'[s].cursor_id] = s,
           streams'[s].cursor_id # NoId <=>
                \/ r.kind = "open_cursor"
                \/ r.kind # "close_cursor" /\ streams[s].cursor_id # NoId
    PROVE  StreamOK(s)'
<1> DEFINE j == [i |-> received + 1, r |-> r]
           q == Queued(k)
<1>1. /\ Queued(k)' = Append(q, j) /\ task'[k].st = u.st /\ task'[k].tx = u.tx
      /\ task'[k].db = u.db /\ task'[k].hnd = u.hnd
    BY Appends, ZenonT(30)
<1>2. j \in Jobs /\ q \in Seq(Jobs) /\ j.r = r
  <2>1. received + 1 \in Ids
      BY Constants DEF Enqueues, OInv, Numbers
  <2> QED BY <2>1, StreamFacts DEF Jobs
<1>3. StreamOK(s) /\ u.hnd = task[k].hnd /\ u.st \in {"idle", "run", "waiting"}
    BY DEF Session, Enqueues, TaskStates
<1>4. k <= received'
  <2>1. k <= received /\ received \in Int /\ received' = received + 1 /\ k \in Int
      BY <1>3, Constants DEF StreamOK, Enqueues, OInv, Numbers
  <2> QED BY <2>1
<1>5. Fresh(Append(q, j)) => Fresh(q)
  <2>1. CASE q = <<>>
    <3>1. Append(q, j)[1] = j
        BY <1>2, <2>1, AppendProperties
    <3> QED BY <1>2, <3>1 DEF Fresh
  <2>2. CASE q # <<>>
    <3>1. 1 \in 1..Len(q)
        BY <1>2, <2>2, EmptySeq, LenProperties
    <3>2. Append(q, j)[1] = q[1]
        BY <1>2, <3>1, AppendProperties
    <3> QED BY <2>2, <3>2 DEF Fresh
  <2> QED BY <2>1, <2>2
<1>6. CursorAfter(Append(q, j), task[k].hnd # 0) <=>
        \/ r.kind = "open_cursor"
        \/ r.kind # "close_cursor" /\ CursorAfter(q, task[k].hnd # 0)
    BY <1>2, CursorAppend
<1>7. task[k].db \/ Fresh(q) => (streams[s].cursor_id # NoId <=> CursorAfter(q, task[k].hnd # 0))
    BY <1>3 DEF StreamOK
<1> HIDE DEF q, j
<1>8. task'[k].db \/ Fresh(Queued(k)') =>
        (streams'[s].cursor_id # NoId <=> CursorAfter(Queued(k)', task'[k].hnd # 0))
    BY <1>1, <1>3, <1>5, <1>6, <1>7
<1> QED BY <1>1, <1>3, <1>4, <1>8 DEF StreamOK

\* What it has of the other streams.
LEMMA OtherStream ==
    ASSUME OInv, Session, NEW k \in Ids, Apart(k), NEW s \in DOMAIN streams,
           streams[s].task # k, s \in DOMAIN streams', streams'[s] = streams[s],
           streams[s].cursor_id # NoId =>
                /\ streams[s].cursor_id \in DOMAIN cursors'
                /\ cursors'[streams[s].cursor_id] = cursors[streams[s].cursor_id]
    PROVE  StreamOK(s)'
<1>1. StreamOK(s)
    BY DEF Session
<1>2. PICK l \in Ids : l = streams[s].task /\ l # k
    BY <1>1 DEF StreamOK
<1>3. task'[l] = task[l]
    BY <1>2 DEF Apart
<1>4. Queued(l)' = Queued(l)
    BY <1>2, OtherQueues
<1>5. l <= received'
  <2>1. l <= received /\ received' \in received..MaxRequests /\ received \in Int
      BY <1>1, <1>2, Constants DEF StreamOK, Apart, OInv, Numbers
  <2> QED BY <2>1, Constants
<1> QED BY <1>1, <1>3, <1>4, <1>5, <1>2 DEF StreamOK

\* Only an open_stream request opens a stream, and nothing is queued before it.
LEMMA AppendOpens ==
    ASSUME OInv, Session, NEW r \in Requests, NEW u, NEW k \in Ids, Enqueues(k, u, r),
           r.kind = "open_stream" => Queued(k) = <<>>
    PROVE  OpensOnce'
<1> DEFINE j == [i |-> received + 1, r |-> r]
           q == Queued(k)
<1>1. Queued(k)' = Append(q, j) /\ Apart(k)
    BY Appends
<1>2. j \in Jobs /\ q \in Seq(Jobs) /\ j.r = r
  <2>1. received + 1 \in Ids
      BY Constants DEF Enqueues, OInv, Numbers
  <2> QED BY <2>1, StreamFacts DEF Jobs
<1>3. ASSUME NEW l \in Ids, NEW a \in 1..Len(Queued(l)'), Queued(l)'[a].r.kind = "open_stream"
      PROVE  a = 1
  <2>1. CASE l # k
      BY <1>1, <1>3, <2>1, OtherQueues DEF Session, OpensOnce
  <2>2. CASE l = k
    <3> HIDE DEF j
    <3>1. /\ Len(Append(q, j)) = Len(q) + 1 /\ Len(q) \in Nat
          /\ \A b \in 1..Len(q) : Append(q, j)[b] = q[b]
          /\ Append(q, j)[Len(q) + 1] = j
        BY <1>2, AppendProperties, LenProperties
    <3>2. CASE a \in 1..Len(q)
        BY <1>1, <1>3, <2>2, <3>1, <3>2 DEF Session, OpensOnce
    <3>3. CASE a = Len(q) + 1
      <4>1. r.kind = "open_stream"
          BY <1>1, <1>2, <1>3, <2>2, <3>1, <3>3
      <4> QED BY <3>3, <4>1
    <3> QED BY <1>1, <1>3, <2>2, <3>1, <3>2, <3>3
  <2> QED BY <2>1, <2>2
<1> QED BY <1>3 DEF OpensOnce

\* A request is queued for a stream that the session has.
LEMMA QueueOn ==
    ASSUME OInv, Session, NEW r \in Requests, NEW s \in DOMAIN streams, NEW k, k = streams[s].task,
           Accepts(r, r.kind), Queue(k, task, r), UNCHANGED <<cur, owner, conn>>
    PROVE  /\ k \in Ids /\ Enqueues(k, task[k], r) /\ task[k].tx
           /\ OInv' /\ Apart(k)
<1>1. /\ k \in Ids /\ k <= received /\ task[k].st \in {"idle", "run", "waiting"} /\ task[k].tx
    BY DEF Session, StreamOK
<1>2. sending = NotSending /\ received < MaxRequests /\ received' = received + 1 /\ ran' = ran
    BY DEF Accepts, Receive, Receiving, Selecting
<1>3. k <= received + 1
    BY <1>1, Constants DEF OInv, Numbers
<1>4. task = [task EXCEPT ![k] = task[k]]
    BY <1>1, Untouched
<1>5. Queue(k, [task EXCEPT ![k] = task[k]], r)
    BY <1>4
<1>6. Enqueues(k, task[k], r)
    BY <1>1, <1>2, <1>3, <1>5, Untouched DEF Enqueues
<1> QED BY <1>1, <1>6, Appends

\* Requests that do not open or close anything.
LEMMA PlainRequest ==
    ASSUME OInv, Session, NEW r \in Requests, NEW s \in DOMAIN streams,
           Accepts(r, r.kind), Queue(streams[s].task, task, r), UNCHANGED <<cur, owner, conn>>,
           r.kind \notin {"open_stream", "open_cursor", "close_cursor"},
           UNCHANGED <<streams, cursors>>
    PROVE  OInv' /\ Session'
<1>1. PICK k : k = streams[s].task
    OBVIOUS
<1>2. k \in Ids /\ Enqueues(k, task[k], r) /\ task[k].tx /\ OInv' /\ Apart(k)
    BY <1>1, QueueOn
<1>3. ASSUME NEW x \in DOMAIN streams PROVE StreamOK(x)'
  <2>1. StreamOK(x)
      BY DEF Session
  <2>2. CASE streams[x].task = k
      BY <1>2, <2>1, <2>2, AppendStream DEF StreamOK
  <2>3. CASE streams[x].task # k
      BY <1>2, <2>1, <2>3, OtherStream DEF StreamOK
  <2> QED BY <2>2, <2>3
<1>4. OpensOnce'
    BY <1>2, AppendOpens
<1> QED BY <1>2, <1>3, <1>4 DEF Session, OwnTasks, CursorsOK

\* Requests that run a program leave the session alone.
LEMMA ExecuteStep ==
    ASSUME OInv, Session, NEW r \in Requests, Execute(r)
    PROVE  OInv' /\ Session'
<1>1. /\ r.kind \in OnConnection /\ Refusal(r) = "ok" /\ Accepts(r, r.kind)
      /\ Queue(streams[r.stream].task, task, r) /\ UNCHANGED <<cur, owner, conn, streams, cursors>>
    BY DEF Execute, Accepts, sessionVars
<1>2. r.stream \in DOMAIN streams
    BY <1>1, Accepted
<1> QED BY <1>1, <1>2, PlainRequest, Kinds

\* fetch_cursor leaves the session alone.
LEMMA FetchCursorStep ==
    ASSUME OInv, Session, NEW r \in Requests, FetchCursor(r)
    PROVE  OInv' /\ Session'
<1>1. /\ r.kind = "fetch_cursor" /\ Refusal(r) = "ok" /\ Accepts(r, r.kind)
      /\ Queue(streams[cursors[r.cursor]].task, task, r)
      /\ UNCHANGED <<cur, owner, conn, streams, cursors>>
    BY DEF FetchCursor, Accepts, sessionVars
<1>2. r.cursor \in DOMAIN cursors
    BY <1>1, Accepted
<1>3. cursors[r.cursor] \in DOMAIN streams
    BY <1>2 DEF Session, CursorsOK
<1> QED BY <1>1, <1>3, PlainRequest

\* open_cursor gives a cursor to a stream that has none.
LEMMA OpenCursorStep ==
    ASSUME OInv, Session, NEW r \in Requests, OpenCursorOn(r)
    PROVE  OInv' /\ Session'
<1> DEFINE s == r.stream
<1>1. /\ r.kind = "open_cursor" /\ Refusal(r) = "ok" /\ Accepts(r, r.kind)
      /\ Queue(streams[s].task, task, r) /\ UNCHANGED <<cur, owner, conn>>
      /\ cursors' = With(cursors, r.cursor, s)
      /\ streams' = [streams EXCEPT ![s].cursor_id = r.cursor]
    BY DEF OpenCursorOn, Accepts
<1>2. s \in DOMAIN streams /\ streams[s].cursor_id = NoId /\ r.cursor \notin DOMAIN cursors
    BY <1>1, Accepted
<1>3. PICK k : k = streams[s].task
    OBVIOUS
<1>4. k \in Ids /\ Enqueues(k, task[k], r) /\ task[k].tx /\ OInv' /\ Apart(k)
    BY <1>1, <1>2, <1>3, QueueOn
<1>5. r.cursor \in CursorIds /\ r.cursor # NoId
    BY <1>1, HranaWsAssumption DEF CursorIds
<1>6. /\ DOMAIN cursors' = DOMAIN cursors \cup {r.cursor} /\ cursors'[r.cursor] = s
      /\ \A c \in DOMAIN cursors : cursors'[c] = cursors[c]
    BY <1>1, <1>2 DEF With
<1>7. /\ DOMAIN streams' = DOMAIN streams
      /\ \A x \in DOMAIN streams : x # s => streams'[x] = streams[x]
      /\ streams'[s].task = k /\ streams'[s].cursor_id = r.cursor
      /\ streams'[s] \in [task : Ids, cursor_id : {NoId} \cup CursorIds]
      /\ streams' = [x \in DOMAIN streams' |-> streams'[x]]
  <2>1. streams[s] \in [task : Ids, cursor_id : {NoId} \cup CursorIds]
      BY <1>2 DEF Session, StreamOK
  <2> QED BY <1>1, <1>2, <1>3, <1>5, <2>1
<1> HIDE DEF s
<1>8. ASSUME NEW x \in DOMAIN streams PROVE StreamOK(x)'
  <2>1. StreamOK(x)
      BY DEF Session
  <2>2. CASE x = s
      BY <1>1, <1>2, <1>3, <1>4, <1>5, <1>6, <1>7, <2>2, AppendStream
  <2>3. CASE x # s
    <3>1. streams[x].task # k
        BY <1>2, <1>3, <2>3 DEF Session, OwnTasks
    <3> QED BY <1>4, <1>6, <1>7, <2>1, <2>3, <3>1, OtherStream DEF StreamOK
  <2> QED BY <2>2, <2>3
<1>9. OpensOnce'
    BY <1>1, <1>4, AppendOpens
<1>10. OwnTasks'
    BY <1>2, <1>3, <1>7 DEF Session, OwnTasks
<1>11. CursorsOK'
  <2>1. ASSUME NEW c \in DOMAIN cursors'
        PROVE  c # NoId /\ cursors'[c] \in DOMAIN streams' /\ streams'[cursors'[c]].cursor_id = c
    <3>1. CASE c = r.cursor
        BY <1>2, <1>5, <1>6, <1>7, <3>1
    <3>2. CASE c # r.cursor
      <4>1. c \in DOMAIN cursors /\ cursors'[c] = cursors[c]
          BY <1>6, <2>1, <3>2
      <4>2. c # NoId /\ cursors[c] \in DOMAIN streams /\ streams[cursors[c]].cursor_id = c
          BY <4>1 DEF Session, CursorsOK
      <4>3. cursors[c] # s
          BY <1>2, <4>2
      <4> QED BY <1>7, <4>1, <4>2, <4>3
    <3> QED BY <3>1, <3>2
  <2> QED BY <2>1 DEF CursorsOK
<1> QED BY <1>4, <1>7, <1>8, <1>9, <1>10, <1>11 DEF Session

\* close_cursor takes the cursor away from its stream.
LEMMA CloseCursorStep ==
    ASSUME OInv, Session, NEW r \in Requests, CloseCursor(r)
    PROVE  OInv' /\ Session'
<1> DEFINE s == cursors[r.cursor]
<1>1. /\ r.kind = "close_cursor" /\ Refusal(r) = "ok" /\ Accepts(r, r.kind)
      /\ Queue(streams[s].task, task, r) /\ UNCHANGED <<cur, owner, conn>>
      /\ cursors' = Without(cursors, r.cursor)
      /\ streams' = [streams EXCEPT ![s].cursor_id = NoId]
    BY DEF CloseCursor, Accepts
<1>2. r.cursor \in DOMAIN cursors
    BY <1>1, Accepted
<1>3. s \in DOMAIN streams /\ streams[s].cursor_id = r.cursor
    BY <1>2 DEF Session, CursorsOK
<1>4. PICK k : k = streams[s].task
    OBVIOUS
<1>5. k \in Ids /\ Enqueues(k, task[k], r) /\ task[k].tx /\ OInv' /\ Apart(k)
    BY <1>1, <1>3, <1>4, QueueOn
<1>6. /\ DOMAIN cursors' = DOMAIN cursors \ {r.cursor}
      /\ \A c \in DOMAIN cursors : c # r.cursor => cursors'[c] = cursors[c]
    BY <1>1 DEF Without
<1>7. /\ DOMAIN streams' = DOMAIN streams
      /\ \A x \in DOMAIN streams : x # s => streams'[x] = streams[x]
      /\ streams'[s].task = k /\ streams'[s].cursor_id = NoId
      /\ streams'[s] \in [task : Ids, cursor_id : {NoId} \cup CursorIds]
      /\ streams' = [x \in DOMAIN streams' |-> streams'[x]]
  <2>1. streams[s] \in [task : Ids, cursor_id : {NoId} \cup CursorIds]
      BY <1>3 DEF Session, StreamOK
  <2> QED BY <1>1, <1>3, <1>4, <2>1
<1>8. PICK t : t = s
    OBVIOUS
<1> HIDE DEF s
<1>9. ASSUME NEW x \in DOMAIN streams PROVE StreamOK(x)'
  <2>1. StreamOK(x)
      BY DEF Session
  <2>2. CASE x = t
      BY <1>1, <1>3, <1>4, <1>5, <1>7, <1>8, <2>2, AppendStream
  <2>3. CASE x # t
    <3>1. streams[x].task # k
        BY <1>3, <1>4, <1>8, <2>3 DEF Session, OwnTasks
    <3>2. streams[x].cursor_id # NoId => streams[x].cursor_id # r.cursor
        BY <1>8, <2>1, <2>3 DEF StreamOK, s
    <3> QED BY <1>5, <1>6, <1>7, <1>8, <2>1, <2>3, <3>1, <3>2, OtherStream DEF StreamOK
  <2> QED BY <2>2, <2>3
<1>10. OpensOnce'
    BY <1>1, <1>5, AppendOpens
<1>11. OwnTasks'
    BY <1>3, <1>4, <1>7 DEF Session, OwnTasks
<1>12. CursorsOK'
  <2>1. ASSUME NEW c \in DOMAIN cursors'
        PROVE  c # NoId /\ cursors'[c] \in DOMAIN streams' /\ streams'[cursors'[c]].cursor_id = c
    <3>1. c \in DOMAIN cursors /\ cursors'[c] = cursors[c] /\ c # r.cursor
        BY <1>6, <2>1
    <3>2. c # NoId /\ cursors[c] \in DOMAIN streams /\ streams[cursors[c]].cursor_id = c
        BY <3>1 DEF Session, CursorsOK
    <3>3. cursors[c] # s
        BY <1>3, <3>1, <3>2
    <3> QED BY <1>7, <3>1, <3>2, <3>3
  <2> QED BY <2>1 DEF CursorsOK
<1> QED BY <1>5, <1>7, <1>9, <1>10, <1>11, <1>12 DEF Session

\* close_stream removes the stream and its cursor.
LEMMA CloseStreamStep ==
    ASSUME OInv, Session, NEW r \in Requests, CloseStream(r)
    PROVE  OInv' /\ Session'
<1> DEFINE s == r.stream
<1>1. /\ r.kind = "close_stream" /\ Refusal(r) = "ok" /\ Accepts(r, r.kind)
      /\ Queue(streams[s].task, [task EXCEPT ![streams[s].task].tx = FALSE], r)
      /\ UNCHANGED <<cur, owner, conn>>
      /\ cursors' = Without(cursors, streams[s].cursor_id) /\ streams' = Without(streams, s)
    BY DEF CloseStream, Accepts
<1>2. s \in DOMAIN streams
    BY <1>1, Accepted
<1>3. PICK k : k = streams[s].task
    OBVIOUS
<1>4. /\ k \in Ids /\ k <= received /\ task[k].st \in {"idle", "run", "waiting"}
    BY <1>2, <1>3 DEF Session, StreamOK
<1> DEFINE u == [task[k] EXCEPT !.tx = FALSE]
<1>5. /\ u \in TaskStates /\ u.st = task[k].st /\ u.job = task[k].job
      /\ u.queue = task[k].queue /\ u.hnd = task[k].hnd
    BY <1>4, Untouched DEF TaskStates
<1>6. Queue(k, [task EXCEPT ![k] = u], r)
  <2>1. [task EXCEPT ![k].tx = FALSE] = [task EXCEPT ![k] = u]
      BY <1>4, Untouched
  <2> HIDE DEF u
  <2> QED BY <1>1, <1>3, <2>1
<1> HIDE DEF u
<1>7. Enqueues(k, u, r)
  <2>1. sending = NotSending /\ received < MaxRequests /\ received' = received + 1 /\ ran' = ran
      BY <1>1 DEF Accepts, Receive, Receiving, Selecting
  <2>2. k <= received + 1
      BY <1>4, Constants DEF OInv, Numbers
  <2> QED BY <1>1, <1>4, <1>5, <1>6, <2>1, <2>2 DEF Enqueues
<1>8. OInv' /\ Apart(k)
    BY <1>4, <1>7, Appends
<1>9. /\ DOMAIN streams' = DOMAIN streams \ {s}
      /\ \A x \in DOMAIN streams : x # s => streams'[x] = streams[x]
      /\ streams' = [x \in DOMAIN streams' |-> streams'[x]]
    BY <1>1 DEF Without
<1>10. /\ DOMAIN cursors' = DOMAIN cursors \ {streams[s].cursor_id}
       /\ \A c \in DOMAIN cursors : c # streams[s].cursor_id => cursors'[c] = cursors[c]
    BY <1>1 DEF Without
<1> HIDE DEF s
<1>11. ASSUME NEW x \in DOMAIN streams, x # s PROVE StreamOK(x)'
  <2>1. StreamOK(x) /\ StreamOK(s)
      BY <1>2 DEF Session
  <2>2. streams[x].task # k
      BY <1>2, <1>3, <1>11 DEF Session, OwnTasks
  <2>3. streams[x].cursor_id # NoId => streams[x].cursor_id # streams[s].cursor_id
      BY <1>11, <2>1 DEF StreamOK
  <2> QED BY <1>4, <1>8, <1>9, <1>10, <1>11, <2>1, <2>2, <2>3, OtherStream DEF StreamOK
<1>12. OpensOnce'
    BY <1>1, <1>4, <1>7, AppendOpens
<1>13. OwnTasks'
    BY <1>9 DEF Session, OwnTasks
<1>14. CursorsOK'
  <2>1. ASSUME NEW c \in DOMAIN cursors'
        PROVE  c # NoId /\ cursors'[c] \in DOMAIN streams' /\ streams'[cursors'[c]].cursor_id = c
    <3>1. c \in DOMAIN cursors /\ cursors'[c] = cursors[c] /\ c # streams[s].cursor_id
        BY <1>10, <2>1
    <3>2. c # NoId /\ cursors[c] \in DOMAIN streams /\ streams[cursors[c]].cursor_id = c
        BY <3>1 DEF Session, CursorsOK
    <3>3. cursors[c] # s
        BY <3>1, <3>2
    <3> QED BY <1>9, <3>1, <3>2, <3>3
  <2> QED BY <2>1 DEF CursorsOK
<1> QED BY <1>8, <1>9, <1>11, <1>12, <1>13, <1>14 DEF Session

\* open_stream adds a stream with a task of its own.
LEMMA OpenStreamStep ==
    ASSUME OInv, Session, NEW r \in Requests, OpenStream(r)
    PROVE  OInv' /\ Session'
<1> DEFINE s == r.stream
<1>1. PICK k : k = received + 1
    OBVIOUS
<1>2. /\ r.kind = "open_stream" /\ Refusal(r) = "ok" /\ Accepts(r, r.kind)
      /\ Queue(k, [task EXCEPT ![k].st = "idle", ![k].tx = TRUE], r)
      /\ UNCHANGED <<cur, owner, conn, cursors>>
      /\ streams' = With(streams, s, [task |-> k, cursor_id |-> NoId])
    BY <1>1 DEF OpenStream, Accepts
<1>3. s \notin DOMAIN streams
    BY <1>2, Accepted
<1>4. sending = NotSending /\ received < MaxRequests /\ received' = received + 1 /\ ran' = ran
    BY <1>2 DEF Accepts, Receive, Receiving, Selecting
<1>5. k \in Ids /\ received \in Int /\ k > received
    BY <1>1, <1>4, Constants DEF OInv, Numbers
<1>6. task[k] = NoTask
    BY <1>5 DEF OInv, Numbers
<1> DEFINE u == [task[k] EXCEPT !.st = "idle", !.tx = TRUE]
<1>7. /\ u \in TaskStates /\ u.st = "idle" /\ u.job = task[k].job /\ u.tx
      /\ u.queue = task[k].queue /\ u.hnd = task[k].hnd
    BY <1>5, Untouched DEF TaskStates
<1>8. Queue(k, [task EXCEPT ![k] = u], r)
  <2>1. [task EXCEPT ![k].st = "idle", ![k].tx = TRUE] = [task EXCEPT ![k] = u]
      BY <1>5, Untouched
  <2> HIDE DEF u
  <2> QED BY <1>2, <2>1
<1> HIDE DEF u
<1>9. Enqueues(k, u, r)
  <2>1. task[k].st = "none" /\ k <= received + 1
      BY <1>1, <1>5, <1>6 DEF NoTask
  <2> QED BY <1>2, <1>4, <1>7, <1>8, <2>1 DEF Enqueues
<1> DEFINE j == [i |-> received + 1, r |-> r]
<1>10. /\ OInv' /\ Apart(k) /\ Queued(k)' = Append(Queued(k), j) /\ task'[k].st = u.st
       /\ task'[k].tx = u.tx /\ task'[k].hnd = u.hnd
    BY <1>5, <1>9, Appends
<1>11. Queued(k) = <<>>
    BY <1>4, <1>5, <1>6, Constants DEF Queued, NoTask, NotSending
<1>12. Queued(k)' = <<j>> /\ j \in Jobs /\ j.r = r /\ task'[k].hnd = 0
  <2>1. j \in Jobs /\ j.r = r
      BY <1>1, <1>5 DEF Jobs
  <2>2. task'[k].hnd = 0
      BY <1>6, <1>7, <1>10 DEF NoTask
  <2> HIDE DEF j
  <2>3. Append(<<>>, j) = <<j>>
      OBVIOUS
  <2> QED BY <1>10, <1>11, <2>1, <2>2, <2>3
<1>13. /\ DOMAIN streams' = DOMAIN streams \cup {s}
       /\ \A x \in DOMAIN streams : streams'[x] = streams[x]
       /\ streams'[s] = [task |-> k, cursor_id |-> NoId]
       /\ streams' = [x \in DOMAIN streams' |-> streams'[x]]
    BY <1>2, <1>3 DEF With
<1> HIDE DEF s, j
<1>14. \A x \in DOMAIN streams : StreamOK(x) /\ streams[x].task # k
  <2>1. ASSUME NEW x \in DOMAIN streams PROVE StreamOK(x) /\ streams[x].task # k
    <3>1. StreamOK(x) /\ streams[x].task \in Int /\ streams[x].task <= received
        BY Constants DEF Session, StreamOK
    <3> QED BY <1>5, <3>1
  <2> QED BY <2>1
<1>15. ASSUME NEW x \in DOMAIN streams PROVE StreamOK(x)'
    BY <1>2, <1>5, <1>10, <1>13, <1>14, OtherStream DEF StreamOK
<1>16. StreamOK(s)'
  <2>1. ~CursorAfter(Queued(k)', task'[k].hnd # 0)
    <3>1. CursorAfter(<<j>>, FALSE) <=> CursorAfter(<<>>, FALSE)
      <4>1. <<>> \in Seq(Jobs) /\ Append(<<>>, j) = <<j>> /\ FALSE \in BOOLEAN
          OBVIOUS
      <4>2. j.r.kind \notin {"open_cursor", "close_cursor"}
          BY <1>2, <1>12
      <4>3. CursorAfter(Append(<<>>, j), FALSE) <=> CursorAfter(<<>>, FALSE)
          BY <1>12, <4>1, <4>2, CursorAppend
      <4> QED BY <4>1, <4>3
    <3>2. ~CursorAfter(<<>>, FALSE)
        BY DEF CursorAfter
    <3> QED BY <1>12, <3>1, <3>2
  <2>2. streams'[s].task = k /\ streams'[s].cursor_id = NoId
        /\ streams'[s] \in [task : Ids, cursor_id : {NoId} \cup CursorIds]
      BY <1>5, <1>13
  <2>3. k <= received'
      BY <1>1, <1>4, <1>5
  <2> QED BY <1>7, <1>10, <2>1, <2>2, <2>3 DEF StreamOK
<1>17. OpensOnce'
    BY <1>5, <1>9, <1>11, AppendOpens
<1>18. OwnTasks'
    BY <1>13, <1>14 DEF Session, OwnTasks
<1>19. CursorsOK'
    BY <1>2, <1>13 DEF Session, CursorsOK
<1> QED BY <1>10, <1>13, <1>15, <1>16, <1>17, <1>18, <1>19 DEF Session

\* Steps that do not concern the streams.
LEMMA AsideSession ==
    ASSUME OInv, Session, UNCHANGED <<task, streams, cursors>>,
           \A k \in Ids : Queued(k)' = Queued(k), received' \in received..MaxRequests
    PROVE  Session'
<1>1. received \in Nat /\ received' \in Nat /\ received <= received'
    BY Constants DEF OInv, Numbers
<1>2. ASSUME NEW s \in DOMAIN streams PROVE StreamOK(s)'
  <2>1. PICK k \in Ids : k = streams[s].task /\ StreamOK(s)
      BY DEF Session, StreamOK
  <2>2. Queued(k)' = Queued(k) /\ task'[k].st \in {"idle", "run", "waiting"}
      BY <2>1 DEF StreamOK
  <2> QED BY <1>1, <2>1, <2>2, SameStream
<1>3. OpensOnce'
    BY DEF Session, OpensOnce
<1> QED BY <1>2, <1>3 DEF Session, OwnTasks, CursorsOK

\* A connection that is closed has no session.
LEMMA ClosedSession ==
    ASSUME NEW c, Terminate(c), \A k \in Ids : Queued(k)' = <<>>
    PROVE  Session'
<1>1. streams' = <<>> /\ cursors' = <<>> /\ DOMAIN streams' = {} /\ DOMAIN cursors' = {}
    BY DEF Terminate
<1>2. OpensOnce'
  <2>1. Len(<<>>) = 0
      OBVIOUS
  <2> QED BY <2>1 DEF OpensOnce
<1> QED BY <1>1, <1>2 DEF Session, OwnTasks, CursorsOK

\* A task ends only when the session no longer has its stream.
LEMMA EndTaskSession ==
    ASSUME OInv, Session, NEW k \in Ids, EndTask(k)
    PROVE  OInv' /\ Session'
<1>1. /\ OInv' /\ ~task[k].tx /\ Queued(k)' = <<>>
      /\ \A l \in Ids : l # k => task'[l] = task[l] /\ Queued(l)' = Queued(l)
    BY EndTaskStep
<1>2. UNCHANGED <<streams, cursors, received>>
    BY DEF EndTask, Elsewhere, sessionVars
<1>3. ASSUME NEW s \in DOMAIN streams PROVE StreamOK(s)'
  <2>1. PICK l \in Ids : l = streams[s].task /\ StreamOK(s)
      BY DEF Session, StreamOK
  <2>2. l # k
      BY <1>1, <2>1 DEF StreamOK
  <2>3. task'[l] = task[l] /\ Queued(l)' = Queued(l)
      BY <1>1, <2>2
  <2> QED BY <1>2, <2>1, <2>3 DEF StreamOK
<1>4. OpensOnce'
  <2>1. Len(<<>>) = 0
      OBVIOUS
  <2>2. ASSUME NEW l \in Ids, NEW a \in 1..Len(Queued(l)'), Queued(l)'[a].r.kind = "open_stream"
        PROVE  a = 1
    <3>1. l # k
        BY <1>1, <2>1, <2>2
    <3> QED BY <1>1, <2>2, <3>1 DEF Session, OpensOnce
  <2> QED BY <2>2 DEF OpensOnce
<1> QED BY <1>1, <1>2, <1>3, <1>4 DEF Session, OwnTasks, CursorsOK

-----------------------------------------------------------------------------
(* The theorems. *)

\* The inductive invariant.
HInv == OInv /\ Session

\* Initially nothing is queued and the session has nothing.
LEMMA HInvInit == ASSUME Init PROVE HInv
<1>1. NoTask \in TaskStates /\ NotSending \in Sendings
  <2>1. <<>> \in Seq(Jobs) /\ 0 \in 0..MaxRequests /\ 0 \in Nat
      BY Constants
  <2> QED BY <2>1 DEF NoTask, TaskStates, NotSending, Sendings
<1>2. \A k \in Ids : NotSending.k # k
    BY Constants DEF NotSending
<1>3. \A k \in Ids : Queued(k) = <<>> /\ Len(Queued(k)) = 0
  <2>1. ASSUME NEW k \in Ids PROVE Queued(k) = <<>>
    <3>1. task[k].job = NoJob /\ task[k].queue = <<>> /\ sending.k # k
        BY <1>2 DEF Init, NoTask
    <3>2. Queued(k) = (<<>> \o <<>>) \o <<>>
        BY <3>1 DEF Queued
    <3> QED BY <3>2
  <2> QED BY <2>1
<1>4. \A k \in Ids : conn[k].inbox = <<>> /\ Len(conn[k].inbox) = 0
    BY DEF Init
<1>5. Numbers
  <2>1. received = 0 /\ received \in 0..MaxRequests /\ \A k \in Ids : task[k] = NoTask
      BY Constants DEF Init
  <2>2. /\ task \in [Ids -> TaskStates] /\ sending \in Sendings
        /\ conn \in [Ids -> [th : {"none", "up", "ended"}, inbox : Seq(Ids)]]
        /\ DOMAIN cur = Ids
      BY <1>1 DEF Init
  <2>3. /\ owner \in [Ids -> 0..MaxRequests] /\ ran \in [Ids -> 0..MaxRequests]
        /\ \A k \in Ids : owner[k] = 0 /\ ran[k] = 0
      BY Constants DEF Init
  <2>4. \A k \in Ids : TaskOK(task[k], sending, k)
      BY <1>1, <1>2, <2>1 DEF TaskOK, NoTask, Init
  <2>5. \A k \in Ids : ran[k] <= received
      BY <2>1, <2>3
  <2>6. \A k \in Ids : \A a \in 1..Len(Queued(k)) : Queued(k)[a].i <= received
      BY <1>3
  <2>7. \A k \in Ids : \A p \in 1..Len(conn[k].inbox) : conn[k].inbox[p] <= received
      BY <1>4
  <2> QED BY <2>1, <2>2, <2>3, <2>4, <2>5, <2>6, <2>7 DEF Numbers
<1>6. Disjoint
    BY <1>3 DEF Disjoint
<1>7. CursorTasks
    BY DEF Init, CursorTasks, NoTask
<1>8. Ordered
    BY <1>3, <1>4 DEF Ordered, OrderOK
<1>9. Session
  <2>1. streams = <<>> /\ cursors = <<>> /\ DOMAIN streams = {} /\ DOMAIN cursors = {}
      BY DEF Init
  <2>2. OpensOnce
      BY <1>3 DEF OpensOnce
  <2> QED BY <2>1, <2>2 DEF Session, OwnTasks, CursorsOK
<1> QED BY <1>5, <1>6, <1>7, <1>8, <1>9 DEF HInv, OInv

\* The steps that change only what Aside allows.
LEMMA AsideStep ==
    ASSUME HInv, UNCHANGED <<task, sending, owner, ran, streams, cursors>>,
           received' \in received..MaxRequests,
           conn' \in [Ids -> Conns], \A k \in Ids : conn'[k].inbox = conn[k].inbox,
           cur' = cur \/ \E i \in Ids : \E c : owner[i] # 0 /\ cur' = [cur EXCEPT ![i] = c]
    PROVE  HInv'
<1>1. DOMAIN cur' = Ids /\ \A i \in Ids : owner[i] = 0 => cur'[i] = NoCursor
  <2>1. DOMAIN cur = Ids /\ \A i \in Ids : owner[i] = 0 => cur[i] = NoCursor
      BY DEF HInv, OInv, Numbers, CursorTasks
  <2> QED BY <2>1
<1>2. OInv' /\ \A k \in Ids : Queued(k)' = Queued(k)
    BY <1>1, Aside DEF HInv
<1> QED BY <1>2, AsideSession DEF HInv

\* The connection ends, and the session with it.
LEMMA TerminateHInv ==
    ASSUME HInv, NEW c, Terminate(c), UNCHANGED <<received, ran>>
    PROVE  HInv'
    BY TerminateStep, ClosedSession DEF HInv

\* Every step keeps the invariant.
LEMMA HInvNext == ASSUME HInv, [Next]_vars PROVE HInv'
<1>1. /\ received \in received..MaxRequests
      /\ received < MaxRequests => received + 1 \in received..MaxRequests
      /\ conn \in [Ids -> Conns]
  <2>1. received \in 0..MaxRequests /\ MaxRequests \in Nat /\ conn \in [Ids -> Conns]
      BY Constants DEF HInv, OInv, Numbers, Conns
  <2> QED BY <2>1
<1>2. CASE UNCHANGED vars
    BY <1>1, <1>2, AsideStep DEF vars, taskVars, history, sessionVars
<1>3. CASE Handshake
    BY <1>1, <1>3, AsideStep DEF Handshake, taskVars, history, sessionVars
<1>4. CASE Hello
  <2>1. UNCHANGED <<received, ran>>
      BY <1>4 DEF Hello, history
  <2>2. CASE \E c : Terminate(c)
      BY <2>1, <2>2, TerminateHInv
  <2>3. CASE UNCHANGED <<ws, code, subproto, sessionVars, sending, taskVars>>
      BY <1>1, <2>1, <2>3, AsideStep DEF taskVars, sessionVars
  <2> QED BY <1>4, <2>2, <2>3 DEF Hello
<1>16. CASE Leave
    BY <1>1, <1>16, AsideStep DEF Leave, taskVars, history, sessionVars
<1>5. CASE RequestBeforeHello \/ BadMessage \/ Disconnect
  <2>1. UNCHANGED <<received, ran>> /\ \E c : Terminate(c)
      BY <1>5 DEF RequestBeforeHello, BadMessage, Disconnect, history
  <2> QED BY <2>1, TerminateHInv
<1>6. ASSUME NEW r \in Requests, handle_request(r) PROVE HInv'
  <2>1. CASE Refuse(r) \/ StoreSql(r) \/ CloseSql(r)
    <3>1. /\ UNCHANGED <<task, sending, owner, ran, streams, cursors, conn, cur>>
          /\ received' = received + 1 /\ received < MaxRequests
        BY <2>1 DEF Refuse, StoreSql, CloseSql, Receive, sessionVars, taskVars
    <3> QED BY <1>1, <3>1, AsideStep
  <2>2. CASE OpenStream(r)
      BY <2>2, OpenStreamStep DEF HInv
  <2>3. CASE CloseStream(r)
      BY <2>3, CloseStreamStep DEF HInv
  <2>4. CASE Execute(r)
      BY <2>4, ExecuteStep DEF HInv
  <2>5. CASE OpenCursorOn(r)
      BY <2>5, OpenCursorStep DEF HInv
  <2>6. CASE CloseCursor(r)
      BY <2>6, CloseCursorStep DEF HInv
  <2>7. CASE FetchCursor(r)
      BY <2>7, FetchCursorStep DEF HInv
  <2> QED BY <1>6, <2>1, <2>2, <2>3, <2>4, <2>5, <2>6, <2>7 DEF handle_request
<1>7. CASE Unblock
  <2>1. OInv' /\ \E k \in Ids : Serves(k)
      BY <1>7, UnblockStep DEF HInv
  <2>2. UNCHANGED <<streams, cursors, received>>
      BY <1>7 DEF Unblock, sessionVars
  <2> QED BY <2>1, <2>2, ServesSession DEF HInv
<1>8. ASSUME NEW i \in Ids, SendResponse(i) PROVE HInv'
  <2>1. UNCHANGED <<received, ran>>
      BY <1>8 DEF SendResponse, history
  <2>2. CASE \E c : Terminate(c)
      BY <2>1, <2>2, TerminateHInv
  <2>3. CASE UNCHANGED <<ws, code, subproto, sessionVars, sending, taskVars>>
      BY <1>1, <2>1, <2>3, AsideStep DEF taskVars, sessionVars
  <2> QED BY <1>8, <2>2, <2>3 DEF SendResponse
<1>9. ASSUME NEW i \in Ids, RunCursor(i) PROVE HInv'
  <2>1. OInv' /\ UNCHANGED task /\ \A l \in Ids : Queued(l)' = Queued(l)
      BY <1>9, RunCursorStep DEF HInv
  <2>2. UNCHANGED <<streams, cursors, received>>
      BY <1>9 DEF RunCursor, Elsewhere, sessionVars
  <2> QED BY <1>1, <2>1, <2>2, AsideSession DEF HInv
<1>10. ASSUME NEW i \in Ids, EmitError(i) PROVE HInv'
  <2>1. /\ UNCHANGED <<task, sending, owner, ran, streams, cursors, conn, received>>
        /\ \E c : cur' = [cur EXCEPT ![i] = c]
      BY <1>10 DEF EmitError, Elsewhere, sessionVars, history
  <2>2. owner[i] # 0
      BY <1>10 DEF EmitError, CanFail, NoCursor, HInv, OInv, CursorTasks
  <2> QED BY <1>1, <2>1, <2>2, AsideStep
<1>11. ASSUME NEW k \in Ids, StreamTask(k) PROVE HInv'
  <2>1. CASE EndTask(k)
      BY <2>1, EndTaskSession DEF HInv
  <2>2. CASE ~EndTask(k)
    <3>1. OInv' /\ Serves(k)
        BY <1>11, <2>2, TakeJobStep, CreateConnectionStep, AnswerCloseStep, SendProgramStep,
           StartCursorStep, StopCursorStep, FetchEntryStep DEF StreamTask, HInv
    <3>2. UNCHANGED <<streams, cursors, received>>
        BY <1>11 DEF StreamTask, TakeJob, CreateConnection, AnswerClose, SendProgram,
                     StartCursor, StopCursor, FetchEntry, EndTask, Elsewhere, sessionVars
    <3> QED BY <3>1, <3>2, ServesSession DEF HInv
  <2> QED BY <2>1, <2>2
<1>12. ASSUME NEW k \in Ids, RunProgram(k) PROVE HInv'
  <2>1. OInv' /\ (Serves(k) \/ (UNCHANGED task /\ \A l \in Ids : Queued(l)' = Queued(l)))
      BY <1>12, RunProgramStep DEF HInv
  <2>2. UNCHANGED <<streams, cursors, received>>
      BY <1>12 DEF RunProgram, sessionVars
  <2> QED BY <1>1, <2>1, <2>2, ServesSession, AsideSession DEF HInv
<1>13. ASSUME NEW k \in Ids, EmitEntry(k) PROVE HInv'
  <2>1. /\ UNCHANGED <<task, sending, owner, ran, streams, cursors, conn, received>>
        /\ \E c : cur' = [cur EXCEPT ![Current(k)] = c]
      BY <1>13 DEF EmitEntry, Elsewhere, sessionVars, history
  <2>2. Current(k) \in Ids
      BY <1>13, CurrentFacts DEF EmitEntry, HInv
  <2>3. owner[Current(k)] # 0
      BY <1>13, <2>2 DEF EmitEntry, CanEmit, NoCursor, HInv, OInv, CursorTasks
  <2> QED BY <1>1, <2>1, <2>2, <2>3, AsideStep
<1>14. ASSUME NEW k \in Ids, EndProgram(k) PROVE HInv'
  <2>1. OInv' /\ UNCHANGED task /\ \A l \in Ids : Queued(l)' = Queued(l)
      BY <1>14, EndProgramStep DEF HInv
  <2>2. UNCHANGED <<streams, cursors, received>>
      BY <1>14 DEF EndProgram, sessionVars
  <2> QED BY <1>1, <2>1, <2>2, AsideSession DEF HInv
<1>15. ASSUME NEW k \in Ids, ThreadEnds(k) PROVE HInv'
  <2>1. /\ UNCHANGED <<task, sending, owner, ran, streams, cursors, cur, received>>
        /\ conn' = [conn EXCEPT ![k].th = "ended"]
      BY <1>15 DEF ThreadEnds, Elsewhere, sessionVars, history
  <2>2. conn' \in [Ids -> Conns] /\ \A l \in Ids : conn'[l].inbox = conn[l].inbox
      BY <1>1, <2>1 DEF Conns
  <2> QED BY <1>1, <2>1, <2>2, AsideStep
<1> QED BY <1>2, <1>3, <1>4, <1>5, <1>6, <1>7, <1>8, <1>9, <1>10, <1>11, <1>12, <1>13, <1>14,
           <1>15, <1>16 DEF Next, Client, Server, Thread

\* The invariant holds in every state.
LEMMA HInvHolds == Spec => []HInv
    BY HInvInit, HInvNext, PTL DEF Spec

\* The session and the tasks of its streams agree: the assert_eq!s of close_cursor and
\* fetch_cursor hold, a stream that the session has always has a task that will do what is
\* queued, and the task will then hold a cursor exactly if the session thinks so, however
\* the connection's task, the streams' tasks and the database threads interleave.
THEOREM SessionAgrees == Spec => []SessionMatches
<1>1. HInv => SessionMatches
  <2> SUFFICES ASSUME HInv PROVE SessionMatches
      OBVIOUS
  <2>1. ASSUME NEW s \in DOMAIN streams PROVE StreamOK(s)
      BY DEF HInv, Session
  <2>2. ASSUME NEW c \in DOMAIN cursors
        PROVE  cursors[c] \in DOMAIN streams /\ streams[cursors[c]].cursor_id = c
      BY DEF HInv, Session, CursorsOK
  <2> QED BY <2>1, <2>2 DEF SessionMatches, StreamOK
<1> QED BY <1>1, HInvHolds, PTL

\* The connection of a stream runs the programs of its requests in the order in which
\* they were received, those of cursors aside.
THEOREM RequestsRunInOrder == Spec => InOrder
<1>1. HInv => \A k, i \in Ids : Begins(k, i) /\ owner[i] = 0 => i > ran[k]
  <2> SUFFICES ASSUME HInv, NEW k \in Ids, NEW i \in Ids, Begins(k, i), owner[i] = 0
               PROVE  i > ran[k]
      OBVIOUS
  <2>1. OInv /\ conn[k].inbox # <<>> /\ i = Current(k)
      BY DEF HInv, Begins
  <2>2. i = conn[k].inbox[1] /\ 1 \in 1..Len(conn[k].inbox)
      BY <2>1, CurrentFacts
  <2>3. ran[k] < i
      BY <2>1, <2>2, StreamFacts DEF OrderOK
  <2>4. ran[k] \in Int /\ i \in Int
      BY <2>1, Constants, Untouched
  <2> QED BY <2>3, <2>4
<1> QED BY <1>1, HInvHolds, PTL DEF InOrder, Spec
=============================================================================
