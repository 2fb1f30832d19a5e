--------------------------- MODULE HranaHttpProofs ---------------------------
(***************************************************************************)
(* Streams over HTTP, for any number of calls, streams and stored texts.   *)
(*                                                                         *)
(* The state of a stream is in five places: its handle, the two queues of  *)
(* the expiration, the call that has a guard, and the inbox of the         *)
(* connection's thread. Held, Parked, Cleaned and Awake say how the first  *)
(* four agree. For the order of programs, Inboxes says that a pipeline's   *)
(* program in an inbox is that of the call that has the stream, or that    *)
(* the stream is gone, and Fresh that a baton that was accepted is behind  *)
(* the one that is expected, by less than SeqWrap (Arrivals). For the      *)
(* bodies of cursors, Bodied says that what was read, what is in the       *)
(* channel and what the task owes make up the whole, or that an error      *)
(* is on its way that will end the body.                                   *)
(***************************************************************************)
EXTENDS HranaHttp, Extremes, FiniteSetTheorems, SequenceTheorems

-----------------------------------------------------------------------------
(* The invariant: types. *)

SeqNos == 0..(SeqWrap - 1)
Batons == [id : StreamIds, seq : SeqNos]
Jobs == [c : Calls, cursor : BOOLEAN, turn : Nat]
Conns == [th : {"none", "up", "dead", "ended"}, inbox : Seq(Jobs)]
Cursors == [task : {"none", "open", "run", "failed", "end"}, chan : Seq(Entry),
            left : Seq(Entry), err : {"ok", "batch", "internal"}, rx : BOOLEAN]
Cleanups == [id : StreamIds, left : 0..(CLEANUP + 1)]

\* A Stream record.
IsStream(x) ==
    /\ DOMAIN x = {"db", "sqls", "baton_seq"}
    /\ x.db \in BOOLEAN /\ x.baton_seq \in SeqNos
    /\ IsFiniteSet(DOMAIN x.sqls) /\ Cardinality(DOMAIN x.sqls) <= MAX_SQL_COUNT

\* The state of a call.
CallFields ==
    {"pc", "id", "baton", "ver", "cursor", "left", "turn", "head", "all", "got", "ok"}
IsCall(x) ==
    /\ DOMAIN x = CallFields
    /\ x.pc \in {"new", "creating", "running", "waiting", "streaming", "done"}
    /\ x.id \in StreamIds \cup {NoId}
    /\ x.pc \in {"running", "waiting", "streaming"} => x.id \in StreamIds
    /\ x.pc = "streaming" => x.baton \in Batons
    /\ {x.cursor, x.head, x.ok} \subseteq BOOLEAN /\ x.turn \in Nat
    /\ x.all \in Seq(Entry) /\ x.got \in Seq(Entry)

\* The streams and what clients have of them.
StreamTypes ==
    /\ handles \in [StreamIds -> {"none", "available", "acquired", "expired"}]
    /\ stream = [s \in StreamIds |-> stream[s]] /\ \A s \in StreamIds : IsStream(stream[s])
    /\ conn \in [StreamIds -> Conns]
    /\ turns \in [StreamIds -> Nat] /\ ran \in [StreamIds -> Nat]
    /\ batons \subseteq Batons /\ used \subseteq Batons

\* The calls.
CallShapes == call = [c \in Calls |-> call[c]] /\ \A c \in Calls : IsCall(call[c])

\* The timers.
TimerTypes ==
    /\ DOMAIN expire_queue \subseteq StreamIds
    /\ \A s \in DOMAIN expire_queue : expire_queue[s] \in 0..(EXPIRATION + 1)
    /\ cleanup_queue \in Seq(Cleanups)
    /\ expire_sleep \in 0..IDLE /\ expire_waker \in BOOLEAN /\ woken \in BOOLEAN

-----------------------------------------------------------------------------
(* The invariant: handles and queues. *)

\* A call that has the stream s.
Guarding(c, s) == call[c].id = s /\ call[c].pc \in {"running", "waiting"}

\* An acquired stream has one guard, no other has any.
Held ==
    \A s \in StreamIds :
        IF handles[s] = "acquired"
        THEN \E c \in Calls : \A d \in Calls : Guarding(d, s) <=> d = c
        ELSE \A d \in Calls : ~Guarding(d, s)

\* The available streams wait to expire.
Parked ==
    \A s \in StreamIds :
        /\ handles[s] = "available" <=> s \in DOMAIN expire_queue
        /\ handles[s] = "available" => stream[s].db

\* The expired ones wait to be cleaned up, once.
Cleaned ==
    \A s \in StreamIds :
        IF handles[s] = "expired"
        THEN \E i \in 1..Len(cleanup_queue) : \A j \in 1..Len(cleanup_queue) :
                cleanup_queue[j].id = s <=> j = i
        ELSE \A j \in 1..Len(cleanup_queue) : cleanup_queue[j].id # s

\* The task is awake before the first of them is due.
Awake ==
    /\ woken \/ (expire_sleep > 0 /\ expire_waker)
    /\ \A s \in DOMAIN expire_queue : woken \/ expire_sleep <= expire_queue[s]

\* A stream without a connection has not been used yet.
Unused ==
    /\ \A s \in StreamIds : conn[s].th = "none" =>
        /\ handles[s] = "none" /\ Len(conn[s].inbox) = 0 /\ turns[s] = 0 /\ ran[s] = 0
        /\ \A b \in used : b.id # s
    /\ \A c \in Calls : call[c].id # NoId => conn[call[c].id].th # "none"

-----------------------------------------------------------------------------
(* The invariant: programs and batons. *)

\* A program in the inbox of the stream s.
JobOK(s, j) ==
    /\ j.turn <= turns[s]
    /\ j.cursor => call[j.c].pc \in {"streaming", "done"}
    /\ ~j.cursor => /\ j.turn = turns[s]
                    /\ \/ handles[s] = "acquired" /\ Guarding(j.c, s) /\ call[j.c].pc = "waiting"
                       \/ handles[s] = "none" /\ call[j.c].pc = "done"

\* The inboxes: at most one program of a pipeline in each.
Inboxes ==
    \A s \in StreamIds :
        /\ \A i \in 1..Len(conn[s].inbox) : JobOK(s, conn[s].inbox[i])
        /\ \A i, j \in 1..Len(conn[s].inbox) :
              ~conn[s].inbox[i].cursor /\ ~conn[s].inbox[j].cursor => i = j

\* The call that has the stream is the latest, and no program is of a later one; a stream
\* that exists has had a call.
Latest ==
    /\ \A c \in Calls :
        /\ call[c].pc \in {"running", "waiting"} => call[c].turn = turns[call[c].id]
        /\ call[c].pc = "streaming" => call[c].turn <= turns[call[c].id]
    /\ \A s \in StreamIds : ran[s] <= turns[s] /\ (handles[s] # "none" => turns[s] >= 1)

\* Calls arrive in the order of their numbers, and a stream has no more turns than
\* there were calls.
Arrivals ==
    \A d \in Calls : call[d].pc = "new" =>
        /\ \A c \in Calls : call[c].pc # "new" => c < d
        /\ \A s \in StreamIds : turns[s] < d

\* A baton that was accepted is behind the one that is expected.
Fresh ==
    \A b \in used : handles[b.id] \in {"available", "acquired"} =>
        \E k \in 1..(turns[b.id] - 1) :
            \/ b.seq + k = stream[b.id].baton_seq
            \/ b.seq + k = stream[b.id].baton_seq + SeqWrap

-----------------------------------------------------------------------------
(* The invariant: the bodies of cursors. *)

\* What the task of a cursor has not sent yet.
Owed(k) ==
    CASE k.task \in {"open", "run"} -> k.left \o Final(k.err)
      [] k.task = "failed" -> Final(k.err)
      [] OTHER -> <<>>

\* An error is on its way that will end the body.
Broken(k) ==
    \/ k.task = "failed" /\ k.err = "internal"
    \/ k.task = "end" /\ k.chan # <<>> /\ k.chan[1].type = "fatal"

\* The body of a call x, with the cursor k.
BodyOK(x, k) ==
    /\ Len(k.chan) <= 1
    /\ x.pc = "streaming" => /\ k.rx /\ k.task # "none"
                             /\ x.got \o (k.chan \o Owed(k)) = x.all \/ Broken(k)
    /\ x.pc = "done" => ~k.rx /\ k.task \in {"none", "run"} /\ k.chan = <<>>
    /\ x.pc \notin {"streaming", "done"} => k = NoCursor /\ x.got = <<>>
    /\ x.ok => x.pc = "done" /\ x.got = x.all

Bodied == \A c \in Calls : BodyOK(call[c], cursor[c])

\* The inductive invariant.
Types == StreamTypes /\ CallShapes /\ TimerTypes /\ cursor \in [Calls -> Cursors]
Streams == Held /\ Parked /\ Cleaned /\ Awake /\ Unused
Orders == Inboxes /\ Latest /\ Arrivals /\ Fresh
HInv == Types /\ Streams /\ Orders /\ Bodied

-----------------------------------------------------------------------------
(* Constants, and what is left of records that were changed. *)

\* The constants.
LEMMA Constants ==
    /\ Calls \subseteq Nat /\ \A c \in Calls : c >= 1 /\ c <= MaxCalls
    /\ NoId \notin StreamIds /\ SeqWrap \in Nat /\ SeqWrap >= 1 /\ MaxCalls \in Nat
    /\ 0 \in SeqNos /\ FirstSeqs \subseteq SeqNos
    /\ EXPIRATION \in Nat /\ CLEANUP \in Nat /\ IDLE \in Nat /\ EXPIRATION + 1 < IDLE
BY HttpAssumption, TimesAssumption DEF Calls, NoId, SeqNos

\* Of the calls only c changes, and it is a call again.
OnlyCall(c) ==
    /\ \A d \in Calls : d # c => call'[d] = call[d]
    /\ call' = [d \in Calls |-> call'[d]] /\ \A d \in Calls : IsCall(call'[d])

\* A call is changed.
LEMMA CallAt ==
    ASSUME CallShapes, NEW c \in Calls, NEW x, IsCall(x), call' = [call EXCEPT ![c] = x]
    PROVE  call'[c] = x /\ OnlyCall(c)
BY DEF CallShapes, OnlyCall

\* The call has ended.
LEMMA DoneCall ==
    ASSUME CallShapes, NEW c \in Calls, call' = Done(c)
    PROVE  OnlyCall(c) /\ call'[c].pc = "done" /\ call'[c].id = NoId /\ ~call'[c].ok
<1> DEFINE x == [NewCall EXCEPT !.pc = "done"]
<1>1. IsCall(x) /\ x.pc = "done" /\ x.id = NoId /\ ~x.ok
    BY DEF IsCall, NewCall, NoId, CallFields
<1>2. call' = [call EXCEPT ![c] = x]
    BY DEF Done
<1> HIDE DEF x
<1> QED BY <1>1, <1>2, CallAt

\* The call proceeds.
LEMMA ProceedCall ==
    ASSUME CallShapes, NEW c \in Calls, call[c].pc \in {"running", "waiting"}, Proceed(c)
    PROVE  /\ OnlyCall(c) /\ call'[c].pc = "running" /\ call'[c].id = call[c].id
           /\ call'[c].turn = call[c].turn /\ call'[c].ok = call[c].ok
           /\ call'[c].got = call[c].got
<1> DEFINE x == [call[c] EXCEPT !.pc = "running", !.left = Tail(call[c].left)]
<1>0. IsCall(call[c])
    BY DEF CallShapes
<1>1. /\ IsCall(x) /\ x.pc = "running" /\ x.id = call[c].id
      /\ x.turn = call[c].turn /\ x.ok = call[c].ok /\ x.got = call[c].got
    BY <1>0 DEF IsCall, CallFields
<1>2. call' = [call EXCEPT ![c] = x]
    BY <1>0 DEF Proceed, CallShapes, IsCall, CallFields
<1> HIDE DEF x
<1> QED BY <1>1, <1>2, CallAt

\* The call waits for the connection.
LEMMA WaitingCall ==
    ASSUME CallShapes, NEW c \in Calls, call[c].pc = "running",
           call' = [call EXCEPT ![c].pc = "waiting"]
    PROVE  /\ OnlyCall(c) /\ call'[c].pc = "waiting" /\ call'[c].id = call[c].id
           /\ call'[c].turn = call[c].turn /\ call'[c].ok = call[c].ok
           /\ call'[c].got = call[c].got
<1> DEFINE x == [call[c] EXCEPT !.pc = "waiting"]
<1>0. IsCall(call[c])
    BY DEF CallShapes
<1>1. /\ IsCall(x) /\ x.pc = "waiting" /\ x.id = call[c].id
      /\ x.turn = call[c].turn /\ x.ok = call[c].ok /\ x.got = call[c].got
    BY <1>0 DEF IsCall, CallFields
<1>2. call' = [call EXCEPT ![c] = x]
    BY <1>0 DEF CallShapes, IsCall, CallFields
<1> HIDE DEF x
<1> QED BY <1>1, <1>2, CallAt

\* What a body asks for.
LEMMA AsksFields ==
    ASSUME NEW body \in Bodies
    PROVE  /\ DOMAIN Asks(body) = CallFields /\ Asks(body).id = NoId /\ ~Asks(body).ok
           /\ {Asks(body).cursor, Asks(body).head, Asks(body).ok} \subseteq BOOLEAN
           /\ Asks(body).turn \in Nat /\ Asks(body).all \in Seq(Entry)
           /\ Asks(body).got = <<>> /\ <<>> \in Seq(Entry)
BY HttpAssumption, EmptySeq DEF Asks, NewCall, CallFields

\* A call without a baton arrives.
LEMMA CreatingCall ==
    ASSUME CallShapes, NEW c \in Calls, NEW body \in Bodies,
           call' = [call EXCEPT ![c] = [Asks(body) EXCEPT !.pc = "creating"]]
    PROVE  /\ OnlyCall(c) /\ call'[c].pc = "creating" /\ call'[c].id = NoId
           /\ ~call'[c].ok /\ call'[c].got = <<>>
<1> DEFINE a == Asks(body)
           x == [a EXCEPT !.pc = "creating"]
<1>0. /\ DOMAIN a = CallFields /\ a.id = NoId /\ ~a.ok
      /\ {a.cursor, a.head, a.ok} \subseteq BOOLEAN /\ a.turn \in Nat
      /\ a.all \in Seq(Entry) /\ a.got = <<>> /\ <<>> \in Seq(Entry)
    BY AsksFields
<1>2. call' = [call EXCEPT ![c] = x]
    OBVIOUS
<1> HIDE DEF a
<1>1. IsCall(x) /\ x.pc = "creating" /\ x.id = NoId /\ ~x.ok /\ x.got = <<>>
    BY <1>0 DEF IsCall, CallFields
<1> HIDE DEF x
<1> QED BY <1>1, <1>2, CallAt

\* A call whose baton is accepted.
LEMMA RunningCall ==
    ASSUME CallShapes, NEW c \in Calls, NEW body \in Bodies, NEW s \in StreamIds, NEW n \in Nat,
           call' = [call EXCEPT ![c] = [Asks(body) EXCEPT !.pc = "running", !.id = s, !.turn = n]]
    PROVE  /\ OnlyCall(c) /\ call'[c].pc = "running" /\ call'[c].id = s /\ call'[c].turn = n
           /\ ~call'[c].ok /\ call'[c].got = <<>>
<1> DEFINE a == Asks(body)
           x == [a EXCEPT !.pc = "running", !.id = s, !.turn = n]
<1>0. /\ DOMAIN a = CallFields /\ a.id = NoId /\ ~a.ok
      /\ {a.cursor, a.head, a.ok} \subseteq BOOLEAN /\ a.turn \in Nat
      /\ a.all \in Seq(Entry) /\ a.got = <<>> /\ <<>> \in Seq(Entry)
    BY AsksFields
<1>2. call' = [call EXCEPT ![c] = x]
    OBVIOUS
<1> HIDE DEF a
<1>1. IsCall(x) /\ x.pc = "running" /\ x.id = s /\ x.turn = n /\ ~x.ok /\ x.got = <<>>
    BY <1>0 DEF IsCall, CallFields
<1> HIDE DEF x
<1> QED BY <1>1, <1>2, CallAt

\* A call whose connection was created.
LEMMA CreatedCall ==
    ASSUME CallShapes, NEW c \in Calls, NEW s \in StreamIds,
           call' = [call EXCEPT ![c].pc = "running", ![c].id = s, ![c].turn = 1]
    PROVE  /\ OnlyCall(c) /\ call'[c].pc = "running" /\ call'[c].id = s /\ call'[c].turn = 1
           /\ call'[c].ok = call[c].ok /\ call'[c].got = call[c].got
<1> DEFINE x == [call[c] EXCEPT !.pc = "running", !.id = s, !.turn = 1]
<1>0. IsCall(call[c])
    BY DEF CallShapes
<1>1. /\ IsCall(x) /\ x.pc = "running" /\ x.id = s /\ x.turn = 1 /\ x.ok = call[c].ok
      /\ x.got = call[c].got
    BY <1>0 DEF IsCall, CallFields
<1>2. call' = [call EXCEPT ![c] = x]
    BY <1>0 DEF CallShapes, IsCall, CallFields
<1> HIDE DEF x
<1> QED BY <1>1, <1>2, CallAt

\* A call that streams the entries of a batch.
LEMMA StreamingCall ==
    ASSUME CallShapes, NEW c \in Calls, call[c].pc = "running",
           NEW b \in Batons, NEW all \in Seq(Entry),
           call' = [call EXCEPT ![c].pc = "streaming", ![c].head = TRUE, ![c].baton = b,
                                ![c].left = <<>>, ![c].all = all]
    PROVE  /\ OnlyCall(c) /\ call'[c].pc = "streaming" /\ call'[c].id = call[c].id
           /\ call'[c].turn = call[c].turn /\ call'[c].ok = call[c].ok
           /\ call'[c].all = all /\ call'[c].got = call[c].got
<1> DEFINE x == [call[c] EXCEPT !.pc = "streaming", !.head = TRUE, !.baton = b, !.left = <<>>,
                                !.all = all]
<1>0. IsCall(call[c])
    BY DEF CallShapes
<1>1. /\ IsCall(x) /\ x.pc = "streaming" /\ x.id = call[c].id /\ x.turn = call[c].turn
      /\ x.ok = call[c].ok /\ x.all = all /\ x.got = call[c].got
    BY <1>0 DEF IsCall, CallFields
<1>2. call' = [call EXCEPT ![c] = x]
    BY <1>0 DEF CallShapes, IsCall, CallFields
<1> HIDE DEF x
<1> QED BY <1>1, <1>2, CallAt

-----------------------------------------------------------------------------
(* The kinds of steps, by what they do to the stream of a call. *)

\* Of the streams only s changes, and it is a stream again.
OnlyStream(s) ==
    /\ \A t \in StreamIds : t # s => stream'[t] = stream[t]
    /\ stream' = [t \in StreamIds |-> stream'[t]] /\ \A t \in StreamIds : IsStream(stream'[t])

\* A stream is changed.
LEMMA StreamAt ==
    ASSUME StreamTypes, NEW s \in StreamIds, NEW x, IsStream(x), stream' = [stream EXCEPT ![s] = x]
    PROVE  stream'[s] = x /\ OnlyStream(s)
BY DEF StreamTypes, OnlyStream

\* A stream that was removed.
LEMMA NoStreamIs == IsStream(NoStream)
<1>1. DOMAIN NoStream.sqls = {} /\ NoStream.db \in BOOLEAN /\ NoStream.baton_seq = 0
      /\ DOMAIN NoStream = {"db", "sqls", "baton_seq"}
    BY DEF NoStream
<1>2. IsFiniteSet({}) /\ Cardinality({}) = 0
    BY FS_EmptySet
<1> QED BY <1>1, <1>2, Constants, HttpAssumption DEF IsStream

\* The threads drop callbacks, or finish them, from the first on.
ConnStep ==
    /\ conn' \in [StreamIds -> Conns]
    /\ \A t \in StreamIds :
        /\ conn'[t].th = "none" <=> conn[t].th = "none"
        /\ \E k \in 0..Len(conn[t].inbox) :
              /\ Len(conn'[t].inbox) = Len(conn[t].inbox) - k
              /\ \A i \in 1..Len(conn'[t].inbox) : conn'[t].inbox[i] = conn[t].inbox[i + k]

\* No program is of a later call than there was.
RanStep ==
    /\ ran' \in [StreamIds -> Nat]
    /\ \A t \in StreamIds : ran'[t] <= turns[t] /\ (turns[t] = 0 => ran'[t] = 0)

\* The parts of the invariant that do not depend on cursors.
SInv == StreamTypes /\ CallShapes /\ TimerTypes /\ Streams /\ Orders

\* A call that has the stream s fails.
Fails(c, s) ==
    /\ Guarding(c, s) /\ OnlyCall(c) /\ call'[c].pc = "done" /\ call'[c].id = NoId
    /\ DropGuard(s) /\ ConnStep /\ RanStep /\ UNCHANGED <<batons, used, turns>>

\* The callbacks in an inbox.
LEMMA InboxTypes ==
    ASSUME StreamTypes, NEW s \in StreamIds
    PROVE  /\ Len(conn[s].inbox) \in Nat /\ conn[s].inbox \in Seq(Jobs)
           /\ \A i \in 1..Len(conn[s].inbox) :
                 /\ conn[s].inbox[i] \in Jobs /\ conn[s].inbox[i].c \in Calls
                 /\ conn[s].inbox[i].turn \in Nat /\ conn[s].inbox[i].cursor \in BOOLEAN
<1>1. conn[s].inbox \in Seq(Jobs)
    BY DEF StreamTypes, Conns
<1>2. \A i \in 1..Len(conn[s].inbox) : conn[s].inbox[i] \in Jobs
    BY <1>1
<1>3. \A j \in Jobs : j.c \in Calls /\ j.turn \in Nat /\ j.cursor \in BOOLEAN
    BY DEF Jobs
<1> QED BY <1>1, <1>2, <1>3

\* What is left in the inboxes is as it was.
LEMMA InboxesKept ==
    ASSUME StreamTypes, Inboxes, ConnStep,
           \A t \in StreamIds, j \in Jobs :
               /\ \E i \in 1..Len(conn'[t].inbox) : j = conn'[t].inbox[i]
               /\ JobOK(t, j)
               => JobOK(t, j)'
    PROVE  Inboxes'
<1> SUFFICES ASSUME NEW t \in StreamIds
             PROVE  /\ \A i \in 1..Len(conn'[t].inbox) : JobOK(t, conn[t].inbox[i])'
                    /\ \A i, j \in 1..Len(conn'[t].inbox) :
                         ~conn'[t].inbox[i].cursor /\ ~conn'[t].inbox[j].cursor => i = j
    BY DEF Inboxes
<1>1. PICK k \in 0..Len(conn[t].inbox) :
            /\ Len(conn'[t].inbox) = Len(conn[t].inbox) - k
            /\ \A i \in 1..Len(conn'[t].inbox) : conn'[t].inbox[i] = conn[t].inbox[i + k]
    BY DEF ConnStep
<1>2. \A i \in 1..Len(conn'[t].inbox) : i + k \in 1..Len(conn[t].inbox)
    BY <1>1, InboxTypes
<1>3. ASSUME NEW i \in 1..Len(conn'[t].inbox)
      PROVE  JobOK(t, conn[t].inbox[i])'
  <2>1. PICK j : j = conn[t].inbox[i + k]
      OBVIOUS
  <2>2. JobOK(t, j) /\ conn'[t].inbox[i] = j /\ j \in Jobs
      BY <1>1, <1>2, <2>1, InboxTypes DEF Inboxes
  <2>3. JobOK(t, j)'
      BY <2>2
  <2> QED BY <2>2, <2>3
<1>4. ASSUME NEW i \in 1..Len(conn'[t].inbox), NEW j \in 1..Len(conn'[t].inbox),
             ~conn'[t].inbox[i].cursor, ~conn'[t].inbox[j].cursor
      PROVE  i = j
  <2>1. i + k = j + k
      BY <1>1, <1>2, <1>4 DEF Inboxes
  <2> QED BY <2>1, InboxTypes, <1>1
<1> QED BY <1>3, <1>4

\* A stream that was not used stays so.
LEMMA UnusedKept ==
    ASSUME StreamTypes, Unused, ConnStep, RanStep, UNCHANGED <<used, turns>>,
           \A t \in StreamIds : handles[t] = "none" => handles'[t] = "none",
           \A d \in Calls : call'[d].id \in {call[d].id, NoId},
           \A d \in Calls : call[d].id \in StreamIds \cup {NoId}
    PROVE  Unused'
<1>1. ASSUME NEW t \in StreamIds, conn'[t].th = "none"
      PROVE  /\ handles'[t] = "none" /\ Len(conn'[t].inbox) = 0 /\ turns'[t] = 0 /\ ran'[t] = 0
             /\ \A b \in used' : b.id # t
  <2>1. conn[t].th = "none"
      BY <1>1 DEF ConnStep
  <2>2. /\ handles[t] = "none" /\ Len(conn[t].inbox) = 0 /\ turns[t] = 0
        /\ \A b \in used : b.id # t
      BY <2>1 DEF Unused
  <2>3. Len(conn'[t].inbox) = 0
      BY <2>2 DEF ConnStep
  <2> QED BY <2>2, <2>3 DEF RanStep
<1>2. ASSUME NEW d \in Calls, call'[d].id # NoId
      PROVE  conn'[call'[d].id].th # "none"
    BY <1>2 DEF Unused, ConnStep
<1> QED BY <1>1, <1>2 DEF Unused

\* A stream that fails leaves the stream invariants true.
LEMMA FailsStep ==
    ASSUME SInv, NEW c \in Calls, NEW s \in StreamIds, Fails(c, s)
    PROVE  SInv'
<1> USE DEF SInv, Streams, Orders
<1>1. stream'[s] = NoStream /\ OnlyStream(s)
    BY NoStreamIs, StreamAt DEF Fails, DropGuard
<1>2. /\ handles'[s] = "none" /\ \A t \in StreamIds : t # s => handles'[t] = handles[t]
      /\ handles' \in [StreamIds -> {"none", "available", "acquired", "expired"}]
    BY DEF Fails, DropGuard, StreamTypes
<1>3. /\ call'[c].pc = "done" /\ call'[c].id = NoId /\ \A d \in Calls : d # c => call'[d] = call[d]
      /\ Guarding(c, s) /\ call[c].id = s /\ call[c].pc \in {"running", "waiting"} /\ NoId \notin StreamIds
    BY Constants DEF Fails, OnlyCall, Guarding
<1>4. handles[s] = "acquired" /\ \A d \in Calls : Guarding(d, s) <=> d = c
    BY <1>3 DEF Held
<1>5. StreamTypes'
    BY <1>1, <1>2 DEF StreamTypes, OnlyStream, Fails, ConnStep, RanStep
<1>6. CallShapes'
    BY DEF Fails, OnlyCall, CallShapes
<1>7. TimerTypes'
    BY DEF Fails, DropGuard, timers, TimerTypes
<1>8. Held'
    BY <1>2, <1>3, <1>4 DEF Held, Guarding
<1>9. Parked'
    BY <1>1, <1>2, <1>4 DEF Parked, Fails, DropGuard, timers, OnlyStream
<1>10. Cleaned'
    BY <1>2, <1>4 DEF Cleaned, Fails, DropGuard, timers
<1>11. Awake'
    BY DEF Awake, Fails, DropGuard, timers
<1>12. Unused'
  <2>1. \A d \in Calls : call'[d].id \in {call[d].id, NoId} /\ call[d].id \in StreamIds \cup {NoId}
      BY <1>3 DEF CallShapes, IsCall
  <2> QED BY <2>1, <1>2, UnusedKept DEF Fails
<1>13. Inboxes'
  <2>1. ASSUME NEW t \in StreamIds, NEW j \in Jobs, JobOK(t, j)
        PROVE  JobOK(t, j)'
    <3>1. j.c \in Calls
        BY DEF Jobs
    <3> QED BY <3>1, <2>1, <1>2, <1>3, <1>4 DEF JobOK, Guarding, Fails
  <2> QED BY <2>1, InboxesKept DEF Fails
<1>14. Latest'
    BY <1>2, <1>3 DEF Latest, Fails, RanStep
<1>15. Arrivals'
    BY <1>3 DEF Arrivals, Fails
<1>16. Fresh'
    BY <1>1, <1>2 DEF Fresh, Fails, OnlyStream, StreamTypes, Batons
<1> QED BY <1>5, <1>6, <1>7, <1>8, <1>9, <1>10, <1>11, <1>12, <1>13, <1>14, <1>15, <1>16

\* Only the threads move.
Still ==
    /\ ConnStep /\ RanStep
    /\ UNCHANGED <<handles, stream, timers, call, batons, used, turns>>

\* A step that leaves handles, streams and calls alone keeps the stream invariants true.
LEMMA StillStep ==
    ASSUME SInv, Still
    PROVE  SInv'
<1> USE DEF SInv, Streams, Orders
<1>1. /\ handles' = handles /\ stream' = stream /\ call' = call /\ batons' = batons /\ used' = used
      /\ turns' = turns /\ UNCHANGED timers /\ ConnStep /\ RanStep
    BY DEF Still
<1>2. StreamTypes'
    BY <1>1 DEF StreamTypes, ConnStep, RanStep
<1>3. CallShapes' /\ Held' /\ Arrivals'
    BY <1>1 DEF CallShapes, Held, Guarding, Arrivals
<1>4. TimerTypes' /\ Parked' /\ Cleaned' /\ Awake' /\ Fresh'
    BY <1>1 DEF timers, TimerTypes, Parked, Cleaned, Awake, Fresh
<1>5. Latest'
    BY <1>1 DEF Latest, RanStep
<1>6. Unused'
  <2>1. \A d \in Calls : call'[d].id \in {call[d].id, NoId} /\ call[d].id \in StreamIds \cup {NoId}
      BY <1>1 DEF CallShapes, IsCall
  <2> QED BY <2>1, <1>1, UnusedKept
<1>7. Inboxes'
  <2>1. ASSUME NEW t \in StreamIds, NEW j \in Jobs, JobOK(t, j)
        PROVE  JobOK(t, j)'
      BY <2>1, <1>1 DEF JobOK, Guarding
  <2> QED BY <2>1, <1>1, InboxesKept
<1> QED BY <1>2, <1>3, <1>4, <1>5, <1>6, <1>7

\* A call that has the stream s goes on with its next request.
Works(c, s) ==
    /\ Guarding(c, s) /\ OnlyCall(c) /\ call'[c].pc = "running" /\ call'[c].id = s
    /\ call'[c].turn = call[c].turn
    /\ OnlyStream(s) /\ stream'[s].baton_seq = stream[s].baton_seq
    /\ ConnStep /\ RanStep /\ UNCHANGED <<handles, timers, batons, used, turns>>
    /\ \A i \in 1..Len(conn'[s].inbox) : conn'[s].inbox[i].cursor \/ conn'[s].inbox[i].c # c

\* A step of a call on the stream it guards keeps the stream invariants true.
LEMMA WorksStep ==
    ASSUME SInv, NEW c \in Calls, NEW s \in StreamIds, Works(c, s)
    PROVE  SInv'
<1> USE DEF SInv, Streams, Orders
<1>1. /\ handles' = handles /\ batons' = batons /\ used' = used /\ turns' = turns
      /\ UNCHANGED timers /\ ConnStep /\ RanStep
    BY DEF Works
<1>2. /\ call'[c].pc = "running" /\ call'[c].id = s /\ call'[c].turn = call[c].turn
      /\ \A d \in Calls : d # c => call'[d] = call[d]
      /\ Guarding(c, s) /\ call[c].id = s /\ call[c].pc \in {"running", "waiting"}
    BY DEF Works, OnlyCall, Guarding
<1>3. handles[s] = "acquired" /\ \A d \in Calls : Guarding(d, s) <=> d = c
    BY <1>2 DEF Held
<1>4. /\ stream'[s].baton_seq = stream[s].baton_seq
      /\ \A t \in StreamIds : t # s => stream'[t] = stream[t]
      /\ stream' = [t \in StreamIds |-> stream'[t]] /\ \A t \in StreamIds : IsStream(stream'[t])
    BY DEF Works, OnlyStream
<1>5. StreamTypes'
    BY <1>1, <1>4 DEF StreamTypes, ConnStep, RanStep
<1>6. CallShapes'
    BY DEF Works, OnlyCall, CallShapes
<1>7. TimerTypes' /\ Cleaned' /\ Awake'
    BY <1>1 DEF timers, TimerTypes, Cleaned, Awake
<1>8. Held'
  <2>1. \A d \in Calls, t \in StreamIds : Guarding(d, t)' <=> Guarding(d, t)
      BY <1>2 DEF Guarding
  <2> QED BY <2>1, <1>1 DEF Held
<1>9. Parked'
    BY <1>1, <1>3, <1>4 DEF Parked, timers
<1>10. Unused'
  <2>1. \A d \in Calls : call'[d].id \in {call[d].id, NoId} /\ call[d].id \in StreamIds \cup {NoId}
      BY <1>2 DEF CallShapes, IsCall
  <2> QED BY <2>1, <1>1, UnusedKept
<1>11. Inboxes'
  <2>1. ASSUME NEW t \in StreamIds, NEW j \in Jobs, JobOK(t, j),
               NEW i \in 1..Len(conn'[t].inbox), j = conn'[t].inbox[i]
        PROVE  JobOK(t, j)'
    <3>1. j.c \in Calls /\ (t = s => j.cursor \/ j.c # c)
        BY <2>1 DEF Jobs, Works
    <3> QED BY <3>1, <2>1, <1>1, <1>2, <1>3 DEF JobOK, Guarding
  <2> QED BY <2>1, <1>1, InboxesKept
<1>12. Latest'
    BY <1>1, <1>2 DEF Latest, RanStep
<1>13. Arrivals'
    BY <1>1, <1>2 DEF Arrivals
<1>14. Fresh'
    BY <1>1, <1>4 DEF Fresh, StreamTypes, Batons
<1> QED BY <1>5, <1>6, <1>7, <1>8, <1>9, <1>10, <1>11, <1>12, <1>13, <1>14

\* A call that has no stream changes.
Aside(c) ==
    /\ OnlyCall(c) /\ call[c].pc \in {"new", "creating", "streaming"}
    /\ \/ call'[c].pc = "creating" /\ call'[c].id = NoId /\ call[c].pc = "new"
       \/ /\ call'[c].pc = "streaming" /\ call[c].pc = "streaming"
          /\ call'[c].id = call[c].id /\ call'[c].turn = call[c].turn
       \/ call'[c].pc = "done" /\ call'[c].id \in {NoId, call[c].id}
    /\ call[c].pc = "new" => \A d \in 1..(c - 1) : call[d].pc # "new"
    /\ batons' \subseteq Batons /\ UNCHANGED <<handles, stream, timers, conn, used, turns, ran>>

\* Nothing happens to the connections.
LEMMA ConnKept ==
    ASSUME StreamTypes, Unused, Latest, UNCHANGED <<conn, ran>>
    PROVE  ConnStep /\ RanStep
<1>1. ConnStep
  <2>1. \A t \in StreamIds : Len(conn[t].inbox) \in Nat
      BY InboxTypes
  <2>2. ASSUME NEW t \in StreamIds
        PROVE \E k \in 0..Len(conn[t].inbox) :
              /\ Len(conn'[t].inbox) = Len(conn[t].inbox) - k
              /\ \A i \in 1..Len(conn'[t].inbox) : conn'[t].inbox[i] = conn[t].inbox[i + k]
    <3>1. 0 \in 0..Len(conn[t].inbox)
        BY <2>1
    <3>2. \A i \in 1..Len(conn'[t].inbox) : i + 0 = i
        BY <2>1
    <3> QED BY <2>1, <3>1, <3>2
  <2> QED BY <2>2 DEF ConnStep, StreamTypes
<1>2. RanStep
    BY DEF RanStep, StreamTypes, Latest
<1> QED BY <1>1, <1>2

\* A step of a call that touches no stream keeps the stream invariants true.
LEMMA AsideStep ==
    ASSUME SInv, NEW c \in Calls, Aside(c)
    PROVE  SInv'
<1> USE DEF SInv, Streams, Orders
<1>1. /\ handles' = handles /\ stream' = stream /\ used' = used /\ turns' = turns /\ conn' = conn
      /\ ran' = ran /\ UNCHANGED timers /\ ConnStep /\ RanStep
    BY ConnKept DEF Aside
<1>2. /\ call[c].pc \in {"new", "creating", "streaming"} /\ \A d \in Calls : d # c => call'[d] = call[d]
      /\ call'[c].pc \in {"creating", "streaming", "done"} /\ call'[c].id \in {call[c].id, NoId}
      /\ call'[c].pc = "streaming" => call[c].pc = "streaming" /\ call'[c].id = call[c].id
                                      /\ call'[c].turn = call[c].turn
      /\ call'[c].pc = "creating" => call[c].pc = "new"
    BY DEF Aside, OnlyCall
<1>3. StreamTypes'
    BY <1>1 DEF StreamTypes, Aside
<1>4. CallShapes'
    BY DEF Aside, OnlyCall, CallShapes
<1>5. TimerTypes' /\ Cleaned' /\ Awake' /\ Parked' /\ Fresh'
    BY <1>1 DEF timers, TimerTypes, Cleaned, Awake, Parked, Fresh
<1>6. Held'
  <2>1. \A d \in Calls, t \in StreamIds : Guarding(d, t)' <=> Guarding(d, t)
      BY <1>2 DEF Guarding
  <2> QED BY <2>1, <1>1 DEF Held
<1>7. Unused'
  <2>1. \A d \in Calls : call'[d].id \in {call[d].id, NoId} /\ call[d].id \in StreamIds \cup {NoId}
      BY <1>2 DEF CallShapes, IsCall
  <2> QED BY <2>1, <1>1, UnusedKept
<1>8. Inboxes'
  <2>1. ASSUME NEW t \in StreamIds, NEW j \in Jobs, JobOK(t, j)
        PROVE  JobOK(t, j)'
    <3>1. j.c \in Calls
        BY <2>1 DEF Jobs
    <3> QED BY <3>1, <2>1, <1>1, <1>2 DEF JobOK, Guarding
  <2> QED BY <2>1, <1>1, InboxesKept
<1>9. Latest'
    BY <1>1, <1>2 DEF Latest
<1>10. Arrivals'
  <2>1. ASSUME NEW d \in Calls, call'[d].pc = "new"
        PROVE  d # c /\ call[d].pc = "new" /\ c < d
    <3>1. d # c /\ call[d].pc = "new"
        BY <1>2, <2>1
    <3>2. CASE call[c].pc # "new"
        BY <3>1, <3>2 DEF Arrivals
    <3>3. CASE call[c].pc = "new"
      <4>1. d \notin 1..(c - 1)
          BY <3>1, <3>3 DEF Aside
      <4> QED BY <4>1, <3>1, Constants
    <3> QED BY <3>1, <3>2, <3>3
  <2> QED BY <2>1, <1>1, <1>2 DEF Arrivals
<1> QED BY <1>3, <1>4, <1>5, <1>6, <1>7, <1>8, <1>9, <1>10

\* The call that has the stream s gives it back, to be used again.
Releases(c, s) ==
    /\ Guarding(c, s) /\ call[c].pc = "running" /\ OnlyCall(c)
    /\ \/ call'[c].pc = "done" /\ call'[c].id = NoId
       \/ call'[c].pc = "streaming" /\ call'[c].id = s /\ call'[c].turn = call[c].turn
    /\ stream[s].db /\ release(s)
    /\ batons' \subseteq Batons /\ UNCHANGED <<conn, used, turns, ran>>

\* Giving a stream back to the server state keeps the stream invariants true.
LEMMA ReleasesStep ==
    ASSUME SInv, NEW c \in Calls, NEW s \in StreamIds, Releases(c, s)
    PROVE  SInv'
<1> USE DEF SInv, Streams, Orders
<1>1. /\ stream' = stream /\ used' = used /\ turns' = turns /\ conn' = conn /\ ran' = ran
      /\ UNCHANGED <<cleanup_queue, expire_sleep>> /\ mark_expire(s) /\ ConnStep /\ RanStep
      /\ handles' = [handles EXCEPT ![s] = "available"] /\ stream[s].db
    BY ConnKept DEF Releases, release
<1>2. /\ call[c].pc = "running" /\ call[c].id = s /\ call'[c].pc \in {"streaming", "done"}
      /\ call'[c].id \in {call[c].id, NoId} /\ \A d \in Calls : d # c => call'[d] = call[d]
      /\ call'[c].pc = "streaming" => call'[c].id = s /\ call'[c].turn = call[c].turn
    BY DEF Releases, OnlyCall, Guarding
<1>3. handles[s] = "acquired" /\ \A d \in Calls : Guarding(d, s) <=> d = c
    BY DEF Held, Releases
<1>4. /\ handles'[s] = "available" /\ \A t \in StreamIds : t # s => handles'[t] = handles[t]
      /\ handles' \in [StreamIds -> {"none", "available", "acquired", "expired"}]
    BY <1>1 DEF StreamTypes
<1>5. /\ DOMAIN expire_queue' = DOMAIN expire_queue \cup {s}
      /\ expire_queue'[s] = EXPIRATION + 1
      /\ \A t \in DOMAIN expire_queue : t # s => expire_queue'[t] = expire_queue[t]
    BY <1>1 DEF mark_expire, With, roundup_instant
<1>6. StreamTypes'
    BY <1>1, <1>4 DEF StreamTypes, Releases
<1>7. CallShapes'
    BY DEF Releases, OnlyCall, CallShapes
<1>8. woken' \in BOOLEAN /\ expire_waker' \in BOOLEAN
    BY <1>1 DEF mark_expire, TimerTypes
<1>9. TimerTypes'
    BY <1>1, <1>5, <1>8, Constants DEF TimerTypes
<1>10. Awake'
  <2>1. expire_sleep \in Nat /\ EXPIRATION + 1 \in Nat
      BY Constants DEF TimerTypes
  <2>2. CASE woken'
      BY <2>2 DEF Awake
  <2>3. CASE ~woken'
    <3>1. ~woken /\ ~(expire_sleep > EXPIRATION + 1 /\ expire_waker)
        BY <2>3, <1>1 DEF mark_expire, roundup_instant
    <3>2. expire_sleep > 0 /\ expire_waker
        BY <3>1 DEF Awake
    <3>3. expire_sleep <= EXPIRATION + 1 /\ expire_waker'
      <4>1. ~(expire_sleep > EXPIRATION + 1)
          BY <3>1, <3>2
      <4>2. expire_waker'
          BY <3>2, <4>1, <1>1 DEF mark_expire, roundup_instant
      <4> QED BY <4>1, <4>2, <2>1
    <3>4. \A t \in DOMAIN expire_queue' : expire_sleep' <= expire_queue'[t]
        BY <3>1, <3>3, <1>1, <1>5 DEF Awake
    <3> QED BY <3>2, <3>3, <3>4, <1>1 DEF Awake
  <2> QED BY <2>2, <2>3
<1>11. Held'
    BY <1>2, <1>3, <1>4, Constants DEF Held, Guarding
<1>12. Parked'
    BY <1>1, <1>4, <1>5 DEF Parked
<1>13. Cleaned'
    BY <1>1, <1>3, <1>4 DEF Cleaned
<1>14. Unused'
  <2>1. \A d \in Calls : call'[d].id \in {call[d].id, NoId} /\ call[d].id \in StreamIds \cup {NoId}
      BY <1>2 DEF CallShapes, IsCall
  <2> QED BY <2>1, <1>1, <1>3, <1>4, UnusedKept
<1>15. Inboxes'
  <2>1. ASSUME NEW t \in StreamIds, NEW j \in Jobs, JobOK(t, j)
        PROVE  JobOK(t, j)'
    <3>1. j.c \in Calls
        BY <2>1 DEF Jobs
    <3> QED BY <3>1, <2>1, <1>1, <1>2, <1>3, <1>4 DEF JobOK, Guarding
  <2> QED BY <2>1, <1>1, InboxesKept
<1>16. Latest'
  <2>1. turns[s] >= 1
      BY <1>3 DEF Latest
  <2>2. call[c].turn = turns[s] /\ turns[s] \in Nat
      BY <1>2 DEF Latest, StreamTypes
  <2> QED BY <2>1, <2>2, <1>1, <1>2, <1>4 DEF Latest
<1>17. Arrivals'
    BY <1>1, <1>2 DEF Arrivals
<1>18. Fresh'
    BY <1>1, <1>3, <1>4 DEF Fresh, StreamTypes, Batons
<1> QED BY <1>6, <1>7, <1>9, <1>10, <1>11, <1>12, <1>13, <1>14, <1>15, <1>16, <1>17, <1>18

\* The next sequence number.
LEMMA NextSeq ==
    ASSUME NEW x \in SeqNos
    PROVE  (x + 1) % SeqWrap = IF x + 1 = SeqWrap THEN 0 ELSE x + 1
<1>1. SeqWrap \in Nat /\ SeqWrap > 0 /\ x \in Nat /\ x < SeqWrap
    BY Constants DEF SeqNos
<1>2. CASE x + 1 = SeqWrap
    BY <1>1, <1>2
<1>3. CASE x + 1 # SeqWrap
    BY <1>1, <1>3
<1> QED BY <1>2, <1>3

\* A baton is accepted.
LEMMA AcquireStep ==
    ASSUME SInv, NEW c \in Calls, NEW b \in batons, NEW body \in Bodies, Arrives(c, body),
           AcquireStream(c, b, body), UNCHANGED <<conn, batons, ran>>
    PROVE  SInv' /\ call'[c].pc = "running" /\ OnlyCall(c) /\ ~call'[c].ok /\ call'[c].got = <<>>
<1> USE DEF SInv, Streams, Orders
<1>0. PICK s \in StreamIds : s = b.id
    BY DEF StreamTypes, Batons
<1>1. handles[s] = "available" /\ stream[s].baton_seq = b.seq /\ b \in Batons
    BY <1>0 DEF AcquireStream, Refused, StreamTypes
<1>2. call[c].pc = "new" /\ \A d \in 1..(c - 1) : call[d].pc # "new"
    BY DEF Arrives
<1>4. turns[s] \in Nat /\ turns[s] >= 1
    BY <1>1 DEF Latest, StreamTypes
<1>5. /\ OnlyCall(c) /\ call'[c].pc = "running" /\ call'[c].id = s /\ call'[c].turn = turns[s] + 1
      /\ ~call'[c].ok /\ call'[c].got = <<>>
  <2>1. call' = [call EXCEPT ![c] = [Asks(body) EXCEPT !.pc = "running", !.id = s,
                                                       !.turn = turns[s] + 1]]
      BY <1>0 DEF AcquireStream
  <2>2. turns[s] + 1 \in Nat
      BY <1>4
  <2> QED BY <2>1, <2>2, RunningCall
<1>6. \A d \in Calls : d # c => call'[d] = call[d]
    BY <1>5 DEF OnlyCall
<1>7. /\ handles'[s] = "acquired" /\ \A t \in StreamIds : t # s => handles'[t] = handles[t]
      /\ handles' \in [StreamIds -> {"none", "available", "acquired", "expired"}]
    BY <1>0 DEF AcquireStream, StreamTypes
<1>8. /\ turns'[s] = turns[s] + 1 /\ \A t \in StreamIds : t # s => turns'[t] = turns[t]
      /\ turns' \in [StreamIds -> Nat]
    BY <1>0, <1>4 DEF AcquireStream, StreamTypes
<1>9. /\ DOMAIN expire_queue' = DOMAIN expire_queue \ {s}
      /\ \A t \in DOMAIN expire_queue' : expire_queue'[t] = expire_queue[t]
      /\ UNCHANGED <<cleanup_queue, expire_sleep, expire_waker, woken>> /\ used' = used \cup {b}
    BY <1>0 DEF AcquireStream, unmark_expire, Without
<1>10. /\ OnlyStream(s) /\ stream'[s].db = stream[s].db
       /\ stream'[s].baton_seq = IF stream[s].baton_seq + 1 = SeqWrap THEN 0
                                 ELSE stream[s].baton_seq + 1
  <2> DEFINE x == [stream[s] EXCEPT !.baton_seq = (stream[s].baton_seq + 1) % SeqWrap]
  <2>1. IsStream(stream[s]) /\ s \in DOMAIN stream
      BY DEF StreamTypes
  <2>2. stream' = [stream EXCEPT ![s] = x]
      BY <1>0, <2>1 DEF AcquireStream, IsStream
  <2>3. /\ DOMAIN x = {"db", "sqls", "baton_seq"} /\ x.db = stream[s].db /\ x.sqls = stream[s].sqls
        /\ x.baton_seq = (stream[s].baton_seq + 1) % SeqWrap
      BY <2>1 DEF IsStream
  <2> HIDE DEF x
  <2>4. stream[s].baton_seq \in SeqNos
      BY <2>1 DEF IsStream
  <2>5. x.baton_seq = IF stream[s].baton_seq + 1 = SeqWrap THEN 0 ELSE stream[s].baton_seq + 1
      BY <2>3, <2>4, NextSeq
  <2>6. x.baton_seq \in SeqNos
      BY <2>4, <2>5, Constants DEF SeqNos
  <2>7. IsStream(x)
      BY <2>1, <2>3, <2>6 DEF IsStream
  <2> QED BY <2>2, <2>3, <2>5, <2>7, StreamAt
<1>11. StreamTypes'
    BY <1>1, <1>7, <1>8, <1>9, <1>10 DEF StreamTypes, OnlyStream
<1>12. CallShapes'
    BY <1>5 DEF OnlyCall, CallShapes
<1>13. TimerTypes' /\ Awake'
    BY <1>9 DEF TimerTypes, Awake
<1>14. Held'
  <2>1. \A d \in Calls : ~Guarding(d, s)
      BY <1>1 DEF Held
  <2> QED BY <2>1, <1>2, <1>5, <1>6, <1>7 DEF Held, Guarding
<1>15. Parked'
    BY <1>7, <1>9, <1>10 DEF Parked, OnlyStream
<1>16. Cleaned'
    BY <1>1, <1>7, <1>9 DEF Cleaned
<1>17. conn[s].th # "none"
    BY <1>1 DEF Unused
<1>18. Unused'
    BY <1>0, <1>5, <1>6, <1>7, <1>8, <1>9, <1>17 DEF Unused
<1>19. Inboxes'
  <2>1. ConnStep
      BY ConnKept
  <2>2. ASSUME NEW t \in StreamIds, NEW j \in Jobs, JobOK(t, j)
        PROVE  JobOK(t, j)'
    <3>1. j.c \in Calls /\ j.turn \in Nat
        BY <2>2 DEF Jobs
    <3> QED BY <3>1, <2>2, <1>1, <1>2, <1>4, <1>5, <1>6, <1>7, <1>8 DEF JobOK, Guarding
  <2> QED BY <2>1, <2>2, InboxesKept
<1>20. Latest'
  <2>1. ASSUME NEW d \in Calls, d # c, call[d].pc \in {"running", "waiting", "streaming"}
        PROVE  call[d].id \in StreamIds /\ (call[d].id = s => call[d].pc = "streaming")
                /\ call[d].turn \in Nat
    <3>1. call[d].id \in StreamIds /\ call[d].turn \in Nat
        BY <2>1 DEF CallShapes, IsCall
    <3>2. ~Guarding(d, s)
        BY <1>1 DEF Held
    <3> QED BY <3>1, <3>2, <2>1 DEF Guarding
  <2>2. \A d \in Calls : call'[d].pc \in {"running", "waiting"} => call'[d].turn = turns'[call'[d].id]
      BY <2>1, <1>5, <1>6, <1>8 DEF Latest
  <2>3. \A d \in Calls : call'[d].pc = "streaming" => call'[d].turn <= turns'[call'[d].id]
    <3> SUFFICES ASSUME NEW d \in Calls, call'[d].pc = "streaming"
                 PROVE  call'[d].turn <= turns'[call'[d].id]
        OBVIOUS
    <3>1. d # c /\ call'[d] = call[d] /\ call[d].pc = "streaming"
        BY <1>5, <1>6
    <3>2. call[d].id \in StreamIds /\ call[d].turn \in Nat /\ turns[call[d].id] \in Nat
        BY <2>1, <3>1 DEF StreamTypes
    <3>3. call[d].turn <= turns[call[d].id]
        BY <3>1 DEF Latest
    <3>4. turns[call[d].id] <= turns'[call[d].id]
        BY <3>2, <1>4, <1>8
    <3> QED BY <3>1, <3>2, <3>3, <3>4, <1>8
  <2>4. \A t \in StreamIds : ran'[t] <= turns'[t] /\ (handles'[t] # "none" => turns'[t] >= 1)
      BY <1>4, <1>7, <1>8 DEF Latest, StreamTypes
  <2> QED BY <2>2, <2>3, <2>4 DEF Latest
<1>21. Arrivals'
  <2>1. ASSUME NEW d \in Calls, call'[d].pc = "new"
        PROVE  d # c /\ call[d].pc = "new" /\ c < d
    <3>1. d # c /\ call[d].pc = "new"
        BY <1>5, <1>6, <2>1
    <3>2. d \notin 1..(c - 1)
        BY <3>1, <1>2
    <3> QED BY <3>1, <3>2, Constants
  <2>2. turns[s] < c
      BY <1>2 DEF Arrivals
  <2>3. c \in Nat /\ turns[s] + 1 <= c
      BY <2>2, <1>4, Constants
  <2>4. ASSUME NEW d \in Calls, call'[d].pc = "new"
        PROVE  /\ \A e \in Calls : call'[e].pc # "new" => e < d
               /\ \A t \in StreamIds : turns'[t] < d
    <3>1. d # c /\ call[d].pc = "new" /\ c < d /\ d \in Nat
        BY <2>1, <2>4, Constants
    <3>2. \A t \in StreamIds : turns'[t] < d
        BY <3>1, <2>3, <1>4, <1>8 DEF Arrivals
    <3> QED BY <3>1, <3>2, <1>6 DEF Arrivals
  <2> QED BY <2>4 DEF Arrivals
<1>22. Fresh'
  <2> DEFINE q == stream[s].baton_seq
             r == stream'[s].baton_seq
             W == SeqWrap
  <2>1. q \in SeqNos /\ W \in Nat /\ W >= 1 /\ r = IF q + 1 = W THEN 0 ELSE q + 1
      BY <1>10, Constants DEF StreamTypes, IsStream
  <2>2. ASSUME NEW x \in used', x.id = s
        PROVE  \E k \in 1..(turns'[s] - 1) : x.seq + k = r \/ x.seq + k = r + W
    <3>1. x.seq \in SeqNos
        BY <1>11 DEF StreamTypes, Batons
    <3>2. CASE x = b
      <4>1. x.seq = q
          BY <3>2, <1>1
      <4>2. 1 \in 1..(turns'[s] - 1)
          BY <1>4, <1>8
      <4>3. x.seq + 1 = r \/ x.seq + 1 = r + W
          BY <4>1, <2>1 DEF SeqNos
      <4> QED BY <4>2, <4>3
    <3>3. CASE x # b
      <4>1. PICK k \in 1..(turns[s] - 1) : x.seq + k = q \/ x.seq + k = q + W
          BY <3>3, <2>2, <1>1, <1>9 DEF Fresh
      <4> HIDE DEF q, r, W
      <4>2. k + 1 \in 1..(turns'[s] - 1)
          BY <1>4, <1>8
      <4>3. CASE x.seq + k = q
        <5>1. x.seq + (k + 1) = r \/ x.seq + (k + 1) = r + W
            BY <4>3, <3>1, <2>1 DEF SeqNos
        <5> QED BY <5>1, <4>2
      <4>4. CASE x.seq + k = q + W /\ q + 1 # W
        <5>1. x.seq + (k + 1) = r + W
            BY <4>4, <3>1, <2>1 DEF SeqNos
        <5> QED BY <5>1, <4>2
      <4>5. CASE x.seq + k = q + W /\ q + 1 = W
        <5>1. x.seq \in Nat /\ x.seq < W
            BY <3>1, <2>1 DEF SeqNos, W
        <5>2. k + 1 - W \in 1..(turns'[s] - 1) /\ x.seq + (k + 1 - W) = r + W
          <6>1. q \in Nat /\ W \in Nat /\ r = 0 /\ k \in Int /\ turns'[s] \in Int
              BY <4>5, <2>1, <1>8, <1>4, Constants DEF SeqNos, W
          <6>2. x.seq + (k + 1 - W) = r + W
              BY <6>1, <5>1, <4>5
          <6>3. k + 1 - W >= 1 /\ k + 1 - W <= turns'[s] - 1
              BY <6>1, <6>2, <5>1, <4>2
          <6> QED BY <6>1, <6>2, <6>3
        <5> QED BY <5>2
      <4> QED BY <4>1, <4>3, <4>4, <4>5
    <3> QED BY <3>2, <3>3
  <2>3. ASSUME NEW x \in used', x.id # s, handles'[x.id] \in {"available", "acquired"}
        PROVE  \E k \in 1..(turns'[x.id] - 1) :
                  \/ x.seq + k = stream'[x.id].baton_seq
                  \/ x.seq + k = stream'[x.id].baton_seq + W
    <3>1. x \in used /\ x.id \in StreamIds
        BY <2>3, <1>0, <1>9 DEF StreamTypes, Batons
    <3> QED BY <3>1, <2>3, <1>7, <1>8, <1>10 DEF Fresh, OnlyStream
  <2> QED BY <2>2, <2>3 DEF Fresh
<1> QED BY <1>5, <1>11, <1>12, <1>13, <1>14, <1>15, <1>16, <1>18, <1>19, <1>20, <1>21, <1>22

\* gen_stream_id finds one that was not used.
LEMMA FreshIdIs ==
    ASSUME NEW s \in FreshId
    PROVE  s \in StreamIds /\ conn[s].th = "none"
<1> DEFINE unused == {t \in StreamIds : conn[t].th = "none"}
<1>1. unused # {} /\ s = CHOOSE t \in unused : TRUE
    BY DEF FreshId
<1>2. s \in unused
    BY <1>1
<1> QED BY <1>2

\* A stream is created.
LEMMA CreateStreamStep ==
    ASSUME SInv, NEW c \in Calls, CreateStream(c)
    PROVE  /\ SInv' /\ call'[c].pc = "running" /\ OnlyCall(c)
           /\ call'[c].ok = call[c].ok /\ call'[c].got = call[c].got
<1> USE DEF SInv, Streams, Orders
<1>0. PICK s \in FreshId, seq \in FirstSeqs :
        /\ handles' = [handles EXCEPT ![s] = "acquired"]
        /\ stream' = [stream EXCEPT ![s] = [db |-> TRUE, sqls |-> <<>>, baton_seq |-> seq]]
        /\ conn' = [conn EXCEPT ![s].th = "up"]
        /\ call' = [call EXCEPT ![c].pc = "running", ![c].id = s, ![c].turn = 1]
        /\ turns' = [turns EXCEPT ![s] = 1]
    BY DEF CreateStream
<1>1. s \in StreamIds /\ conn[s].th = "none" /\ call[c].pc = "creating"
    BY FreshIdIs DEF CreateStream
<1>2. /\ handles[s] = "none" /\ Len(conn[s].inbox) = 0 /\ turns[s] = 0 /\ ran[s] = 0
      /\ \A b \in used : b.id # s
    BY <1>1 DEF Unused
<1>3. /\ UNCHANGED timers /\ batons' = batons /\ used' = used /\ ran' = ran
    BY DEF CreateStream
<1>4. /\ OnlyCall(c) /\ call'[c].pc = "running" /\ call'[c].id = s /\ call'[c].turn = 1
      /\ call'[c].ok = call[c].ok /\ call'[c].got = call[c].got
    BY <1>0, <1>1, CreatedCall
<1>5. \A d \in Calls : d # c => call'[d] = call[d]
    BY <1>4 DEF OnlyCall
<1>6. /\ handles'[s] = "acquired" /\ \A t \in StreamIds : t # s => handles'[t] = handles[t]
      /\ handles' \in [StreamIds -> {"none", "available", "acquired", "expired"}]
      /\ turns'[s] = 1 /\ \A t \in StreamIds : t # s => turns'[t] = turns[t]
      /\ turns' \in [StreamIds -> Nat]
    BY <1>0, <1>1 DEF StreamTypes
<1>7. /\ conn' \in [StreamIds -> Conns] /\ conn'[s].th = "up" /\ conn'[s].inbox = conn[s].inbox
      /\ \A t \in StreamIds : t # s => conn'[t] = conn[t]
    BY <1>0, <1>1 DEF StreamTypes, Conns
<1>8. OnlyStream(s)
  <2> DEFINE x == [db |-> TRUE, sqls |-> <<>>, baton_seq |-> seq]
  <2>1. DOMAIN x.sqls = {} /\ x.db \in BOOLEAN /\ x.baton_seq = seq
        /\ DOMAIN x = {"db", "sqls", "baton_seq"} /\ seq \in SeqNos
      BY Constants
  <2>2. IsFiniteSet({}) /\ Cardinality({}) = 0
      BY FS_EmptySet
  <2>3. IsStream(x)
      BY <2>1, <2>2, Constants, HttpAssumption DEF IsStream
  <2> HIDE DEF x
  <2> QED BY <2>3, <1>0, <1>1, StreamAt DEF x
<1>9. StreamTypes'
    BY <1>3, <1>6, <1>7, <1>8 DEF StreamTypes, OnlyStream
<1>10. CallShapes'
    BY <1>4 DEF OnlyCall, CallShapes
<1>11. TimerTypes' /\ Awake'
    BY <1>3 DEF TimerTypes, Awake, timers
<1>12. \A d \in Calls : call[d].id # s
    BY <1>1, Constants DEF Unused
<1>13. Held'
    BY <1>1, <1>2, <1>4, <1>5, <1>6, <1>12 DEF Held, Guarding
<1>14. Parked'
    BY <1>2, <1>3, <1>6, <1>8 DEF Parked, OnlyStream, timers
<1>15. Cleaned'
    BY <1>2, <1>3, <1>6 DEF Cleaned, timers
<1>16. Unused'
  <2>1. \A d \in Calls : call[d].id \in StreamIds \cup {NoId}
      BY DEF CallShapes, IsCall
  <2> QED BY <2>1, <1>3, <1>4, <1>5, <1>6, <1>7 DEF Unused
<1>17. Inboxes'
  <2>1. ASSUME NEW t \in StreamIds, t # s, NEW j \in Jobs, JobOK(t, j)
        PROVE  JobOK(t, j)'
    <3>1. j.c \in Calls
        BY DEF Jobs
    <3> QED BY <3>1, <2>1, <1>1, <1>4, <1>5, <1>6 DEF JobOK, Guarding
  <2>2. ASSUME NEW t \in StreamIds, t # s
        PROVE  \A i \in 1..Len(conn'[t].inbox) : JobOK(t, conn[t].inbox[i])'
    <3>1. conn'[t] = conn[t]
        BY <2>2, <1>7
    <3>2. ASSUME NEW i \in 1..Len(conn[t].inbox)
          PROVE  JobOK(t, conn[t].inbox[i])'
      <4>1. PICK j : j = conn[t].inbox[i]
          OBVIOUS
      <4>2. JobOK(t, j) /\ j \in Jobs /\ conn'[t].inbox[i] = j
          BY <3>1, <4>1, InboxTypes DEF Inboxes
      <4>3. JobOK(t, j)'
          BY <4>2, <2>1, <2>2
      <4> QED BY <4>2, <4>3
    <3> QED BY <3>1, <3>2
  <2>3. 1..Len(conn'[s].inbox) = {}
      BY <1>2, <1>7
  <2>4. \A t \in StreamIds : t # s => \A i, j \in 1..Len(conn'[t].inbox) :
              ~conn'[t].inbox[i].cursor /\ ~conn'[t].inbox[j].cursor => i = j
      BY <1>7 DEF Inboxes
  <2> QED BY <2>2, <2>3, <2>4 DEF Inboxes
<1>18. Latest'
  <2>1. \A d \in Calls : call[d].pc \in {"running", "waiting", "streaming"} => call[d].id \in StreamIds
      BY DEF CallShapes, IsCall
  <2>2. \A t \in StreamIds : ran'[t] <= turns'[t] /\ (handles'[t] # "none" => turns'[t] >= 1)
      BY <1>2, <1>3, <1>6 DEF Latest
  <2> QED BY <2>1, <2>2, <1>4, <1>5, <1>6, <1>12 DEF Latest
<1>19. Arrivals'
  <2>1. ASSUME NEW d \in Calls, call'[d].pc = "new"
        PROVE  d # c /\ call[d].pc = "new" /\ c < d /\ 1 < d
    <3>1. d # c /\ call[d].pc = "new" /\ c < d
        BY <2>1, <1>1, <1>4, <1>5 DEF Arrivals
    <3> QED BY <3>1, Constants
  <2> QED BY <2>1, <1>5, <1>6 DEF Arrivals
<1>20. Fresh'
  <2>1. ASSUME NEW b \in used
        PROVE  /\ b.id \in StreamIds /\ b.id # s
               /\ stream'[b.id] = stream[b.id] /\ turns'[b.id] = turns[b.id]
               /\ handles'[b.id] = handles[b.id]
    <3>1. b.id \in StreamIds /\ b.id # s
        BY <1>2 DEF StreamTypes, Batons
    <3> QED BY <3>1, <1>6, <1>8 DEF OnlyStream
  <2> QED BY <2>1, <1>3 DEF Fresh
<1> QED BY <1>4, <1>9, <1>10, <1>11, <1>13, <1>14, <1>15, <1>16, <1>17, <1>18, <1>19, <1>20

\* A program is sent to the connection.
LEMMA SendsStep ==
    ASSUME SInv, NEW c \in Calls, NEW s \in StreamIds, NEW k \in BOOLEAN, conn[s].th = "up",
           call[c].id = s, Sent(s, c, k),
           \/ ~k /\ call[c].pc = "running" /\ call' = [call EXCEPT ![c].pc = "waiting"]
           \/ k /\ call[c].pc = "streaming" /\ call' = call,
           UNCHANGED <<handles, stream, timers, batons, used, turns, ran>>
    PROVE  SInv'
<1> USE DEF SInv, Streams, Orders
<1>1. PICK j : j = [c |-> c, cursor |-> k, turn |-> call[c].turn]
    OBVIOUS
<1>2. call[c].turn \in Nat /\ call[c].turn <= turns[s] /\ (~k => call[c].turn = turns[s])
      /\ turns[s] \in Nat
    BY DEF CallShapes, IsCall, Latest, StreamTypes
<1>3. j \in Jobs /\ j.c = c /\ j.turn = call[c].turn /\ (j.cursor <=> k)
    BY <1>1, <1>2 DEF Jobs
<1>4. /\ Len(conn[s].inbox) \in Nat /\ conn[s].inbox \in Seq(Jobs)
    BY InboxTypes
<1>5. PICK box : box = Append(conn[s].inbox, j)
    OBVIOUS
<1>6. /\ box \in Seq(Jobs) /\ Len(box) = Len(conn[s].inbox) + 1 /\ box[Len(box)] = j
      /\ \A i \in 1..Len(conn[s].inbox) : box[i] = conn[s].inbox[i]
    BY <1>3, <1>4, <1>5
<1>7. conn' = [conn EXCEPT ![s].inbox = box]
    BY <1>1, <1>5 DEF Sent
<1>8. /\ conn' \in [StreamIds -> Conns] /\ conn'[s].th = "up" /\ conn'[s].inbox = box
      /\ \A t \in StreamIds : t # s => conn'[t] = conn[t]
    BY <1>6, <1>7 DEF StreamTypes, Conns
<1>9. /\ handles' = handles /\ stream' = stream /\ batons' = batons /\ used' = used
      /\ turns' = turns /\ ran' = ran /\ UNCHANGED timers
    OBVIOUS
<1>10. /\ OnlyCall(c) /\ call'[c].id = s /\ call'[c].turn = call[c].turn
       /\ ~k => call[c].pc = "running" /\ call'[c].pc = "waiting"
       /\ k => call[c].pc = "streaming" /\ call'[c].pc = "streaming"
  <2>1. CASE k
      BY <2>1 DEF OnlyCall, CallShapes
  <2>2. CASE ~k
      BY <2>2, WaitingCall
  <2> QED BY <2>1, <2>2
<1>11. \A d \in Calls : d # c => call'[d] = call[d]
    BY <1>10 DEF OnlyCall
<1>12. StreamTypes'
    BY <1>8, <1>9 DEF StreamTypes
<1>13. CallShapes'
    BY <1>10 DEF OnlyCall, CallShapes
<1>14. TimerTypes' /\ Parked' /\ Cleaned' /\ Awake' /\ Fresh'
    BY <1>9 DEF timers, TimerTypes, Parked, Cleaned, Awake, Fresh
<1>15. Held'
  <2>1. \A d \in Calls, t \in StreamIds : Guarding(d, t)' <=> Guarding(d, t)
      BY <1>10, <1>11 DEF Guarding
  <2> QED BY <2>1, <1>9 DEF Held
<1>16. Unused'
  <2>1. \A d \in Calls : call[d].id \in StreamIds \cup {NoId}
      BY DEF CallShapes, IsCall
  <2> QED BY <2>1, <1>8, <1>9, <1>10, <1>11 DEF Unused
<1>17. Latest' /\ Arrivals'
    BY <1>9, <1>10, <1>11 DEF Latest, Arrivals
<1>18. ~k => Guarding(c, s) /\ handles[s] = "acquired" /\ \A d \in Calls : Guarding(d, s) <=> d = c
  <2>1. ~k => Guarding(c, s)
      BY <1>10 DEF Guarding
  <2> QED BY <2>1 DEF Held
<1>19. Inboxes'
  <2>1. ASSUME NEW t \in StreamIds, NEW x \in Jobs, JobOK(t, x)
        PROVE  JobOK(t, x)'
    <3>1. x.c \in Calls
        BY DEF Jobs
    <3> QED BY <3>1, <2>1, <1>9, <1>10, <1>11, <1>18 DEF JobOK, Guarding
  <2>2. JobOK(s, j)'
      BY <1>2, <1>3, <1>9, <1>10, <1>18 DEF JobOK, Guarding
  <2>3. ASSUME NEW t \in StreamIds, NEW i \in 1..Len(conn'[t].inbox)
        PROVE  JobOK(t, conn[t].inbox[i])'
    <3>1. CASE t = s /\ i = Len(box)
        BY <3>1, <2>2, <1>6, <1>8
    <3>2. CASE ~(t = s /\ i = Len(box))
      <4>1. i \in 1..Len(conn[t].inbox) /\ conn'[t].inbox[i] = conn[t].inbox[i]
          BY <3>2, <1>4, <1>6, <1>8
      <4>2. PICK x : x = conn[t].inbox[i]
          OBVIOUS
      <4>3. JobOK(t, x) /\ x \in Jobs /\ conn'[t].inbox[i] = x
          BY <4>1, <4>2, InboxTypes DEF Inboxes
      <4>4. JobOK(t, x)'
          BY <4>3, <2>1
      <4> QED BY <4>3, <4>4
    <3> QED BY <3>1, <3>2
  <2>4. ASSUME ~k, NEW i \in 1..Len(conn[s].inbox)
        PROVE  conn[s].inbox[i].cursor
    <3>1. PICK x : x = conn[s].inbox[i]
        OBVIOUS
    <3>2. x \in Jobs /\ JobOK(s, x)
        BY <3>1, InboxTypes DEF Inboxes
    <3>3. x.c \in Calls /\ x.cursor \in BOOLEAN
        BY <3>2 DEF Jobs
    <3>4. x.cursor
        BY <3>2, <3>3, <2>4, <1>10, <1>18 DEF JobOK
    <3> QED BY <3>1, <3>4
  <2>5. ASSUME NEW t \in StreamIds, NEW a \in 1..Len(conn'[t].inbox), NEW b \in 1..Len(conn'[t].inbox),
               ~conn'[t].inbox[a].cursor, ~conn'[t].inbox[b].cursor
        PROVE  a = b
    <3>1. CASE t # s
        BY <3>1, <2>5, <1>8 DEF Inboxes
    <3>2. CASE t = s /\ k
      <4>1. box[Len(box)].cursor
          BY <3>2, <1>3, <1>6
      <4>2. a # Len(box) /\ b # Len(box) /\ a \in 1..Len(box) /\ b \in 1..Len(box)
          BY <4>1, <3>2, <2>5, <1>8
      <4>3. a \in 1..Len(conn[s].inbox) /\ b \in 1..Len(conn[s].inbox)
          BY <4>2, <1>4, <1>6
      <4>4. conn'[t].inbox[a] = conn[s].inbox[a] /\ conn'[t].inbox[b] = conn[s].inbox[b]
          BY <4>3, <3>2, <1>6, <1>8
      <4> QED BY <4>3, <4>4, <2>5 DEF Inboxes
    <3>3. CASE t = s /\ ~k
      <4>1. \A i \in 1..Len(conn[s].inbox) : conn'[t].inbox[i].cursor
          BY <3>3, <2>4, <1>6, <1>8
      <4>2. a \in 1..Len(box) /\ b \in 1..Len(box)
          BY <3>3, <1>8
      <4> QED BY <4>1, <4>2, <2>5, <1>4, <1>6
    <3> QED BY <3>1, <3>2, <3>3
  <2> QED BY <2>3, <2>5 DEF Inboxes
<1> QED BY <1>12, <1>13, <1>14, <1>15, <1>16, <1>17, <1>19

\* Two intervals from 1 are the same only if they end together.
LEMMA SameInterval ==
    ASSUME NEW m \in Nat, NEW n \in Nat, 1..m = 1..n
    PROVE  m = n
<1>1. m < n => n \in 1..n /\ n \notin 1..m
    OBVIOUS
<1>2. n < m => m \in 1..m /\ m \notin 1..n
    OBVIOUS
<1> QED BY <1>1, <1>2

\* A function on an interval from 1 is a list of that length.
LEMMA ListOf ==
    ASSUME NEW S, NEW m \in Nat, NEW f \in [1..m -> S]
    PROVE  f \in Seq(S) /\ Len(f) = m
<1>1. f \in Seq(S)
  <2>1. f \in UNION {[1..n -> S] : n \in Nat}
      OBVIOUS
  <2> QED BY <2>1, SeqDef, Zenon
<1>2. DOMAIN f = 1..Len(f) /\ Len(f) \in Nat
    BY <1>1, LenProperties
<1>3. 1..Len(f) = 1..m
    BY <1>2
<1>4. Len(f) = m
    BY <1>2, <1>3, SameInterval
<1> QED BY <1>1, <1>4

\* A second passes.
LEMMA TickStep ==
    ASSUME SInv, Tick
    PROVE  SInv'
<1> USE DEF SInv, Streams, Orders
<1>1. /\ handles' = handles /\ stream' = stream /\ call' = call /\ batons' = batons /\ used' = used
      /\ turns' = turns /\ conn' = conn /\ ran' = ran /\ expire_waker' = expire_waker
      /\ ~woken /\ expire_sleep' = Down(expire_sleep) /\ woken' = (expire_sleep = 1)
    BY DEF Tick, history
<1>2. StreamTypes' /\ CallShapes' /\ Held' /\ Unused' /\ Inboxes' /\ Latest' /\ Arrivals' /\ Fresh'
  <2>1. StreamTypes' /\ CallShapes' /\ Held' /\ Unused'
      BY <1>1 DEF StreamTypes, CallShapes, Held, Unused, Guarding
  <2>2. Inboxes'
    <3>1. ASSUME NEW s \in StreamIds, NEW j \in Jobs
          PROVE  JobOK(s, j)' <=> JobOK(s, j)
        BY <1>1 DEF JobOK, Guarding
    <3> QED BY <3>1, <1>1, InboxTypes DEF Inboxes
  <2>3. Latest' /\ Arrivals' /\ Fresh'
      BY <1>1 DEF Latest, Arrivals, Fresh
  <2> QED BY <2>1, <2>2, <2>3
<1>3. /\ DOMAIN expire_queue' = DOMAIN expire_queue
      /\ \A s \in DOMAIN expire_queue : expire_queue'[s] = Down(expire_queue[s])
    BY DEF Tick
<1>4. Parked'
    BY <1>1, <1>3 DEF Parked
<1>5. /\ cleanup_queue' \in Seq(Cleanups) /\ Len(cleanup_queue') = Len(cleanup_queue)
      /\ \A i \in 1..Len(cleanup_queue) : cleanup_queue'[i].id = cleanup_queue[i].id
  <2>1. cleanup_queue \in Seq(Cleanups)
      BY DEF TimerTypes
  <2>2. DOMAIN cleanup_queue = 1..Len(cleanup_queue) /\ Len(cleanup_queue) \in Nat
      BY <2>1
  <2>3. ASSUME NEW e \in Cleanups
        PROVE  [e EXCEPT !.left = Down(@)] \in Cleanups /\ [e EXCEPT !.left = Down(@)].id = e.id
    <3>1. e.id \in StreamIds /\ e.left \in 0..(CLEANUP + 1)
        BY DEF Cleanups
    <3>2. Down(e.left) \in 0..(CLEANUP + 1)
        BY <3>1, Constants DEF Down
    <3> QED BY <3>2 DEF Cleanups
  <2>4. cleanup_queue' = [i \in 1..Len(cleanup_queue) |-> [cleanup_queue[i] EXCEPT !.left = Down(@)]]
      BY <2>2 DEF Tick
  <2>5. \A i \in 1..Len(cleanup_queue) :
            /\ cleanup_queue'[i] = [cleanup_queue[i] EXCEPT !.left = Down(@)]
            /\ cleanup_queue'[i] \in Cleanups /\ cleanup_queue'[i].id = cleanup_queue[i].id
    <3> SUFFICES ASSUME NEW i \in 1..Len(cleanup_queue)
                 PROVE  /\ cleanup_queue'[i] = [cleanup_queue[i] EXCEPT !.left = Down(@)]
                        /\ cleanup_queue'[i] \in Cleanups /\ cleanup_queue'[i].id = cleanup_queue[i].id
        OBVIOUS
    <3>1. PICK e \in Cleanups : e = cleanup_queue[i]
        BY <2>1
    <3>2. cleanup_queue'[i] = [e EXCEPT !.left = Down(@)]
        BY <2>4, <3>1
    <3> QED BY <3>1, <3>2, <2>3
  <2>6. cleanup_queue' \in [1..Len(cleanup_queue) -> Cleanups]
      BY <2>4, <2>5
  <2>7. cleanup_queue' \in Seq(Cleanups) /\ Len(cleanup_queue') = Len(cleanup_queue)
      BY <2>2, <2>6, ListOf
  <2> QED BY <2>5, <2>7
<1>6. Cleaned'
  <2>1. ASSUME NEW s \in StreamIds, handles[s] = "expired"
        PROVE  \E i \in 1..Len(cleanup_queue') : \A j \in 1..Len(cleanup_queue') :
                  cleanup_queue'[j].id = s <=> j = i
    <3>1. PICK i \in 1..Len(cleanup_queue) : \A j \in 1..Len(cleanup_queue) :
                  cleanup_queue[j].id = s <=> j = i
        BY <2>1 DEF Cleaned
    <3>2. \A j \in 1..Len(cleanup_queue) : cleanup_queue'[j].id = s <=> j = i
        BY <3>1, <1>5
    <3>3. Len(cleanup_queue') = Len(cleanup_queue)
        BY <1>5
    <3> QED BY <3>1, <3>2, <3>3
  <2>2. ASSUME NEW s \in StreamIds, handles[s] # "expired"
        PROVE  \A j \in 1..Len(cleanup_queue') : cleanup_queue'[j].id # s
    <3>1. \A j \in 1..Len(cleanup_queue) : cleanup_queue[j].id # s
        BY <2>2 DEF Cleaned
    <3> QED BY <3>1, <1>5
  <2> QED BY <2>1, <2>2, <1>1 DEF Cleaned
<1>7. expire_sleep \in 0..IDLE /\ expire_sleep > 0 /\ expire_waker
    BY <1>1 DEF Awake, TimerTypes
<1>8. expire_sleep' = expire_sleep - 1 /\ expire_sleep' \in 0..IDLE
  <2>1. expire_sleep' = Down(expire_sleep) /\ IDLE \in Nat
      BY Constants DEF Tick
  <2> QED BY <2>1, <1>7 DEF Down
<1>9. TimerTypes'
  <2>1. \A s \in DOMAIN expire_queue : Down(expire_queue[s]) \in 0..(EXPIRATION + 1)
      BY Constants DEF TimerTypes, Down
  <2>2. woken' \in BOOLEAN
      BY <1>1
  <2> QED BY <2>1, <2>2, <1>1, <1>3, <1>5, <1>8 DEF TimerTypes
<1>10. Awake'
  <2>1. CASE expire_sleep = 1
      BY <2>1, <1>1 DEF Awake
  <2>2. CASE expire_sleep # 1
    <3>1. expire_sleep >= 2 /\ expire_sleep' > 0
        BY <2>2, <1>7, <1>8, Constants
    <3>2. \A s \in DOMAIN expire_queue : expire_sleep' <= expire_queue'[s]
      <4> SUFFICES ASSUME NEW s \in DOMAIN expire_queue
                   PROVE  expire_sleep' <= expire_queue'[s]
          OBVIOUS
      <4>1. expire_sleep <= expire_queue[s] /\ expire_queue[s] \in Int
          BY <1>1, Constants DEF Awake, TimerTypes
      <4>2. expire_queue'[s] = expire_queue[s] - 1
          BY <4>1, <3>1, <1>3, <1>7 DEF Down
      <4> QED BY <4>1, <4>2, <1>7, <1>8
    <3> QED BY <3>1, <3>2, <1>1, <1>3, <1>7 DEF Awake
  <2> QED BY <2>1, <2>2
<1> QED BY <1>2, <1>4, <1>6, <1>9, <1>10

\* SetToSeq lists a finite set, each element once.
LEMMA Lists ==
    ASSUME NEW S, IsFiniteSet(S)
    PROVE  /\ Cardinality(S) \in Nat /\ SetToSeq(S) \in [1..Cardinality(S) -> S]
           /\ \A i, j \in 1..Cardinality(S) : SetToSeq(S)[i] = SetToSeq(S)[j] => i = j
           /\ \A x \in S : \E i \in 1..Cardinality(S) : SetToSeq(S)[i] = x
<1> DEFINE n == Cardinality(S)
<1>1. n \in Nat /\ ExistsBijection(1..n, S)
    BY FS_CardinalityType
<1>2. PICK g : g \in Bijection(1..n, S)
    BY <1>1 DEF ExistsBijection
<1>3. g \in [1..n -> S] /\ IsInjective(g)
    BY <1>2 DEF Bijection, Injection
<1> DEFINE f == CHOOSE f \in [1..n -> S] : IsInjective(f)
<1>4. f \in [1..n -> S] /\ IsInjective(f)
    BY <1>3
<1> HIDE DEF f
<1>5. f \in Injection(1..n, S)
    BY <1>4 DEF Injection
<1>6. IsFiniteSet(1..n) /\ Cardinality(1..n) = n
  <2>1. 1 \in Int /\ n \in Int
      BY <1>1
  <2>2. IsFiniteSet(1..n) /\ Cardinality(1..n) = IF 1 > n THEN 0 ELSE n - 1 + 1
      BY <2>1, FS_Interval, Zenon
  <2> HIDE DEF n
  <2> QED BY <1>1, <2>2
<1>7. f \in Surjection(1..n, S)
    BY <1>5, <1>6, FS_Injection
<1>8. \A i, j \in 1..n : f[i] = f[j] => i = j
    BY <1>4 DEF IsInjective
<1>9. \A x \in S : \E i \in 1..n : f[i] = x
    BY <1>7 DEF Surjection
<1>10. SetToSeq(S) = f
    BY DEF SetToSeq, f
<1> QED BY <1>1, <1>4, <1>8, <1>9, <1>10

\* How many entries of the cleanup queue are due.
LEMMA DueIs ==
    ASSUME cleanup_queue \in Seq(Cleanups)
    PROVE  CleanupDue \in 0..Len(cleanup_queue)
<1> DEFINE n == Len(cleanup_queue)
           S == {k \in 0..n : \A i \in 1..k : cleanup_queue[i].left = 0}
<1>1. n \in Nat
    OBVIOUS
<1> HIDE DEF n
<1>2. 0 \in S
    BY <1>1
<1>3. S \subseteq 0..n /\ S # {}
    BY <1>2
<1>4. CleanupDue = CHOOSE x \in S : \A y \in S : x >= y
    BY DEF CleanupDue, Max, n
<1> HIDE DEF S
<1>5. \E m \in S : \A z \in S : m >= z
    BY <1>1, <1>3, GreatestBelow
<1>6. CleanupDue \in S
    BY <1>4, <1>5
<1> QED BY <1>3, <1>6 DEF n

\* When the task wakes up next.
LEMMA SleepIs ==
    ASSUME NEW q, NEW n \in Nat, \A s \in DOMAIN q : q[s] \in 0..n, DOMAIN q # {}
    PROVE  /\ \E s \in DOMAIN q : Min(Range(q)) = q[s]
           /\ \A s \in DOMAIN q : Min(Range(q)) <= q[s]
<1> DEFINE T == Range(q)
<1>1. T = {q[s] : s \in DOMAIN q}
    BY DEF Range
<1>2. T \subseteq Nat /\ T # {}
    BY <1>1
<1>3. Min(T) = CHOOSE x \in T : \A y \in T : x <= y
    BY DEF Min
<1> HIDE DEF T
<1>4. \E y \in T : \A z \in T : y <= z
    BY <1>2, LeastNatural
<1>5. Min(T) \in T /\ \A y \in T : Min(T) <= y
    BY <1>3, <1>4
<1>6. \A s \in DOMAIN q : q[s] \in T
    BY <1>1
<1> QED BY <1>1, <1>5, <1>6 DEF T

\* The cleanup queue after pump_expire: what is not due, and the expired streams.
LEMMA QueueAfter ==
    ASSUME cleanup_queue \in Seq(Cleanups), NEW expired, expired \subseteq StreamIds,
           NEW added, added = [i \in 1..Cardinality(expired) |->
                        [id |-> SetToSeq(expired)[i], left |-> roundup_instant(CLEANUP)]],
           cleanup_queue' = SubSeq(cleanup_queue, CleanupDue + 1, Len(cleanup_queue)) \o added
    PROVE  /\ cleanup_queue' \in Seq(Cleanups) /\ IsFiniteSet(expired)
           /\ Len(cleanup_queue') = Len(cleanup_queue) - CleanupDue + Cardinality(expired)
           /\ \A i \in 1..(Len(cleanup_queue) - CleanupDue) :
                 cleanup_queue'[i] = cleanup_queue[i + CleanupDue]
           /\ \A i \in 1..Cardinality(expired) :
                 cleanup_queue'[Len(cleanup_queue) - CleanupDue + i].id = SetToSeq(expired)[i]
<1>1. PICK n \in 0..Len(cleanup_queue) : n = CleanupDue
    BY DueIs
<1>2. PICK L \in Nat : L = Len(cleanup_queue)
    OBVIOUS
<1>3. PICK kept : kept = SubSeq(cleanup_queue, n + 1, L)
    OBVIOUS
<1>4. kept \in Seq(Cleanups) /\ Len(kept) = L - n /\ \A i \in 1..(L - n) : kept[i] = cleanup_queue[i + n]
    BY <1>1, <1>2, <1>3
<1>5. IsFiniteSet(expired)
    BY FS_Subset, HttpAssumption
<1>6. PICK m \in Nat : m = Cardinality(expired)
    BY <1>5, Lists
<1>7. /\ SetToSeq(expired) \in [1..m -> expired]
    BY <1>5, <1>6, Lists
<1>8. added \in [1..m -> Cleanups] /\ \A i \in 1..m : added[i].id = SetToSeq(expired)[i]
  <2>1. roundup_instant(CLEANUP) \in 0..(CLEANUP + 1)
      BY Constants DEF roundup_instant
  <2>2. \A i \in 1..m : SetToSeq(expired)[i] \in StreamIds
      BY <1>7
  <2>3. added = [i \in 1..m |-> [id |-> SetToSeq(expired)[i], left |-> roundup_instant(CLEANUP)]]
      BY <1>6
  <2>4. \A i \in 1..m : added[i] = [id |-> SetToSeq(expired)[i], left |-> roundup_instant(CLEANUP)]
      BY <2>3
  <2>5. ASSUME NEW i \in 1..m
        PROVE  added[i] \in Cleanups /\ added[i].id = SetToSeq(expired)[i]
    <3>1. PICK t \in StreamIds : t = SetToSeq(expired)[i]
        BY <2>2
    <3>2. PICK r \in 0..(CLEANUP + 1) : r = roundup_instant(CLEANUP)
        BY <2>1
    <3>3. added[i] = [id |-> t, left |-> r]
        BY <2>4, <3>1, <3>2
    <3> QED BY <3>1, <3>3 DEF Cleanups
  <2> QED BY <2>3, <2>5
<1>9. added \in Seq(Cleanups) /\ Len(added) = m
    BY <1>8, ListOf
<1>10. cleanup_queue' = kept \o added
    BY <1>1, <1>2, <1>3
<1>11. /\ cleanup_queue' \in Seq(Cleanups) /\ Len(cleanup_queue') = L - n + m
       /\ \A i \in 1..(L - n) : cleanup_queue'[i] = kept[i]
       /\ \A i \in 1..m : cleanup_queue'[L - n + i] = added[i]
  <2>1. /\ kept \o added \in Seq(Cleanups) /\ Len(kept \o added) = Len(kept) + Len(added)
        /\ \A i \in 1..(Len(kept) + Len(added)) :
              (kept \o added)[i] = IF i <= Len(kept) THEN kept[i] ELSE added[i - Len(kept)]
      BY <1>4, <1>9, ConcatProperties
  <2>2. L - n \in Nat /\ Len(kept) = L - n /\ Len(added) = m
    <3>1. L - n \in Nat
        BY <1>1, <1>2
    <3> QED BY <3>1, <1>4, <1>9
  <2>3. PICK z \in Nat : z = L - n
      BY <2>2
  <2>4. \A i \in 1..z : i \in 1..(z + m) /\ i <= z
      BY <2>3
  <2>5. \A i \in 1..m : z + i \in 1..(z + m) /\ ~(z + i <= z) /\ z + i - z = i
      BY <2>3
  <2>6. \A i \in 1..z : (kept \o added)[i] = kept[i]
      BY <2>1, <2>2, <2>3, <2>4
  <2>7. \A i \in 1..m : (kept \o added)[z + i] = added[i]
    <3> SUFFICES ASSUME NEW i \in 1..m
                 PROVE  (kept \o added)[z + i] = added[i]
        OBVIOUS
    <3>0. Len(kept) = z /\ Len(added) = m
        BY <2>2, <2>3
    <3>1. PICK w : w = z + i
        OBVIOUS
    <3>4. w \in 1..(z + m) /\ ~(w <= z) /\ w - z = i
        BY <3>1, <2>5
    <3>5. w \in 1..(Len(kept) + Len(added)) /\ ~(w <= Len(kept)) /\ w - Len(kept) = i
        BY <3>0, <3>4
    <3>2. (kept \o added)[w] = added[w - Len(kept)]
        BY <3>5, <2>1, Zenon
    <3> QED BY <3>1, <3>2, <3>5
  <2> QED BY <2>1, <2>2, <2>3, <2>6, <2>7, <1>10
<1>12. \A i \in 1..(L - n) : cleanup_queue'[i] = cleanup_queue[i + n]
    BY <1>4, <1>11
<1>13. \A i \in 1..m : cleanup_queue'[L - n + i].id = SetToSeq(expired)[i]
    BY <1>8, <1>11
<1> QED BY <1>1, <1>2, <1>5, <1>6, <1>11, <1>12, <1>13

\* pump_expire.
LEMMA PumpStep ==
    ASSUME SInv, pump_expire
    PROVE  SInv'
<1> USE DEF SInv, Streams, Orders
<1>1. PICK due : due = {s \in DOMAIN expire_queue : expire_queue[s] = 0}
    OBVIOUS
<1>2. PICK expired : expired = {s \in due : handles[s] = "available"}
    OBVIOUS
<1>3. PICK rest : rest = [s \in DOMAIN expire_queue \ due |-> expire_queue[s]]
    OBVIOUS
<1>4. PICK n \in 0..Len(cleanup_queue) : n = CleanupDue
    BY DueIs DEF TimerTypes
<1>5. PICK gone : gone = {cleanup_queue[i].id : i \in 1..n}
    OBVIOUS
<1>6. PICK added : added = [i \in 1..Cardinality(expired) |->
                        [id |-> SetToSeq(expired)[i], left |-> roundup_instant(CLEANUP)]]
    OBVIOUS
<1>7. /\ handles' = [s \in StreamIds |-> CASE s \in expired -> "expired"
                                           [] s \in gone -> "none"
                                           [] OTHER -> handles[s]]
      /\ stream' = [s \in StreamIds |-> IF s \in expired THEN NoStream ELSE stream[s]]
      /\ expire_queue' = rest
      /\ cleanup_queue' = SubSeq(cleanup_queue, CleanupDue + 1, Len(cleanup_queue)) \o added
      /\ expire_sleep' = IF DOMAIN rest = {} THEN IDLE ELSE Min(Range(rest))
      /\ expire_waker' = TRUE /\ woken' = FALSE
    BY <1>1, <1>2, <1>3, <1>4, <1>5, <1>6 DEF pump_expire
<1>8. /\ conn' = conn /\ call' = call /\ batons' = batons /\ used' = used /\ turns' = turns
      /\ ran' = ran
    BY DEF pump_expire, history
<1>9. due \subseteq StreamIds /\ expired \subseteq StreamIds /\ expired = due
      /\ \A s \in expired : handles[s] = "available"
    BY <1>1, <1>2 DEF TimerTypes, Parked
<1>10. PICK L \in Nat : L = Len(cleanup_queue)
    BY DEF TimerTypes
<1>11. PICK m \in Nat : m = Cardinality(expired)
  <2>1. IsFiniteSet(expired)
      BY <1>9, FS_Subset, HttpAssumption
  <2> QED BY <2>1, Lists
<1>12. PICK list : list = SetToSeq(expired)
    OBVIOUS
<1>13. /\ cleanup_queue' \in Seq(Cleanups) /\ Len(cleanup_queue') = L - n + m
       /\ \A i \in 1..(L - n) : cleanup_queue'[i] = cleanup_queue[i + n]
       /\ \A i \in 1..m : cleanup_queue'[L - n + i].id = list[i]
       /\ IsFiniteSet(expired)
    BY <1>4, <1>6, <1>7, <1>9, <1>10, <1>11, <1>12, QueueAfter DEF TimerTypes
<1>14. /\ list \in [1..m -> expired] /\ \A i, j \in 1..m : list[i] = list[j] => i = j
       /\ \A x \in expired : \E i \in 1..m : list[i] = x
       /\ \A i \in 1..m : list[i] \in expired
  <2>1. /\ list \in [1..m -> expired] /\ \A i, j \in 1..m : list[i] = list[j] => i = j
        /\ \A x \in expired : \E i \in 1..m : list[i] = x
      BY <1>11, <1>12, <1>13, Lists
  <2> QED BY <2>1
<1>15. /\ \A i \in 1..L : cleanup_queue[i].id \in StreamIds
       /\ \A i \in 1..L : handles[cleanup_queue[i].id] = "expired"
  <2>1. \A i \in 1..L : cleanup_queue[i].id \in StreamIds
    <3>1. \A e \in Cleanups : e.id \in StreamIds
        BY DEF Cleanups
    <3>2. \A i \in 1..L : cleanup_queue[i] \in Cleanups
        BY <1>10 DEF TimerTypes
    <3> QED BY <3>1, <3>2
  <2> QED BY <2>1, <1>10 DEF Cleaned
<1>16. gone \subseteq StreamIds /\ \A s \in gone : handles[s] = "expired" /\ s \notin expired
  <2>1. \A i \in 1..n : i \in 1..L
      BY <1>4, <1>10
  <2> QED BY <2>1, <1>5, <1>9, <1>15
<1>17. /\ \A s \in expired : handles[s] = "available" /\ handles'[s] = "expired"
       /\ \A s \in gone : handles[s] = "expired" /\ handles'[s] = "none"
       /\ \A s \in StreamIds : s \notin expired /\ s \notin gone => handles'[s] = handles[s]
       /\ handles' \in [StreamIds -> {"none", "available", "acquired", "expired"}]
  <2>1. \A s \in expired : handles[s] = "available" /\ handles'[s] = "expired"
    <3>1. \A s \in StreamIds : s \in expired => handles'[s] = "expired"
        BY <1>7, <1>16
    <3> QED BY <3>1, <1>9
  <2>2. \A s \in gone : handles[s] = "expired" /\ handles'[s] = "none"
      BY <1>7, <1>16
  <2>3. \A s \in StreamIds : s \notin expired /\ s \notin gone => handles'[s] = handles[s]
      BY <1>7
  <2>4. \A s \in StreamIds : handles'[s] \in {"none", "available", "acquired", "expired"}
      BY <2>1, <2>2, <2>3 DEF StreamTypes
  <2> QED BY <2>1, <2>2, <2>3, <2>4, <1>7
<1>18. /\ \A s \in StreamIds : s \notin expired => stream'[s] = stream[s]
       /\ \A s \in StreamIds : IsStream(stream'[s])
       /\ stream' = [s \in StreamIds |-> stream'[s]]
    BY <1>7, NoStreamIs DEF StreamTypes
<1>19. StreamTypes' /\ CallShapes'
    BY <1>8, <1>17, <1>18 DEF StreamTypes, CallShapes
<1>20. DOMAIN expire_queue' = DOMAIN expire_queue \ expired
       /\ \A s \in DOMAIN expire_queue' : expire_queue'[s] = expire_queue[s] /\ expire_queue[s] # 0
    BY <1>1, <1>3, <1>7, <1>9
<1>21. \A s \in DOMAIN expire_queue' : expire_queue'[s] \in 1..(EXPIRATION + 1)
    BY <1>20, Constants DEF TimerTypes
<1>22. /\ expire_sleep' \in 1..IDLE
       /\ \A s \in DOMAIN expire_queue' : expire_sleep' <= expire_queue'[s]
  <2>1. CASE DOMAIN rest = {}
    <3>1. expire_sleep' = IDLE /\ DOMAIN expire_queue' = {}
        BY <2>1, <1>7
    <3> QED BY <3>1, Constants
  <2>2. CASE DOMAIN rest # {}
    <3>0. expire_sleep' = Min(Range(rest)) /\ expire_queue' = rest
        BY <2>2, <1>7
    <3>1. EXPIRATION + 1 \in Nat /\ \A s \in DOMAIN rest : rest[s] \in 0..(EXPIRATION + 1)
        BY <3>0, <1>21, Constants
    <3>2. /\ \E s \in DOMAIN rest : Min(Range(rest)) = rest[s]
          /\ \A s \in DOMAIN rest : Min(Range(rest)) <= rest[s]
        BY <3>1, <2>2, SleepIs
    <3>3. expire_sleep' \in 1..(EXPIRATION + 1)
        BY <3>0, <3>2, <1>21
    <3>4. expire_sleep' \in 1..IDLE
        BY <3>3, Constants
    <3> QED BY <3>0, <3>2, <3>4
  <2> QED BY <2>1, <2>2
<1>23. TimerTypes'
  <2>1. \A s \in DOMAIN expire_queue' : expire_queue'[s] \in 0..(EXPIRATION + 1)
      BY <1>20 DEF TimerTypes
  <2>2. expire_sleep' \in 0..IDLE
      BY <1>22, Constants
  <2>3. expire_waker' \in BOOLEAN /\ woken' \in BOOLEAN
      BY <1>7
  <2> QED BY <2>1, <2>2, <2>3, <1>13, <1>20 DEF TimerTypes
<1>24. Awake'
  <2>1. expire_sleep' > 0 /\ expire_waker'
      BY <1>22, <1>7, Constants
  <2> QED BY <2>1, <1>22 DEF Awake
<1>25. Parked'
    BY <1>16, <1>17, <1>18, <1>20 DEF Parked
<1>26. Held'
  <2>1. \A s \in StreamIds : handles'[s] = "acquired" <=> handles[s] = "acquired"
      BY <1>17
  <2>2. \A d \in Calls, t \in StreamIds : Guarding(d, t)' <=> Guarding(d, t)
      BY <1>8 DEF Guarding
  <2> QED BY <2>1, <2>2 DEF Held
<1>27. \A s \in StreamIds : (handles[s] = "none" => handles'[s] = "none")
                            /\ (handles[s] = "acquired" => handles'[s] = "acquired")
                            /\ (handles'[s] # "none" => handles[s] # "none")
                            /\ (handles'[s] \in {"available", "acquired"} =>
                                  handles[s] \in {"available", "acquired"} /\ s \notin expired)
    BY <1>17
<1>28. Unused' /\ Latest' /\ Arrivals'
    BY <1>8, <1>27 DEF Unused, Latest, Arrivals
<1>29. Inboxes'
  <2>1. ASSUME NEW s \in StreamIds, NEW j \in Jobs, JobOK(s, j)
        PROVE  JobOK(s, j)'
      BY <2>1, <1>8, <1>27 DEF JobOK, Guarding
  <2> QED BY <2>1, <1>8, InboxTypes DEF Inboxes
<1>30. Fresh'
  <2>1. ASSUME NEW b \in used, handles'[b.id] \in {"available", "acquired"}
        PROVE  stream'[b.id] = stream[b.id] /\ handles[b.id] \in {"available", "acquired"}
    <3>1. b.id \in StreamIds
        BY DEF StreamTypes, Batons
    <3> QED BY <3>1, <2>1, <1>18, <1>27
  <2> QED BY <2>1, <1>8 DEF Fresh
<1>31. ASSUME NEW j \in 1..Len(cleanup_queue')
       PROVE  \/ /\ j \in 1..(L - n) /\ j + n \in 1..L
                 /\ cleanup_queue'[j].id = cleanup_queue[j + n].id
              \/ \E i \in 1..m : j = L - n + i /\ cleanup_queue'[j].id = list[i]
  <2>1. CASE j <= L - n
    <3>1. j \in 1..(L - n) /\ j + n \in 1..L
        BY <2>1, <1>4, <1>10, <1>13
    <3> QED BY <3>1, <1>13
  <2>2. CASE ~(j <= L - n)
    <3>1. j - (L - n) \in 1..m /\ j = L - n + (j - (L - n))
        BY <2>2, <1>4, <1>10, <1>13
    <3>2. PICK i \in 1..m : j = L - n + i
        BY <3>1
    <3> QED BY <3>2, <1>13
  <2> QED BY <2>1, <2>2
<1>32. Cleaned'
  <2>1. ASSUME NEW s \in StreamIds, s \in expired
        PROVE  \E i \in 1..Len(cleanup_queue') : \A j \in 1..Len(cleanup_queue') :
                  cleanup_queue'[j].id = s <=> j = i
    <3>1. PICK a \in 1..m : list[a] = s
        BY <2>1, <1>14
    <3>2. PICK i : i = L - n + a
        OBVIOUS
    <3>3. i \in 1..Len(cleanup_queue') /\ cleanup_queue'[i].id = s
        BY <3>1, <3>2, <1>4, <1>10, <1>13
    <3>4. ASSUME NEW j \in 1..Len(cleanup_queue'), cleanup_queue'[j].id = s
          PROVE  j = i
      <4>1. CASE j \in 1..(L - n) /\ j + n \in 1..L /\ cleanup_queue'[j].id = cleanup_queue[j + n].id
        <5>1. handles[s] = "expired"
            BY <4>1, <3>4, <1>15
        <5> QED BY <5>1, <2>1, <1>9
      <4>2. ASSUME NEW b \in 1..m, j = L - n + b, cleanup_queue'[j].id = list[b]
            PROVE  j = i
        <5>1. a = b
            BY <4>2, <3>1, <3>4, <1>14
        <5> QED BY <5>1, <4>2, <3>2
      <4> QED BY <4>1, <4>2, <1>31
    <3> QED BY <3>3, <3>4
  <2>2. ASSUME NEW s \in StreamIds, s \notin expired, handles'[s] = "expired"
        PROVE  \E i \in 1..Len(cleanup_queue') : \A j \in 1..Len(cleanup_queue') :
                  cleanup_queue'[j].id = s <=> j = i
    <3>1. handles[s] = "expired" /\ s \notin gone
        BY <2>2, <1>17
    <3>2. PICK a \in 1..L : \A j \in 1..L : cleanup_queue[j].id = s <=> j = a
        BY <3>1, <1>10 DEF Cleaned
    <3>3. ~(a <= n)
      <4>1. a <= n => a \in 1..n
          BY <1>4, <1>10
      <4> QED BY <4>1, <3>1, <3>2, <1>5
    <3>4. PICK i : i = a - n
        OBVIOUS
    <3>5. i \in 1..(L - n) /\ i + n = a /\ i \in 1..Len(cleanup_queue')
        BY <3>3, <3>4, <1>4, <1>10, <1>13
    <3>6. cleanup_queue'[i].id = s
        BY <3>2, <3>5, <1>13
    <3>7. ASSUME NEW j \in 1..Len(cleanup_queue'), cleanup_queue'[j].id = s
          PROVE  j = i
      <4>1. CASE j \in 1..(L - n) /\ j + n \in 1..L /\ cleanup_queue'[j].id = cleanup_queue[j + n].id
        <5>1. j + n = a
            BY <4>1, <3>2, <3>7
        <5> QED BY <5>1, <3>4, <4>1, <1>4, <1>10
      <4>2. ASSUME NEW b \in 1..m, j = L - n + b, cleanup_queue'[j].id = list[b]
            PROVE  FALSE
          BY <4>2, <3>7, <2>2, <1>14
      <4> QED BY <4>1, <4>2, <1>31
    <3> QED BY <3>5, <3>6, <3>7
  <2>3. ASSUME NEW s \in StreamIds, handles'[s] # "expired", NEW j \in 1..Len(cleanup_queue'),
               cleanup_queue'[j].id = s
        PROVE  FALSE
    <3>1. s \notin expired
        BY <2>3, <1>17
    <3>2. CASE j \in 1..(L - n) /\ j + n \in 1..L /\ cleanup_queue'[j].id = cleanup_queue[j + n].id
      <4>1. handles[s] = "expired" /\ cleanup_queue[j + n].id = s
          BY <3>2, <2>3, <1>15
      <4>2. s \in gone
          BY <4>1, <3>1, <2>3, <1>17
      <4>3. PICK b \in 1..n : cleanup_queue[b].id = s
          BY <4>2, <1>5
      <4>4. PICK a \in 1..L : \A i \in 1..L : cleanup_queue[i].id = s <=> i = a
          BY <4>1, <1>10 DEF Cleaned
      <4>5. b \in 1..L
          BY <1>4, <1>10
      <4>6. b = j + n
          BY <4>1, <4>3, <4>4, <4>5, <3>2
      <4> QED BY <4>6, <3>2, <1>4, <1>10
    <3>3. ASSUME NEW b \in 1..m, j = L - n + b, cleanup_queue'[j].id = list[b]
          PROVE  FALSE
        BY <3>3, <3>1, <2>3, <1>14
    <3> QED BY <3>2, <3>3, <1>31
  <2> QED BY <2>1, <2>2, <2>3 DEF Cleaned
<1> QED BY <1>19, <1>23, <1>24, <1>25, <1>26, <1>28, <1>29, <1>30, <1>32

-----------------------------------------------------------------------------
(* The actions: calls and requests. *)

\* The two halves of the invariant.
LEMMA Halves == HInv <=> SInv /\ cursor \in [Calls -> Cursors] /\ Bodied
BY DEF HInv, SInv, Types

\* The same after a step.
LEMMA HalvesNext ==
    ASSUME SInv', cursor' \in [Calls -> Cursors], Bodied'
    PROVE  HInv'
BY DEF HInv, SInv, Types

\* Of a call without a cursor, only what has nothing to do with a body changes.
Plain(c) ==
    /\ OnlyCall(c) /\ call[c].pc \notin {"streaming", "done"} /\ ~call'[c].ok
    /\ call'[c].pc # "streaming" /\ (call'[c].pc # "done" => call'[c].got = <<>>)
    /\ cursor' = cursor

\* The bodies are not touched then.
LEMMA PlainBodies ==
    ASSUME cursor \in [Calls -> Cursors], Bodied, NEW c \in Calls, Plain(c)
    PROVE  cursor' \in [Calls -> Cursors] /\ Bodied'
<1>1. /\ cursor' = cursor /\ \A d \in Calls : d # c => call'[d] = call[d]
      /\ call[c].pc \notin {"streaming", "done"} /\ ~call'[c].ok
      /\ call'[c].pc # "streaming" /\ (call'[c].pc # "done" => call'[c].got = <<>>)
    BY DEF Plain, OnlyCall
<1>2. cursor[c] = NoCursor
    BY <1>1 DEF Bodied, BodyOK
<1>3. /\ ~cursor[c].rx /\ cursor[c].task = "none" /\ cursor[c].chan = <<>> /\ Len(cursor[c].chan) <= 1
    BY <1>2 DEF NoCursor
<1>4. BodyOK(call'[c], cursor'[c])
    BY <1>1, <1>2, <1>3 DEF BodyOK
<1>5. \A d \in Calls : d # c => BodyOK(call'[d], cursor'[d])
    BY <1>1 DEF Bodied
<1> QED BY <1>1, <1>4, <1>5 DEF Bodied

\* A call that has a stream has no body.
LEMMA NoBody ==
    ASSUME Bodied, NEW c \in Calls, call[c].pc \notin {"streaming", "done"}
    PROVE  ~call[c].ok /\ call[c].got = <<>> /\ cursor[c] = NoCursor
BY DEF Bodied, BodyOK

\* A call with a baton.
LEMMA RequestStep ==
    ASSUME HInv, NEW c \in Calls, Request(c)
    PROVE  HInv'
<1>1. SInv /\ cursor \in [Calls -> Cursors] /\ Bodied
    BY Halves
<1>2. PICK b \in batons, body \in Bodies :
        /\ Arrives(c, body)
        /\ \/ AcquireStream(c, b, body)
           \/ /\ call' = Done(c)
              /\ UNCHANGED <<handles, stream, timers, used, turns>>
    BY DEF Request
<1>3. UNCHANGED <<conn, cursor, batons, ran>>
    BY DEF Request
<1>4. call[c].pc = "new" /\ \A d \in 1..(c - 1) : call[d].pc # "new"
    BY <1>2 DEF Arrives
<1>5. CASE AcquireStream(c, b, body)
  <2>1. SInv' /\ call'[c].pc = "running" /\ OnlyCall(c) /\ ~call'[c].ok /\ call'[c].got = <<>>
      BY <1>1, <1>2, <1>3, <1>5, AcquireStep
  <2>2. Plain(c)
      BY <2>1, <1>3, <1>4 DEF Plain
  <2> QED BY <2>1, <2>2, <1>1, PlainBodies, HalvesNext
<1>6. CASE call' = Done(c) /\ UNCHANGED <<handles, stream, timers, used, turns>>
  <2>1. OnlyCall(c) /\ call'[c].pc = "done" /\ call'[c].id = NoId /\ ~call'[c].ok
      BY <1>1, <1>6, DoneCall DEF SInv
  <2>2. Aside(c)
      BY <2>1, <1>1, <1>3, <1>4, <1>6 DEF Aside, SInv, StreamTypes
  <2>3. Plain(c)
      BY <2>1, <1>3, <1>4 DEF Plain
  <2> QED BY <2>2, <2>3, <1>1, AsideStep, PlainBodies, HalvesNext
<1> QED BY <1>2, <1>5, <1>6

\* A call without a baton.
LEMMA RequestNewStep ==
    ASSUME HInv, NEW c \in Calls, RequestNew(c)
    PROVE  HInv'
<1>1. SInv /\ cursor \in [Calls -> Cursors] /\ Bodied
    BY Halves
<1>2. PICK body \in Bodies :
        /\ Arrives(c, body)
        /\ call' = [call EXCEPT ![c] = [Asks(body) EXCEPT !.pc = "creating"]]
    BY DEF RequestNew
<1>3. UNCHANGED <<handles, stream, timers, conn, cursor, batons, used, turns, ran>>
    BY DEF RequestNew, history
<1>4. call[c].pc = "new" /\ \A d \in 1..(c - 1) : call[d].pc # "new"
    BY <1>2 DEF Arrives
<1>5. /\ OnlyCall(c) /\ call'[c].pc = "creating" /\ call'[c].id = NoId
      /\ ~call'[c].ok /\ call'[c].got = <<>>
    BY <1>1, <1>2, CreatingCall DEF SInv
<1>6. Aside(c)
    BY <1>1, <1>3, <1>4, <1>5 DEF Aside, SInv, StreamTypes
<1>7. Plain(c)
    BY <1>3, <1>4, <1>5 DEF Plain
<1> QED BY <1>6, <1>7, <1>1, AsideStep, PlainBodies, HalvesNext

\* A call whose stream is being created ends.
LEMMA CreatingEnds ==
    ASSUME HInv, NEW c \in Calls, call[c].pc = "creating", call' = Done(c),
           UNCHANGED <<handles, stream, timers, conn, cursor, history>>
    PROVE  HInv'
<1>1. SInv /\ cursor \in [Calls -> Cursors] /\ Bodied
    BY Halves
<1>3. UNCHANGED <<handles, stream, timers, conn, cursor, batons, used, turns, ran>>
    BY DEF history
<1>5. OnlyCall(c) /\ call'[c].pc = "done" /\ call'[c].id = NoId /\ ~call'[c].ok
    BY <1>1, DoneCall DEF SInv
<1>6. Aside(c)
    BY <1>1, <1>3, <1>5 DEF Aside, SInv, StreamTypes
<1>7. Plain(c)
    BY <1>3, <1>5 DEF Plain
<1> QED BY <1>6, <1>7, <1>1, AsideStep, PlainBodies, HalvesNext

\* The stream is created, or not.
LEMMA CreateSteps ==
    ASSUME HInv, NEW c \in Calls, CreateStream(c) \/ CreateFails(c)
    PROVE  HInv'
<1>1. SInv /\ cursor \in [Calls -> Cursors] /\ Bodied
    BY Halves
<1>2. CASE CreateStream(c)
  <2>1. /\ SInv' /\ call'[c].pc = "running" /\ OnlyCall(c)
        /\ call'[c].ok = call[c].ok /\ call'[c].got = call[c].got
      BY <1>1, <1>2, CreateStreamStep
  <2>2. call[c].pc = "creating" /\ cursor' = cursor
      BY <1>2 DEF CreateStream
  <2>3. ~call[c].ok /\ call[c].got = <<>>
      BY <2>2, <1>1, NoBody
  <2>4. Plain(c)
      BY <2>1, <2>2, <2>3 DEF Plain
  <2> QED BY <2>1, <2>4, <1>1, PlainBodies, HalvesNext
<1>3. CASE CreateFails(c)
    BY <1>3, CreatingEnds DEF CreateFails
<1> QED BY <1>2, <1>3

\* A call that has a stream fails.
LEMMA FailCallStep ==
    ASSUME HInv, NEW c \in Calls, call[c].pc \in {"running", "waiting"}, FailCall(c),
           ConnStep, RanStep, UNCHANGED <<cursor, batons, used, turns>>
    PROVE  HInv'
<1>1. SInv /\ cursor \in [Calls -> Cursors] /\ Bodied
    BY Halves
<1>2. PICK s \in StreamIds : s = call[c].id
    BY <1>1 DEF SInv, CallShapes, IsCall
<1>5. OnlyCall(c) /\ call'[c].pc = "done" /\ call'[c].id = NoId /\ ~call'[c].ok
    BY <1>1, DoneCall DEF SInv, FailCall
<1>6. Fails(c, s)
    BY <1>2, <1>5 DEF Fails, FailCall, Guarding
<1>7. Plain(c)
    BY <1>5 DEF Plain
<1> QED BY <1>6, <1>7, <1>1, FailsStep, PlainBodies, HalvesNext

\* A call that has a stream goes on.
LEMMA ProceedStep ==
    ASSUME HInv, NEW c \in Calls, call[c].pc \in {"running", "waiting"}, Proceed(c),
           OnlyStream(call[c].id), stream'[call[c].id].baton_seq = stream[call[c].id].baton_seq,
           ConnStep, RanStep, UNCHANGED <<handles, timers, cursor, batons, used, turns>>,
           \A i \in 1..Len(conn'[call[c].id].inbox) :
               conn'[call[c].id].inbox[i].cursor \/ conn'[call[c].id].inbox[i].c # c
    PROVE  HInv'
<1>1. SInv /\ cursor \in [Calls -> Cursors] /\ Bodied
    BY Halves
<1>2. PICK s \in StreamIds : s = call[c].id
    BY <1>1 DEF SInv, CallShapes, IsCall
<1>5. /\ OnlyCall(c) /\ call'[c].pc = "running" /\ call'[c].id = call[c].id
      /\ call'[c].turn = call[c].turn /\ call'[c].ok = call[c].ok
      /\ call'[c].got = call[c].got
    BY <1>1, ProceedCall DEF SInv
<1>6. Works(c, s)
    BY <1>2, <1>5 DEF Works, Guarding
<1>7. ~call[c].ok /\ call[c].got = <<>>
    BY <1>1, NoBody
<1>8. Plain(c)
    BY <1>5, <1>7 DEF Plain
<1> QED BY <1>6, <1>8, <1>1, WorksStep, PlainBodies, HalvesNext

\* No program of a call that is running is in an inbox.
LEMMA NotSent ==
    ASSUME SInv, NEW c \in Calls, call[c].pc = "running", NEW s \in StreamIds,
           NEW i \in 1..Len(conn[s].inbox)
    PROVE  conn[s].inbox[i].cursor \/ conn[s].inbox[i].c # c
<1>1. PICK j : j = conn[s].inbox[i]
    OBVIOUS
<1>2. JobOK(s, j) /\ j \in Jobs
    BY <1>1, InboxTypes DEF SInv, Orders, Inboxes
<1>3. j.cursor \in BOOLEAN
    BY <1>2 DEF Jobs
<1>4. j.cursor \/ j.c # c
    BY <1>2, <1>3 DEF JobOK
<1> QED BY <1>1, <1>4

\* The result of a request.
LEMMA ResultStep ==
    ASSUME HInv, NEW c \in Calls, call[c].pc \in {"running", "waiting"}, NEW err, Result(c, err),
           ConnStep, RanStep, UNCHANGED <<cursor, batons, used, turns>>,
           \A i \in 1..Len(conn'[call[c].id].inbox) :
               conn'[call[c].id].inbox[i].cursor \/ conn'[call[c].id].inbox[i].c # c
    PROVE  HInv'
<1>1. CASE Proceed(c) /\ UNCHANGED <<handles, stream, timers>>
  <2>1. OnlyStream(call[c].id) /\ stream'[call[c].id].baton_seq = stream[call[c].id].baton_seq
      BY <1>1, Halves DEF OnlyStream, SInv, StreamTypes
  <2> QED BY <2>1, <1>1, ProceedStep
<1>2. CASE FailCall(c)
    BY <1>2, FailCallStep
<1> QED BY <1>1, <1>2 DEF Result

\* A stream that is closed, or whose texts change.
LEMMA EditedStream ==
    ASSUME NEW x, IsStream(x), NEW q, IsFiniteSet(DOMAIN q), Cardinality(DOMAIN q) <= MAX_SQL_COUNT
    PROVE  /\ IsStream([x EXCEPT !.db = FALSE]) /\ [x EXCEPT !.db = FALSE].baton_seq = x.baton_seq
           /\ IsStream([x EXCEPT !.sqls = q]) /\ [x EXCEPT !.sqls = q].baton_seq = x.baton_seq
<1> DEFINE y == [x EXCEPT !.db = FALSE]
           z == [x EXCEPT !.sqls = q]
<1>1. /\ DOMAIN y = {"db", "sqls", "baton_seq"} /\ y.baton_seq = x.baton_seq /\ y.sqls = x.sqls
      /\ y.db \in BOOLEAN
    BY DEF IsStream
<1>2. /\ DOMAIN z = {"db", "sqls", "baton_seq"} /\ z.baton_seq = x.baton_seq /\ z.sqls = q
      /\ z.db = x.db
    BY DEF IsStream
<1> HIDE DEF y, z
<1>3. IsStream(y) /\ IsStream(z)
    BY <1>1, <1>2 DEF IsStream
<1> QED BY <1>1, <1>2, <1>3 DEF y, z

\* A request of a pipeline that does not use the connection.
LEMMA LocalStep ==
    ASSUME HInv, NEW c \in Calls, call[c].pc = "running", Proceed(c), NEW x, IsStream(x),
           x.baton_seq = stream[call[c].id].baton_seq, stream' = [stream EXCEPT ![call[c].id] = x],
           UNCHANGED <<handles, timers, conn, cursor, history>>
    PROVE  HInv'
<1>1. SInv
    BY Halves
<1>2. call[c].id \in StreamIds
    BY <1>1 DEF SInv, CallShapes, IsCall
<1>3. OnlyStream(call[c].id) /\ stream'[call[c].id].baton_seq = stream[call[c].id].baton_seq
    BY <1>1, <1>2, StreamAt DEF SInv
<1>4. UNCHANGED <<handles, timers, cursor, batons, used, turns>> /\ conn' = conn /\ ran' = ran
    BY DEF history
<1>5. ConnStep /\ RanStep
    BY <1>1, <1>4, ConnKept DEF SInv, Streams, Orders
<1>6. \A i \in 1..Len(conn'[call[c].id].inbox) :
               conn'[call[c].id].inbox[i].cursor \/ conn'[call[c].id].inbox[i].c # c
    BY <1>1, <1>2, <1>4, NotSent
<1> QED BY <1>3, <1>4, <1>5, <1>6, ProceedStep

\* The same, for one that returns a result only.
LEMMA LocalResult ==
    ASSUME HInv, NEW c \in Calls, call[c].pc = "running", NEW err, Result(c, err),
           UNCHANGED <<conn, cursor, history>>
    PROVE  HInv'
<1>1. SInv
    BY Halves
<1>2. call[c].id \in StreamIds
    BY <1>1 DEF SInv, CallShapes, IsCall
<1>4. UNCHANGED <<cursor, batons, used, turns>> /\ conn' = conn /\ ran' = ran
    BY DEF history
<1>5. ConnStep /\ RanStep
    BY <1>1, <1>4, ConnKept DEF SInv, Streams, Orders
<1>6. \A i \in 1..Len(conn'[call[c].id].inbox) :
               conn'[call[c].id].inbox[i].cursor \/ conn'[call[c].id].inbox[i].c # c
    BY <1>1, <1>2, <1>4, NotSent
<1> QED BY <1>4, <1>5, <1>6, ResultStep

\* The texts of a stream.
LEMMA Texts ==
    ASSUME SInv, NEW c \in Calls, call[c].pc = "running"
    PROVE  /\ call[c].id \in StreamIds /\ IsStream(stream[call[c].id])
           /\ IsFiniteSet(DOMAIN stream[call[c].id].sqls)
           /\ Cardinality(DOMAIN stream[call[c].id].sqls) <= MAX_SQL_COUNT
           /\ Cardinality(DOMAIN stream[call[c].id].sqls) \in Nat /\ MAX_SQL_COUNT \in Nat
           /\ DOMAIN stream = StreamIds
<1>1. call[c].id \in StreamIds
    BY DEF SInv, CallShapes, IsCall
<1>2. IsStream(stream[call[c].id]) /\ DOMAIN stream = StreamIds
    BY <1>1 DEF SInv, StreamTypes
<1>3. IsFiniteSet(DOMAIN stream[call[c].id].sqls)
    BY <1>2 DEF IsStream
<1>4. Cardinality(DOMAIN stream[call[c].id].sqls) \in Nat
    BY <1>3, FS_CardinalityType
<1> QED BY <1>1, <1>2, <1>3, <1>4, HttpAssumption DEF IsStream

\* The requests that do not use the connection.
LEMMA LocalSteps ==
    ASSUME HInv, NEW c \in Calls, Close(c) \/ Unknown(c) \/ StoreSql(c) \/ CloseSql(c)
    PROVE  HInv'
<1>1. SInv
    BY Halves
<1>2. call[c].pc = "running"
    BY DEF Close, Unknown, StoreSql, CloseSql, Running
<1>3. PICK s \in StreamIds : s = call[c].id
    BY <1>1, <1>2, Texts
<1>4. PICK old : old = stream[s]
    OBVIOUS
<1>5. /\ IsStream(old) /\ DOMAIN stream = StreamIds /\ IsFiniteSet(DOMAIN old.sqls)
      /\ Cardinality(DOMAIN old.sqls) <= MAX_SQL_COUNT /\ Cardinality(DOMAIN old.sqls) \in Nat
      /\ MAX_SQL_COUNT \in Nat
    BY <1>1, <1>2, <1>3, <1>4, Texts
<1>6. CASE Close(c)
  <2>1. stream' = [stream EXCEPT ![s] = [old EXCEPT !.db = FALSE]]
      BY <1>3, <1>4, <1>5, <1>6 DEF Close
  <2>2. IsStream([old EXCEPT !.db = FALSE]) /\ [old EXCEPT !.db = FALSE].baton_seq = old.baton_seq
      BY <1>5, EditedStream
  <2> QED BY <2>1, <2>2, <1>2, <1>3, <1>4, <1>6, LocalStep DEF Close
<1>7. CASE Unknown(c)
    BY <1>2, <1>7, LocalResult DEF Unknown
<1>8. ASSUME NEW q, IsFiniteSet(DOMAIN q), Cardinality(DOMAIN q) <= MAX_SQL_COUNT, Proceed(c),
             stream' = [stream EXCEPT ![call[c].id].sqls = q],
             UNCHANGED <<handles, timers, conn, cursor, history>>
      PROVE  HInv'
  <2>1. stream' = [stream EXCEPT ![s] = [old EXCEPT !.sqls = q]]
      BY <1>3, <1>4, <1>5, <1>8
  <2>2. IsStream([old EXCEPT !.sqls = q]) /\ [old EXCEPT !.sqls = q].baton_seq = old.baton_seq
      BY <1>5, <1>8, EditedStream
  <2> QED BY <2>1, <2>2, <1>2, <1>3, <1>4, <1>8, LocalStep
<1>9. CASE StoreSql(c)
  <2>1. PICK id : id = Current(c).sql_id
      OBVIOUS
  <2>2. PICK sql : sql = Current(c).sql
      OBVIOUS
  <2>3. UNCHANGED <<conn, cursor, history>>
      BY <1>9 DEF StoreSql
  <2>4. CASE Result(c, "protocol") \/ Result(c, "SqlTooMany")
      BY <2>3, <2>4, <1>2, LocalResult
  <2>5. CASE /\ id \notin DOMAIN old.sqls /\ Cardinality(DOMAIN old.sqls) < MAX_SQL_COUNT
             /\ stream' = [stream EXCEPT ![call[c].id].sqls = With(old.sqls, id, sql)]
             /\ Proceed(c) /\ UNCHANGED <<handles, timers>>
    <3>1. PICK q : q = With(old.sqls, id, sql)
        OBVIOUS
    <3>2. DOMAIN q = DOMAIN old.sqls \cup {id}
        BY <3>1 DEF With
    <3>3. /\ IsFiniteSet(DOMAIN old.sqls \cup {id})
          /\ Cardinality(DOMAIN old.sqls \cup {id}) = Cardinality(DOMAIN old.sqls) + 1
        BY <2>5, <1>5, FS_AddElement
    <3>4. IsFiniteSet(DOMAIN q) /\ Cardinality(DOMAIN q) <= MAX_SQL_COUNT
        BY <3>2, <3>3, <2>5, <1>5
    <3> QED BY <3>1, <3>4, <2>3, <2>5, <1>8
  <2> QED BY <2>1, <2>2, <2>4, <2>5, <1>3, <1>4, <1>9 DEF StoreSql
<1>10. CASE CloseSql(c)
  <2>1. PICK id : id = Current(c).sql_id
      OBVIOUS
  <2>2. PICK q : q = Without(old.sqls, id)
      OBVIOUS
  <2>3. stream' = [stream EXCEPT ![call[c].id].sqls = q]
      BY <2>1, <2>2, <1>3, <1>4, <1>10 DEF CloseSql
  <2>4. DOMAIN q = DOMAIN old.sqls \ {id}
      BY <2>2 DEF Without
  <2>5. /\ IsFiniteSet(DOMAIN old.sqls \ {id})
        /\ Cardinality(DOMAIN old.sqls \ {id}) \in Nat
        /\ Cardinality(DOMAIN old.sqls \ {id}) <= Cardinality(DOMAIN old.sqls)
    <3>1. DOMAIN old.sqls \ {id} \subseteq DOMAIN old.sqls
        OBVIOUS
    <3> QED BY <3>1, <1>5, FS_Subset, FS_CardinalityType
  <2>6. IsFiniteSet(DOMAIN q) /\ Cardinality(DOMAIN q) <= MAX_SQL_COUNT
      BY <2>4, <2>5, <1>5
  <2> QED BY <2>3, <2>6, <1>8, <1>10 DEF CloseSql
<1> QED BY <1>6, <1>7, <1>9, <1>10

\* The larger of two numbers.
LEMMA LargerOf ==
    ASSUME NEW a \in Int, NEW b \in Int
    PROVE  Max({a, b}) = IF a >= b THEN a ELSE b
<1>1. \A x \in {a, b} : (\A y \in {a, b} : x >= y) => x = IF a >= b THEN a ELSE b
    OBVIOUS
<1>2. \E x \in {a, b} : \A y \in {a, b} : x >= y
    OBVIOUS
<1>3. Max({a, b}) \in {a, b} /\ \A y \in {a, b} : Max({a, b}) >= y
    BY <1>2, Zenon DEF Max
<1> QED BY <1>1, <1>3, Zenon

\* The program at the head of an inbox.
LEMMA HeadJob ==
    ASSUME SInv, NEW s \in StreamIds, conn[s].inbox # <<>>
    PROVE  /\ Len(conn[s].inbox) >= 1 /\ Len(conn[s].inbox) \in Nat
           /\ Head(conn[s].inbox) = conn[s].inbox[1] /\ Head(conn[s].inbox) \in Jobs
           /\ JobOK(s, Head(conn[s].inbox)) /\ Head(conn[s].inbox).c \in Calls
           /\ Head(conn[s].inbox).turn \in Nat /\ Head(conn[s].inbox).cursor \in BOOLEAN
<1>1. Len(conn[s].inbox) \in Nat /\ conn[s].inbox \in Seq(Jobs)
    BY InboxTypes DEF SInv
<1>2. Len(conn[s].inbox) >= 1 /\ Head(conn[s].inbox) = conn[s].inbox[1]
    BY <1>1
<1>3. 1 \in 1..Len(conn[s].inbox)
    BY <1>1, <1>2
<1>4. PICK j : j = conn[s].inbox[1]
    OBVIOUS
<1>5. j \in Jobs /\ JobOK(s, j)
    BY <1>3, <1>4, InboxTypes DEF SInv, Orders, Inboxes
<1>6. j.c \in Calls /\ j.turn \in Nat /\ j.cursor \in BOOLEAN
    BY <1>5 DEF Jobs
<1> QED BY <1>1, <1>2, <1>4, <1>5, <1>6

\* The thread is done with it.
LEMMA Popped ==
    ASSUME SInv, NEW s \in StreamIds, conn[s].inbox # <<>>, conn' = [conn EXCEPT ![s].inbox = Tail(@)]
    PROVE  /\ ConnStep /\ Len(conn'[s].inbox) = Len(conn[s].inbox) - 1
           /\ \A i \in 1..Len(conn'[s].inbox) :
                 i + 1 \in 1..Len(conn[s].inbox) /\ conn'[s].inbox[i] = conn[s].inbox[i + 1]
<1>1. conn[s].inbox \in Seq(Jobs) /\ Len(conn[s].inbox) >= 1 /\ Len(conn[s].inbox) \in Nat
    BY HeadJob, InboxTypes DEF SInv
<1>2. PICK box : box = Tail(conn[s].inbox)
    OBVIOUS
<1>3. /\ box \in Seq(Jobs) /\ Len(box) = Len(conn[s].inbox) - 1
      /\ \A i \in 1..Len(box) : box[i] = conn[s].inbox[i + 1]
    BY <1>1, <1>2
<1>4. conn \in [StreamIds -> Conns]
    BY DEF SInv, StreamTypes
<1>5. /\ conn' \in [StreamIds -> Conns] /\ conn'[s].inbox = box /\ conn'[s].th = conn[s].th
      /\ \A t \in StreamIds : t # s => conn'[t] = conn[t]
    BY <1>2, <1>3, <1>4 DEF Conns
<1>6. \A i \in 1..Len(box) : i + 1 \in 1..Len(conn[s].inbox)
    BY <1>1, <1>3
<1>7. ASSUME NEW t \in StreamIds
      PROVE  \E k \in 0..Len(conn[t].inbox) :
              /\ Len(conn'[t].inbox) = Len(conn[t].inbox) - k
              /\ \A i \in 1..Len(conn'[t].inbox) : conn'[t].inbox[i] = conn[t].inbox[i + k]
  <2>1. CASE t = s
    <3>1. PICK k \in 0..Len(conn[s].inbox) : k = 1
        BY <1>1
    <3>2. /\ Len(conn'[s].inbox) = Len(conn[s].inbox) - k
          /\ \A i \in 1..Len(conn'[s].inbox) : conn'[s].inbox[i] = conn[s].inbox[i + k]
        BY <3>1, <1>3, <1>5
    <3> QED BY <2>1, <3>2
  <2>2. CASE t # s
    <3>1. Len(conn[t].inbox) \in Nat
        BY InboxTypes DEF SInv
    <3>2. 0 \in 0..Len(conn[t].inbox) /\ Len(conn[t].inbox) - 0 = Len(conn[t].inbox)
          /\ \A i \in 1..Len(conn[t].inbox) : i + 0 = i
        BY <3>1
    <3> QED BY <3>2, <2>2, <1>5
  <2> QED BY <2>1, <2>2
<1>8. ConnStep
    BY <1>5, <1>7 DEF ConnStep
<1> QED BY <1>3, <1>5, <1>6, <1>8

\* Its turn is counted.
LEMMA Counted ==
    ASSUME SInv, NEW s \in StreamIds, conn[s].inbox # <<>>,
           ran' = [ran EXCEPT ![s] = Max({@, Head(conn[s].inbox).turn})]
    PROVE  RanStep
<1>1. PICK n \in Nat : n = Head(conn[s].inbox).turn
    BY HeadJob
<1>2. n <= turns[s]
    BY <1>1, HeadJob DEF JobOK
<1>3. ran \in [StreamIds -> Nat] /\ turns \in [StreamIds -> Nat] /\ \A t \in StreamIds : ran[t] <= turns[t]
    BY DEF SInv, StreamTypes, Orders, Latest
<1>4. ran[s] \in Int /\ n \in Int
    BY <1>3
<1>5. Max({ran[s], n}) = IF ran[s] >= n THEN ran[s] ELSE n
    BY <1>4, LargerOf
<1>6. PICK m : m = Max({ran[s], n})
    OBVIOUS
<1>7. m \in Nat /\ m <= turns[s]
    BY <1>2, <1>3, <1>5, <1>6
<1>8. ran' = [ran EXCEPT ![s] = m]
    BY <1>1, <1>6
<1>9. ran' \in [StreamIds -> Nat] /\ \A t \in StreamIds : ran'[t] <= turns[t]
    BY <1>3, <1>7, <1>8
<1>10. \A t \in StreamIds : turns[t] = 0 => ran'[t] = 0
  <2> SUFFICES ASSUME NEW t \in StreamIds, turns[t] = 0
               PROVE  ran'[t] = 0
      OBVIOUS
  <2>1. ran'[t] \in Nat /\ ran'[t] <= 0
      BY <1>9
  <2> QED BY <2>1
<1> QED BY <1>9, <1>10 DEF RanStep

\* The requests that run on the connection, up to the await.
LEMMA SubmitStep ==
    ASSUME HInv, NEW c \in Calls, Submit(c)
    PROVE  HInv'
<1>1. SInv /\ cursor \in [Calls -> Cursors] /\ Bodied
    BY Halves
<1>2. call[c].pc = "running" /\ UNCHANGED <<cursor, history>>
    BY DEF Submit, Running
<1>3. PICK s \in StreamIds : s = call[c].id
    BY <1>1, <1>2, Texts
<1>4. CASE UNCHANGED conn /\ Result(c, Rejected(c))
    BY <1>2, <1>4, LocalResult
<1>5. CASE UNCHANGED conn /\ Result(c, Response(Current(c).kind, Answer("other", "ok")))
    BY <1>2, <1>5, LocalResult
<1>6. CASE /\ conn[s].th = "up" /\ Sent(s, c, FALSE)
           /\ call' = [call EXCEPT ![c].pc = "waiting"]
           /\ UNCHANGED <<handles, stream, timers>>
  <2>1. SInv'
      BY <1>1, <1>2, <1>3, <1>6, SendsStep DEF history
  <2>2. /\ OnlyCall(c) /\ call'[c].pc = "waiting" /\ call'[c].ok = call[c].ok
        /\ call'[c].got = call[c].got
      BY <1>1, <1>2, <1>6, WaitingCall DEF SInv
  <2>3. ~call[c].ok /\ call[c].got = <<>>
      BY <1>1, <1>2, NoBody
  <2>4. Plain(c)
      BY <2>2, <2>3, <1>2 DEF Plain
  <2> QED BY <2>1, <2>4, <1>1, PlainBodies, HalvesNext
<1> QED BY <1>3, <1>4, <1>5, <1>6 DEF Submit

\* The baton of a stream.
LEMMA BatonIs ==
    ASSUME SInv, NEW s \in StreamIds
    PROVE  Baton(s) \in Batons
BY DEF SInv, StreamTypes, IsStream, Baton, Batons

\* The end of handle_pipeline.
LEMMA RespondStep ==
    ASSUME HInv, NEW c \in Calls, Respond(c)
    PROVE  HInv'
<1>1. SInv /\ cursor \in [Calls -> Cursors] /\ Bodied
    BY Halves
<1>2. call[c].pc = "running" /\ UNCHANGED <<conn, cursor, used, turns, ran>> /\ call' = Done(c)
    BY DEF Respond
<1>3. PICK s \in StreamIds : s = call[c].id
    BY <1>1, <1>2, Texts
<1>4. OnlyCall(c) /\ call'[c].pc = "done" /\ call'[c].id = NoId /\ ~call'[c].ok
    BY <1>1, <1>2, DoneCall DEF SInv
<1>5. Plain(c)
    BY <1>2, <1>4 DEF Plain
<1>6. release(s)
    BY <1>3 DEF Respond
<1>7. CASE stream[s].db
  <2>1. batons' = batons \cup {Baton(s)}
      BY <1>3, <1>7 DEF Respond
  <2>2. batons' \subseteq Batons
      BY <2>1, <1>1, BatonIs DEF SInv, StreamTypes
  <2>3. Releases(c, s)
      BY <2>2, <1>2, <1>3, <1>4, <1>6, <1>7 DEF Releases, Guarding
  <2> QED BY <2>3, <1>1, <1>5, ReleasesStep, PlainBodies, HalvesNext
<1>8. CASE ~stream[s].db
  <2>1. batons' = batons /\ DropGuard(s)
      BY <1>3, <1>6, <1>8 DEF Respond, release
  <2>2. ConnStep /\ RanStep
      BY <1>1, <1>2, ConnKept DEF SInv, Streams, Orders
  <2>3. Fails(c, s)
      BY <2>1, <2>2, <1>2, <1>3, <1>4 DEF Fails, Guarding
  <2> QED BY <2>3, <1>1, <1>5, FailsStep, PlainBodies, HalvesNext
<1> QED BY <1>7, <1>8

\* The thread answers a request.
LEMMA AnswerStep ==
    ASSUME HInv, NEW s \in StreamIds, conn[s].inbox # <<>>, ~Head(conn[s].inbox).cursor,
           NEW c \in Calls, c = Head(conn[s].inbox).c, call[c].pc = "waiting", NEW err, Result(c, err),
           ran' = [ran EXCEPT ![s] = Max({@, Head(conn[s].inbox).turn})],
           conn' = [conn EXCEPT ![s].inbox = Tail(@)], UNCHANGED <<cursor, batons, used, turns>>
    PROVE  HInv'
<1>1. SInv
    BY Halves
<1>2. RanStep
    BY <1>1, Counted
<1>3. /\ ConnStep /\ Len(conn'[s].inbox) = Len(conn[s].inbox) - 1
      /\ \A i \in 1..Len(conn'[s].inbox) :
            i + 1 \in 1..Len(conn[s].inbox) /\ conn'[s].inbox[i] = conn[s].inbox[i + 1]
    BY <1>1, Popped
<1>4. call[c].id = s
  <2>1. JobOK(s, Head(conn[s].inbox))
      BY <1>1, HeadJob
  <2> QED BY <2>1 DEF JobOK, Guarding
<1>5. ASSUME NEW i \in 1..Len(conn'[s].inbox), ~conn'[s].inbox[i].cursor
      PROVE  FALSE
  <2>1. /\ i + 1 \in 1..Len(conn[s].inbox) /\ 1 \in 1..Len(conn[s].inbox)
        /\ ~conn[s].inbox[i + 1].cursor /\ ~conn[s].inbox[1].cursor
      BY <1>1, <1>3, <1>5, HeadJob
  <2>2. i + 1 = 1
      BY <2>1, <1>1 DEF SInv, Orders, Inboxes
  <2>3. i \in Nat /\ i >= 1
    <3>1. Len(conn'[s].inbox) \in Int
        BY <1>1, <1>3, HeadJob
    <3> QED BY <3>1
  <2> QED BY <2>2, <2>3
<1> QED BY <1>2, <1>3, <1>4, <1>5, ResultStep

-----------------------------------------------------------------------------
(* The actions: cursors and their bodies. *)

\* What is sent last.
LEMMA FinalIs ==
    ASSUME NEW e \in {"ok", "batch", "internal"}
    PROVE  /\ Final(e) \in Seq(Entry) /\ Len(Final(e)) <= 1 /\ Final("ok") = <<>>
           /\ Final("internal") # <<>> /\ Final("internal")[1].type = "fatal"
<1>1. [type |-> "error", step |-> 0] \in Entry /\ [type |-> "fatal", step |-> 0] \in Entry
    BY DEF Entry
<1>2. /\ Final("ok") = <<>> /\ Final("batch") = <<[type |-> "error", step |-> 0]>>
      /\ Final("internal") = <<[type |-> "fatal", step |-> 0]>>
    BY DEF Final
<1>3. PICK a \in Entry, b \in Entry : /\ Final("batch") = <<a>> /\ Final("internal") = <<b>>
                                     /\ b.type = "fatal"
    BY <1>1, <1>2
<1>4. /\ <<>> \in Seq(Entry) /\ <<a>> \in Seq(Entry) /\ <<b>> \in Seq(Entry)
      /\ Len(<<>>) = 0 /\ Len(<<a>>) = 1 /\ Len(<<b>>) = 1 /\ <<b>> # <<>> /\ <<b>>[1] = b
    OBVIOUS
<1>5. Final(e) \in Seq(Entry) /\ Len(Final(e)) <= 1
  <2>1. PICK x : x = Final(e)
      OBVIOUS
  <2>2. e = "ok" \/ e = "batch" \/ e = "internal"
      OBVIOUS
  <2>3. x = <<>> \/ x = <<a>> \/ x = <<b>>
      BY <2>1, <2>2, <1>2, <1>3, Zenon
  <2>4. x \in Seq(Entry) /\ Len(x) \in {0, 1}
    <3>1. CASE x = <<>>
        BY <3>1, <1>4, Zenon
    <3>2. CASE x = <<a>>
        BY <3>2, <1>4, Zenon
    <3>3. CASE x = <<b>>
        BY <3>3, <1>4, Zenon
    <3> QED BY <3>1, <3>2, <3>3, <2>3
  <2>5. Len(x) <= 1
    <3>1. \A n \in {0, 1} : n <= 1
        OBVIOUS
    <3> QED BY <3>1, <2>4, Zenon
  <2> QED BY <2>1, <2>4, <2>5, Zenon
<1> QED BY <1>2, <1>3, <1>4, <1>5

\* A cursor that is gone.
LEMMA NoCursorIs ==
    /\ NoCursor \in Cursors /\ NoCursor.task = "none" /\ NoCursor.chan = <<>> /\ ~NoCursor.rx
    /\ Len(NoCursor.chan) <= 1
BY DEF NoCursor, Cursors

\* The fields of a cursor.
LEMMA CursorFields ==
    ASSUME NEW k \in Cursors
    PROVE  /\ k.task \in {"none", "open", "run", "failed", "end"} /\ k.chan \in Seq(Entry)
           /\ k.left \in Seq(Entry) /\ k.err \in {"ok", "batch", "internal"} /\ k.rx \in BOOLEAN
BY DEF Cursors

\* A cursor that was opened.
LEMMA OpenedCursor ==
    ASSUME NEW es \in Seq(Entry), NEW e \in {"ok", "batch", "internal"}
    PROVE  /\ OpenCursor(es, e) \in Cursors /\ OpenCursor(es, e).task = "open"
           /\ OpenCursor(es, e).chan = <<>> /\ OpenCursor(es, e).left = es
           /\ OpenCursor(es, e).err = e /\ OpenCursor(es, e).rx
BY DEF OpenCursor, Cursors

\* A cursor whose program was sent.
LEMMA SentCursor ==
    ASSUME NEW k \in Cursors
    PROVE  /\ [k EXCEPT !.task = "run"] \in Cursors /\ [k EXCEPT !.task = "run"].task = "run"
           /\ [k EXCEPT !.task = "run"].chan = k.chan /\ [k EXCEPT !.task = "run"].left = k.left
           /\ [k EXCEPT !.task = "run"].err = k.err /\ [k EXCEPT !.task = "run"].rx = k.rx
BY DEF Cursors

\* A cursor that emits an entry.
LEMMA EmittedCursor ==
    ASSUME NEW k \in Cursors, CanEmit(k)
    PROVE  /\ Emit(k) \in Cursors /\ Emit(k).task = "run" /\ Emit(k).left = Tail(k.left)
           /\ Emit(k).err = k.err /\ (Emit(k).rx <=> k.rx)
           /\ Emit(k).chan = IF k.rx THEN <<Head(k.left)>> ELSE <<>>
<1>1. PICK ch : ch = IF k.rx THEN <<Head(k.left)>> ELSE <<>>
    OBVIOUS
<1>2. k.left \in Seq(Entry) /\ k.left # <<>> /\ k.task = "run"
    BY CursorFields DEF CanEmit
<1>3. Head(k.left) \in Entry /\ Tail(k.left) \in Seq(Entry)
    BY <1>2
<1>4. ch \in Seq(Entry)
    BY <1>1, <1>3
<1>5. PICK l \in Seq(Entry) : l = Tail(k.left)
    BY <1>3
<1>6. Emit(k) = [k EXCEPT !.left = l, !.chan = ch]
    BY <1>1, <1>5 DEF Emit, Cursors
<1>7. /\ [k EXCEPT !.left = l, !.chan = ch] \in Cursors
      /\ [k EXCEPT !.left = l, !.chan = ch].task = "run"
      /\ [k EXCEPT !.left = l, !.chan = ch].left = l
      /\ [k EXCEPT !.left = l, !.chan = ch].chan = ch
      /\ [k EXCEPT !.left = l, !.chan = ch].err = k.err
      /\ [k EXCEPT !.left = l, !.chan = ch].rx = k.rx
    BY <1>2, <1>4 DEF Cursors
<1> QED BY <1>1, <1>5, <1>6, <1>7

\* A cursor whose program has run.
LEMMA ReturnedCursor ==
    ASSUME NEW k \in Cursors, NEW e \in {"ok", "batch", "internal"}
    PROVE  /\ Returned(k, e) \in Cursors
           /\ Returned(k, e).task = (IF e = "ok" THEN "end" ELSE "failed")
           /\ Returned(k, e).left = <<>> /\ Returned(k, e).err = e
           /\ (Returned(k, e).rx <=> k.rx) /\ Returned(k, e).chan = k.chan
<1>1. PICK t \in {"end", "failed"} : t = IF e = "ok" THEN "end" ELSE "failed"
    OBVIOUS
<1>2. Returned(k, e) = [k EXCEPT !.task = t, !.err = e, !.left = <<>>]
    BY <1>1 DEF Returned, Cursors
<1>3. /\ [k EXCEPT !.task = t, !.err = e, !.left = <<>>] \in Cursors
      /\ [k EXCEPT !.task = t, !.err = e, !.left = <<>>].task = t
      /\ [k EXCEPT !.task = t, !.err = e, !.left = <<>>].err = e
      /\ [k EXCEPT !.task = t, !.err = e, !.left = <<>>].left = <<>>
      /\ [k EXCEPT !.task = t, !.err = e, !.left = <<>>].chan = k.chan
      /\ [k EXCEPT !.task = t, !.err = e, !.left = <<>>].rx = k.rx
  <2>1. <<>> \in Seq(Entry) /\ t \in {"none", "open", "run", "failed", "end"}
      BY EmptySeq
  <2> QED BY <2>1 DEF Cursors
<1> QED BY <1>1, <1>2, <1>3

\* A cursor that sends the error of the program.
LEMMA FailedCursor ==
    ASSUME NEW k \in Cursors
    PROVE  /\ Fail(k) \in Cursors /\ Fail(k).task = "end" /\ Fail(k).left = k.left
           /\ Fail(k).err = k.err /\ (Fail(k).rx <=> k.rx)
           /\ Fail(k).chan = IF k.rx THEN Final(k.err) ELSE <<>>
<1>1. PICK ch : ch = IF k.rx THEN Final(k.err) ELSE <<>>
    OBVIOUS
<1>2. ch \in Seq(Entry)
    BY <1>1, CursorFields, FinalIs
<1>3. Fail(k) = [k EXCEPT !.task = "end", !.chan = ch]
    BY <1>1 DEF Fail, Cursors
<1>4. /\ [k EXCEPT !.task = "end", !.chan = ch] \in Cursors
      /\ [k EXCEPT !.task = "end", !.chan = ch].task = "end"
      /\ [k EXCEPT !.task = "end", !.chan = ch].left = k.left
      /\ [k EXCEPT !.task = "end", !.chan = ch].chan = ch
      /\ [k EXCEPT !.task = "end", !.chan = ch].err = k.err
      /\ [k EXCEPT !.task = "end", !.chan = ch].rx = k.rx
    BY <1>2 DEF Cursors
<1> QED BY <1>1, <1>3, <1>4

\* A cursor whose entry was read, or which nobody reads any more.
LEMMA ReadCursor ==
    ASSUME NEW k \in Cursors
    PROVE  /\ Fetched(k) \in Cursors /\ Fetched(k).task = k.task /\ Fetched(k).left = k.left
           /\ Fetched(k).err = k.err /\ (Fetched(k).rx <=> k.rx) /\ Fetched(k).chan = <<>>
           /\ Unread(k) \in Cursors /\ Unread(k).task = k.task /\ ~Unread(k).rx
           /\ Unread(k).chan = <<>>
<1>0. <<>> \in Seq(Entry)
    BY EmptySeq
<1>1. /\ Fetched(k) \in Cursors /\ Fetched(k).task = k.task /\ Fetched(k).left = k.left
      /\ Fetched(k).err = k.err /\ Fetched(k).rx = k.rx /\ Fetched(k).chan = <<>>
    BY <1>0 DEF Cursors, Fetched
<1>2. /\ Unread(k) \in Cursors /\ Unread(k).task = k.task /\ Unread(k).rx = FALSE
      /\ Unread(k).chan = <<>>
    BY <1>0 DEF Cursors, Unread
<1> QED BY <1>1, <1>2

\* An entry goes from what is left to the channel.
LEMMA HeadMoves ==
    ASSUME NEW l \in Seq(Entry), NEW f \in Seq(Entry), l # <<>>
    PROVE  <<Head(l)>> \o (Tail(l) \o f) = <<>> \o (l \o f)
OBVIOUS

\* An entry goes from the channel to the body.
LEMMA EntryMoves ==
    ASSUME NEW g \in Seq(Entry), NEW ch \in Seq(Entry), Len(ch) <= 1, ch # <<>>, NEW o \in Seq(Entry)
    PROVE  Append(g, ch[1]) \o (<<>> \o o) = g \o (ch \o o)
OBVIOUS

\* What the task of a cursor owes.
LEMMA OwedIs ==
    ASSUME NEW k \in Cursors
    PROVE  /\ Owed(k) \in Seq(Entry)
           /\ k.task \in {"open", "run"} => Owed(k) = k.left \o Final(k.err)
           /\ k.task = "failed" => Owed(k) = Final(k.err)
           /\ k.task \in {"end", "none"} => Owed(k) = <<>>
<1>1. /\ k.task \in {"none", "open", "run", "failed", "end"} /\ k.left \in Seq(Entry)
      /\ Final(k.err) \in Seq(Entry)
    BY CursorFields, FinalIs
<1>2. PICK t : t = k.task
    OBVIOUS
<1>3. PICK f \in Seq(Entry) : f = Final(k.err)
    BY <1>1
<1>4. Owed(k) = CASE t \in {"open", "run"} -> k.left \o f
                  [] t = "failed" -> f
                  [] OTHER -> <<>>
    BY <1>2, <1>3 DEF Owed
<1>5. k.left \o f \in Seq(Entry) /\ <<>> \in Seq(Entry)
    BY <1>1, <1>3, ConcatProperties, EmptySeq
<1>6. t \in {"open", "run"} => Owed(k) = k.left \o f
    BY <1>4
<1>7. t = "failed" => Owed(k) = f
    BY <1>4
<1>8. t \in {"end", "none"} => Owed(k) = <<>>
    BY <1>4
<1> QED BY <1>1, <1>2, <1>3, <1>5, <1>6, <1>7, <1>8

\* A cursor whose task exists is read by its call, or its program is still running.
LEMMA BodyParts ==
    ASSUME NEW x, NEW k, BodyOK(x, k), k.task # "none"
    PROVE  /\ ~x.ok \/ x.pc = "done"
           /\ \/ /\ x.pc = "streaming" /\ k.rx
                 /\ x.got \o (k.chan \o Owed(k)) = x.all \/ Broken(k)
              \/ x.pc = "done" /\ ~k.rx /\ k.task = "run" /\ k.chan = <<>>
<1>1. x.pc \in {"streaming", "done"}
    BY NoCursorIs DEF BodyOK
<1> QED BY <1>1 DEF BodyOK

\* A body that is streamed.
LEMMA StreamingBody ==
    ASSUME NEW x, NEW k, x.pc = "streaming", ~x.ok, Len(k.chan) <= 1, k.rx, k.task # "none",
           x.got \o (k.chan \o Owed(k)) = x.all \/ Broken(k)
    PROVE  BodyOK(x, k)
BY DEF BodyOK

\* One that has ended.
LEMMA DoneBody ==
    ASSUME NEW x, NEW k, x.pc = "done", ~k.rx, k.task \in {"none", "run"}, k.chan = <<>>,
           x.ok => x.got = x.all
    PROVE  BodyOK(x, k)
<1>1. Len(k.chan) <= 1
    OBVIOUS
<1> QED BY <1>1 DEF BodyOK

\* A body is started.
LEMMA OpenBody ==
    ASSUME NEW x, NEW es \in Seq(Entry), NEW e \in {"ok", "batch", "internal"}, x.pc = "streaming",
           ~x.ok, x.got = <<>>, x.all = es \o Final(e)
    PROVE  BodyOK(x, OpenCursor(es, e))
<1>1. PICK k \in Cursors : k = OpenCursor(es, e)
    BY OpenedCursor
<1>2. k.task = "open" /\ k.chan = <<>> /\ k.left = es /\ k.err = e /\ k.rx
    BY <1>1, OpenedCursor
<1>3. PICK f \in Seq(Entry) : f = Final(e)
    BY FinalIs
<1>4. Owed(k) = es \o f
    BY <1>2, <1>3, OwedIs
<1>5. PICK o \in Seq(Entry) : o = es \o f
    BY ConcatProperties
<1>6. <<>> \o (<<>> \o o) = o
    BY ConcatEmptySeq
<1>7. x.got \o (k.chan \o Owed(k)) = x.all
    BY <1>2, <1>3, <1>4, <1>5, <1>6
<1>8. Len(k.chan) <= 1
    BY <1>2
<1> QED BY <1>1, <1>2, <1>7, <1>8, StreamingBody

\* The program of a cursor is sent, or cannot be, or is lost.
LEMMA SentBody ==
    ASSUME NEW x, NEW k \in Cursors, BodyOK(x, k), k.task \in {"open", "run"}, k.rx
    PROVE  /\ BodyOK(x, [k EXCEPT !.task = "run"]) /\ BodyOK(x, Returned(k, "internal"))
           /\ x.pc = "streaming"
<1>1. /\ ~x.ok /\ x.pc = "streaming"
      /\ x.got \o (k.chan \o Owed(k)) = x.all \/ Broken(k)
      /\ Len(k.chan) <= 1
    BY BodyParts DEF BodyOK
<1>2. ~Broken(k)
    BY DEF Broken
<1>3. PICK r : r = [k EXCEPT !.task = "run"]
    OBVIOUS
<1>4. r \in Cursors /\ r.task = "run" /\ r.chan = k.chan /\ r.left = k.left /\ r.err = k.err /\ r.rx
    BY <1>3, SentCursor
<1>5. Owed(r) = Owed(k)
    BY <1>4, OwedIs
<1>6. BodyOK(x, r)
  <2>1. x.got \o (r.chan \o Owed(r)) = x.all
      BY <1>1, <1>2, <1>4, <1>5
  <2> QED BY <2>1, <1>1, <1>4, StreamingBody
<1>7. PICK q : q = Returned(k, "internal")
    OBVIOUS
<1>8. q.task = "failed" /\ q.err = "internal" /\ q.rx /\ q.chan = k.chan
    BY <1>7, ReturnedCursor
<1>9. Broken(q)
    BY <1>8 DEF Broken
<1>10. BodyOK(x, q)
    BY <1>1, <1>8, <1>9, StreamingBody
<1> QED BY <1>1, <1>3, <1>6, <1>7, <1>10

\* An entry is emitted.
LEMMA EmitBody ==
    ASSUME NEW x, NEW k \in Cursors, BodyOK(x, k), CanEmit(k)
    PROVE  BodyOK(x, Emit(k))
<1>1. PICK q \in Cursors : q = Emit(k)
    BY EmittedCursor
<1>2. /\ q.task = "run" /\ q.left = Tail(k.left) /\ q.err = k.err /\ (q.rx <=> k.rx)
      /\ q.chan = IF k.rx THEN <<Head(k.left)>> ELSE <<>>
    BY <1>1, EmittedCursor
<1>3. k.task = "run" /\ k.left # <<>> /\ (k.chan = <<>> \/ ~k.rx)
    BY DEF CanEmit
<1>4. PICK l \in Seq(Entry) : l = k.left
    BY CursorFields
<1>5. PICK f \in Seq(Entry) : f = Final(k.err)
    BY CursorFields, FinalIs
<1>6. Owed(k) = l \o f /\ Owed(q) = Tail(l) \o f
    BY <1>2, <1>3, <1>4, <1>5, OwedIs
<1>7. CASE x.pc = "streaming" /\ k.rx
  <2>1. x.got \o (k.chan \o Owed(k)) = x.all /\ ~x.ok
      BY <1>3, <1>7, BodyParts DEF Broken
  <2>2. k.chan = <<>> /\ q.chan = <<Head(l)>> /\ q.rx
      BY <1>2, <1>3, <1>4, <1>7
  <2>3. <<Head(l)>> \o (Tail(l) \o f) = <<>> \o (l \o f)
      BY <1>3, <1>4, HeadMoves
  <2>4. x.got \o (q.chan \o Owed(q)) = x.all
      BY <2>1, <2>2, <2>3, <1>6
  <2>5. Len(q.chan) <= 1
      BY <2>2
  <2> QED BY <2>1, <2>2, <2>4, <2>5, <1>1, <1>2, <1>7, StreamingBody
<1>8. CASE x.pc = "done" /\ ~k.rx
  <2>1. q.chan = <<>> /\ ~q.rx
      BY <1>2, <1>8
  <2>2. x.ok => x.got = x.all
      BY DEF BodyOK
  <2> QED BY <2>1, <2>2, <1>1, <1>2, <1>8, DoneBody
<1> QED BY <1>3, <1>7, <1>8, BodyParts

\* The program has run.
LEMMA RanBody ==
    ASSUME NEW x, NEW k \in Cursors, BodyOK(x, k), Ran(k), k.rx
    PROVE  BodyOK(x, Returned(k, k.err))
<1>1. PICK e \in {"ok", "batch", "internal"} : e = k.err
    BY CursorFields
<1>2. PICK q \in Cursors : q = Returned(k, e)
    BY ReturnedCursor
<1>3. q.task = (IF e = "ok" THEN "end" ELSE "failed") /\ q.err = e /\ q.rx /\ q.chan = k.chan
    BY <1>2, ReturnedCursor
<1>4. k.task = "run" /\ k.left = <<>>
    BY DEF Ran
<1>5. x.pc = "streaming" /\ ~x.ok /\ x.got \o (k.chan \o Owed(k)) = x.all
    BY <1>4, BodyParts DEF Broken
<1>6. PICK f \in Seq(Entry) : f = Final(e)
    BY FinalIs
<1>7. Owed(k) = f
  <2>1. Owed(k) = <<>> \o f
      BY <1>1, <1>4, <1>6, OwedIs
  <2> QED BY <2>1, ConcatEmptySeq
<1>8. Owed(q) = f
  <2>1. CASE e = "ok"
      BY <2>1, <1>3, <1>6, OwedIs, FinalIs
  <2>2. CASE e # "ok"
      BY <2>2, <1>3, <1>6, OwedIs
  <2> QED BY <2>1, <2>2
<1>9. x.got \o (q.chan \o Owed(q)) = x.all
    BY <1>3, <1>5, <1>7, <1>8
<1>10. Len(q.chan) <= 1 /\ q.task # "none"
  <2>1. Len(k.chan) <= 1
      BY DEF BodyOK
  <2>2. q.task # "none"
      BY <1>3
  <2> QED BY <2>1, <2>2, <1>3
<1>11. BodyOK(x, q)
    BY <1>3, <1>5, <1>9, <1>10, StreamingBody
<1> QED BY <1>1, <1>2, <1>11

\* The error of the program is sent.
LEMMA FailBody ==
    ASSUME NEW x, NEW k \in Cursors, BodyOK(x, k), CanFail(k)
    PROVE  BodyOK(x, Fail(k))
<1>1. PICK q \in Cursors : q = Fail(k)
    BY FailedCursor
<1>2. k.task = "failed" /\ (k.chan = <<>> \/ ~k.rx)
    BY DEF CanFail
<1>3. x.pc = "streaming" /\ ~x.ok /\ k.rx /\ (x.got \o (k.chan \o Owed(k)) = x.all \/ Broken(k))
    BY <1>2, BodyParts
<1>4. PICK f \in Seq(Entry) : f = Final(k.err)
    BY CursorFields, FinalIs
<1>5. q.task = "end" /\ q.rx /\ q.chan = f
    BY <1>1, <1>3, <1>4, FailedCursor
<1>6. Owed(q) = <<>> /\ Owed(k) = f
    BY <1>2, <1>4, <1>5, OwedIs
<1>7. f \o <<>> = f /\ <<>> \o f = f
    BY ConcatEmptySeq
<1>8. x.got \o (k.chan \o Owed(k)) = x.all => x.got \o (q.chan \o Owed(q)) = x.all
    BY <1>2, <1>3, <1>5, <1>6, <1>7
<1>9. Broken(k) => Broken(q)
  <2>1. Broken(k) => k.err = "internal"
      BY <1>2 DEF Broken
  <2>2. k.err = "internal" => f # <<>> /\ f[1].type = "fatal"
      BY <1>4, FinalIs
  <2> QED BY <2>1, <2>2, <1>5 DEF Broken
<1>10. Len(q.chan) <= 1
    BY <1>4, <1>5, CursorFields, FinalIs
<1>11. BodyOK(x, q)
    BY <1>3, <1>5, <1>8, <1>9, <1>10, StreamingBody
<1> QED BY <1>1, <1>11

\* An entry is read.
LEMMA FetchBody ==
    ASSUME NEW x, NEW y, NEW k \in Cursors, BodyOK(x, k), x.pc = "streaming", x.got \in Seq(Entry),
           CanFetch(k), k.chan[1].type # "fatal", y.pc = x.pc, y.all = x.all, y.ok = x.ok,
           y.got = Append(x.got, k.chan[1])
    PROVE  BodyOK(y, Fetched(k))
<1>1. PICK q \in Cursors : q = Fetched(k)
    BY ReadCursor
<1>2. /\ k.rx /\ k.task # "none" /\ Len(k.chan) <= 1
      /\ x.got \o (k.chan \o Owed(k)) = x.all \/ Broken(k)
    BY DEF BodyOK
<1>3. q.task = k.task /\ q.left = k.left /\ q.err = k.err /\ (q.rx <=> k.rx) /\ q.chan = <<>>
    BY <1>1, ReadCursor
<1>4. k.chan \in Seq(Entry) /\ k.chan # <<>> /\ k.task \in {"none", "open", "run", "failed", "end"}
    BY CursorFields DEF CanFetch
<1>5. Owed(q) = Owed(k) /\ Owed(k) \in Seq(Entry)
    BY <1>3, <1>4, OwedIs
<1>6. Append(x.got, k.chan[1]) \o (<<>> \o Owed(k)) = x.got \o (k.chan \o Owed(k))
    BY <1>2, <1>4, <1>5, EntryMoves
<1>7. x.got \o (k.chan \o Owed(k)) = x.all => y.got \o (q.chan \o Owed(q)) = y.all
    BY <1>3, <1>5, <1>6
<1>8. Broken(k) => Broken(q)
    BY <1>3 DEF Broken
<1>9. ~y.ok
    BY DEF BodyOK
<1>10. Len(q.chan) <= 1
    BY <1>3
<1>11. BodyOK(y, q)
    BY <1>2, <1>3, <1>7, <1>8, <1>9, <1>10, StreamingBody
<1> QED BY <1>1, <1>11

\* A body that is streamed to its end is complete.
LEMMA EndBody ==
    ASSUME NEW x, NEW k \in Cursors, BodyOK(x, k), x.pc = "streaming", x.got \in Seq(Entry), AtEnd(k)
    PROVE  x.got = x.all
<1>1. k.task = "end" /\ k.chan = <<>>
    BY DEF AtEnd
<1>2. x.got \o (k.chan \o Owed(k)) = x.all
    BY <1>1 DEF BodyOK, Broken
<1>3. Owed(k) = <<>>
    BY <1>1, OwedIs
<1>4. x.got \o (<<>> \o <<>>) = x.got
    BY ConcatEmptySeq
<1> QED BY <1>1, <1>2, <1>3, <1>4

\* The cursor of one call changes.
LEMMA BodyAt ==
    ASSUME cursor \in [Calls -> Cursors], Bodied, NEW c \in Calls, NEW k \in Cursors,
           cursor' = [cursor EXCEPT ![c] = k], \A d \in Calls : d # c => call'[d] = call[d],
           BodyOK(call'[c], k)
    PROVE  cursor' \in [Calls -> Cursors] /\ Bodied'
<1>1. cursor'[c] = k /\ \A d \in Calls : d # c => cursor'[d] = cursor[d]
    OBVIOUS
<1>2. \A d \in Calls : BodyOK(call'[d], cursor'[d])
    BY <1>1 DEF Bodied
<1> QED BY <1>2 DEF Bodied

\* The cursor endpoint.
LEMMA OpenCursorStep ==
    ASSUME HInv, NEW c \in Calls, OpenCursorStream(c)
    PROVE  HInv'
<1>1. SInv /\ cursor \in [Calls -> Cursors] /\ Bodied
    BY Halves
<1>2. call[c].pc = "running" /\ conn' = conn /\ batons' = batons /\ used' = used /\ turns' = turns
      /\ ran' = ran
    BY DEF OpenCursorStream, history
<1>3. PICK s \in StreamIds : s = call[c].id
    BY <1>1, <1>2, Texts
<1>4. CASE FailCall(c) /\ UNCHANGED cursor
  <2>1. ConnStep /\ RanStep
      BY <1>1, <1>2, ConnKept DEF SInv, Streams, Orders
  <2> QED BY <2>1, <1>2, <1>4, FailCallStep
<1>5. CASE ~(FailCall(c) /\ UNCHANGED cursor)
  <2>1. PICK run \in Runs :
            /\ cursor' = [cursor EXCEPT ![c] = OpenCursor(Entries(run.steps), run.err)]
            /\ call' = [call EXCEPT ![c].pc = "streaming", ![c].head = TRUE,
                                    ![c].baton = Baton(s), ![c].left = <<>>,
                                    ![c].all = Entries(run.steps) \o Final(run.err)]
      BY <1>3, <1>5 DEF OpenCursorStream
  <2>2. Rejected(c) = "ok" /\ release(s)
      BY <1>3, <1>5 DEF OpenCursorStream
  <2>3. stream[s].db
      BY <2>2, <1>3 DEF Rejected
  <2>4. PICK es \in Seq(Entry), e \in {"ok", "batch", "internal"} :
            es = Entries(run.steps) /\ e = run.err
      BY HttpAssumption
  <2>5. PICK all \in Seq(Entry) : all = es \o Final(e)
      BY FinalIs, ConcatProperties
  <2>6. PICK b \in Batons : b = Baton(s)
      BY <1>1, BatonIs
  <2>7. call' = [call EXCEPT ![c].pc = "streaming", ![c].head = TRUE, ![c].baton = b,
                             ![c].left = <<>>, ![c].all = all]
      BY <2>1, <2>4, <2>5, <2>6
  <2>8. /\ OnlyCall(c) /\ call'[c].pc = "streaming" /\ call'[c].id = call[c].id
        /\ call'[c].turn = call[c].turn /\ call'[c].ok = call[c].ok
        /\ call'[c].all = all /\ call'[c].got = call[c].got
      BY <2>7, <1>1, <1>2, StreamingCall DEF SInv
  <2>9. Releases(c, s)
      BY <2>2, <2>3, <2>8, <1>1, <1>2, <1>3 DEF Releases, Guarding, SInv, StreamTypes
  <2>10. ~call[c].ok /\ call[c].got = <<>>
      BY <1>1, <1>2, NoBody
  <2>11. BodyOK(call'[c], OpenCursor(es, e))
      BY <2>5, <2>8, <2>10, OpenBody
  <2>12. cursor' = [cursor EXCEPT ![c] = OpenCursor(es, e)] /\ OpenCursor(es, e) \in Cursors
      BY <2>1, <2>4, OpenedCursor
  <2>13. cursor' \in [Calls -> Cursors] /\ Bodied'
      BY <2>8, <2>11, <2>12, <1>1, BodyAt DEF OnlyCall
  <2> QED BY <2>9, <2>13, <1>1, ReleasesStep, HalvesNext
<1> QED BY <1>4, <1>5

\* The cursor of a call and its body.
LEMMA CursorOf ==
    ASSUME HInv, NEW c \in Calls
    PROVE  /\ cursor[c] \in Cursors /\ BodyOK(call[c], cursor[c]) /\ call[c].got \in Seq(Entry)
           /\ IsCall(call[c]) /\ (cursor[c].task = "open" => cursor[c].rx)
<1>1. cursor[c] \in Cursors /\ BodyOK(call[c], cursor[c]) /\ IsCall(call[c])
    BY DEF HInv, Types, Bodied, CallShapes
<1>2. cursor[c].task = "open" => cursor[c].rx
    BY <1>1, BodyParts
<1> QED BY <1>1, <1>2 DEF IsCall

\* Only a cursor changes.
LEMMA OnlyCursor ==
    ASSUME HInv, NEW c \in Calls, NEW k \in Cursors, BodyOK(call[c], k),
           cursor' = [cursor EXCEPT ![c] = k],
           Still
    PROVE  HInv'
<1>1. SInv /\ cursor \in [Calls -> Cursors] /\ Bodied
    BY Halves
<1>2. call' = call
    BY DEF Still
<1>3. cursor' \in [Calls -> Cursors] /\ Bodied'
    BY <1>1, <1>2, BodyAt
<1> QED BY <1>1, <1>3, StillStep, HalvesNext

\* Nothing but cursors changes.
LEMMA NothingElse ==
    ASSUME HInv, UNCHANGED <<handles, stream, timers, conn, call, history>>
    PROVE  Still
<1>1. ConnStep /\ RanStep
    BY Halves, ConnKept DEF SInv, Streams, Orders, history
<1> QED BY <1>1 DEF Still, history

\* run_cursor sends its program, or cannot.
LEMMA RunCursorStep ==
    ASSUME HInv, NEW c \in Calls, RunCursor(c)
    PROVE  HInv'
<1>1. SInv /\ cursor \in [Calls -> Cursors] /\ Bodied
    BY Halves
<1>2. UNCHANGED <<handles, stream, timers, call, history>> /\ cursor[c].task = "open"
    BY DEF RunCursor
<1>3. PICK k \in Cursors : k = cursor[c]
    BY CursorOf
<1>4. /\ BodyOK(call[c], [k EXCEPT !.task = "run"]) /\ BodyOK(call[c], Returned(k, "internal"))
      /\ call[c].pc = "streaming"
    BY <1>2, <1>3, CursorOf, SentBody
<1>5. PICK s \in StreamIds : s = call[c].id
    BY <1>4, CursorOf DEF IsCall
<1>6. CASE conn[s].th = "up"
  <2>1. cursor' = [cursor EXCEPT ![c] = [k EXCEPT !.task = "run"]] /\ Sent(s, c, TRUE)
      BY <1>1, <1>3, <1>5, <1>6 DEF RunCursor
  <2>2. SInv'
      BY <2>1, <1>1, <1>2, <1>4, <1>5, <1>6, SendsStep DEF history
  <2>3. [k EXCEPT !.task = "run"] \in Cursors
      BY SentCursor
  <2>4. cursor' \in [Calls -> Cursors] /\ Bodied'
      BY <2>1, <2>3, <1>1, <1>2, <1>4, BodyAt
  <2> QED BY <2>2, <2>4, HalvesNext
<1>7. CASE conn[s].th # "up"
  <2>1. cursor' = [cursor EXCEPT ![c] = Returned(k, "internal")] /\ conn' = conn
      BY <1>1, <1>3, <1>5, <1>7 DEF RunCursor
  <2>2. Still
      BY <2>1, <1>2, NothingElse
  <2>3. Returned(k, "internal") \in Cursors
      BY ReturnedCursor
  <2> QED BY <2>1, <2>2, <2>3, <1>4, OnlyCursor
<1> QED BY <1>6, <1>7

\* A cursor emits an entry, or the error of its program.
LEMMA EmitSteps ==
    ASSUME HInv, \/ \E s \in StreamIds : EmitEntry(s)
                 \/ \E c \in Calls : EmitError(c)
    PROVE  HInv'
<1>1. CASE \E s \in StreamIds : EmitEntry(s)
  <2>1. PICK s \in StreamIds : EmitEntry(s)
      BY <1>1
  <2>2. PICK c \in Calls : CanEmit(cursor[c]) /\ cursor' = [cursor EXCEPT ![c] = Emit(@)]
      BY <2>1 DEF EmitEntry
  <2>3. Still
      BY <2>1, NothingElse DEF EmitEntry
  <2>4. PICK k \in Cursors : k = cursor[c]
      BY CursorOf
  <2>5. Emit(k) \in Cursors /\ BodyOK(call[c], Emit(k))
      BY <2>2, <2>4, CursorOf, EmittedCursor, EmitBody
  <2>6. cursor' = [cursor EXCEPT ![c] = Emit(k)]
      BY <2>2, <2>4, Halves
  <2> QED BY <2>3, <2>5, <2>6, OnlyCursor
<1>2. CASE \E c \in Calls : EmitError(c)
  <2>2. PICK c \in Calls : EmitError(c)
      BY <1>2
  <2>3. Still
      BY <2>2, NothingElse DEF EmitError
  <2>4. PICK k \in Cursors : k = cursor[c]
      BY CursorOf
  <2>5. Fail(k) \in Cursors /\ BodyOK(call[c], Fail(k))
      BY <2>2, <2>4, CursorOf, FailedCursor, FailBody DEF EmitError
  <2>6. cursor' = [cursor EXCEPT ![c] = Fail(k)]
      BY <2>2, <2>4, Halves DEF EmitError
  <2> QED BY <2>3, <2>5, <2>6, OnlyCursor
<1> QED BY <1>1, <1>2

\* The thread of a connection drops what it has.
LEMMA DroppedConn ==
    ASSUME SInv, NEW s \in StreamIds, conn[s].inbox # <<>>,
           conn' = [conn EXCEPT ![s] = [th |-> "dead", inbox |-> <<>>]]
    PROVE  ConnStep
<1>1. Len(conn[s].inbox) >= 1 /\ Len(conn[s].inbox) \in Nat
    BY HeadJob
<1>2. conn[s].th # "none"
    BY <1>1 DEF SInv, Streams, Unused
<1>3. PICK x : x = [th |-> "dead", inbox |-> <<>>]
    OBVIOUS
<1>4. x \in Conns /\ x.th = "dead" /\ x.inbox = <<>>
    BY <1>3 DEF Conns
<1>5. /\ conn' \in [StreamIds -> Conns] /\ conn'[s] = x
      /\ \A t \in StreamIds : t # s => conn'[t] = conn[t]
    BY <1>3, <1>4 DEF SInv, StreamTypes
<1>6. ASSUME NEW t \in StreamIds
      PROVE  \E k \in 0..Len(conn[t].inbox) :
              /\ Len(conn'[t].inbox) = Len(conn[t].inbox) - k
              /\ \A i \in 1..Len(conn'[t].inbox) : conn'[t].inbox[i] = conn[t].inbox[i + k]
  <2>1. CASE t = s
    <3>1. PICK k \in 0..Len(conn[s].inbox) : k = Len(conn[s].inbox)
        BY <1>1
    <3>2. Len(conn'[s].inbox) = 0
        BY <1>4, <1>5
    <3>3. Len(conn'[s].inbox) = Len(conn[s].inbox) - k /\ 1..Len(conn'[s].inbox) = {}
        BY <3>1, <3>2, <1>1
    <3> QED BY <2>1, <3>1, <3>3
  <2>2. CASE t # s
    <3>1. Len(conn[t].inbox) \in Nat
        BY InboxTypes DEF SInv
    <3>2. 0 \in 0..Len(conn[t].inbox) /\ Len(conn[t].inbox) - 0 = Len(conn[t].inbox)
          /\ \A i \in 1..Len(conn[t].inbox) : i + 0 = i
        BY <3>1
    <3> QED BY <3>2, <2>2, <1>5
  <2> QED BY <2>1, <2>2
<1> QED BY <1>2, <1>4, <1>5, <1>6 DEF ConnStep

\* A program that was lost is of the call that waits and has the stream, or of a cursor.
LEMMA LostJobs ==
    ASSUME SInv, NEW s \in StreamIds, conn[s].inbox # <<>>, NEW c \in Lost(s, Tail(conn[s].inbox))
    PROVE  c \in Calls /\ (call[c].pc = "waiting" => Guarding(c, s))
<1>1. PICK box : box = Tail(conn[s].inbox)
    OBVIOUS
<1>2. conn[s].inbox \in Seq(Jobs) /\ Len(conn[s].inbox) >= 1 /\ Len(conn[s].inbox) \in Nat
    BY HeadJob, InboxTypes DEF SInv
<1>3. /\ box \in Seq(Jobs) /\ Len(box) = Len(conn[s].inbox) - 1
      /\ \A i \in 1..Len(box) : box[i] = conn[s].inbox[i + 1]
    BY <1>1, <1>2
<1>4. PICK i \in 1..Len(box) : c = box[i].c
    BY <1>1, <1>3 DEF Lost
<1>5. i + 1 \in 1..Len(conn[s].inbox) /\ box[i] = conn[s].inbox[i + 1]
    BY <1>2, <1>3, <1>4
<1>6. PICK j : j = box[i]
    OBVIOUS
<1>7. j \in Jobs /\ JobOK(s, j) /\ c = j.c
    BY <1>4, <1>5, <1>6, InboxTypes DEF SInv, Orders, Inboxes
<1>8. j.c \in Calls /\ j.cursor \in BOOLEAN
    BY <1>7 DEF Jobs
<1>9. call[c].pc = "waiting" => Guarding(c, s)
    BY <1>7, <1>8 DEF JobOK
<1> QED BY <1>7, <1>8, <1>9

\* The thread is gone.
LEMMA ThreadDiesStep ==
    ASSUME HInv, NEW s \in StreamIds, conn[s].inbox # <<>>, ThreadDies(s), RanStep,
           UNCHANGED <<batons, used, turns>>
    PROVE  HInv'
<1>1. SInv /\ cursor \in [Calls -> Cursors] /\ Bodied
    BY Halves
<1>2. PICK lost : lost = Lost(s, Tail(conn[s].inbox))
    OBVIOUS
<1>3. PICK failed : failed = {c \in lost : call[c].pc = "waiting"}
    OBVIOUS
<1>4. PICK broken : broken = {c \in lost : cursor[c].task = "run"}
    OBVIOUS
<1>5. PICK h : h = Head(conn[s].inbox).c
    OBVIOUS
<1>6. /\ conn' = [conn EXCEPT ![s] = [th |-> "dead", inbox |-> <<>>]]
      /\ call' = [c \in Calls |-> IF c \in failed THEN Done(c)[c] ELSE call[c]]
      /\ cursor' = [c \in Calls |->
                        CASE c \in broken /\ cursor[c].rx -> Returned(cursor[c], "internal")
                          [] c \in broken \cup {h} /\ ~cursor[c].rx -> NoCursor
                          [] OTHER -> cursor[c]]
      /\ IF failed = {} THEN UNCHANGED <<handles, stream, timers>> ELSE DropGuard(s)
    BY <1>2, <1>3, <1>4, <1>5 DEF ThreadDies
<1>7. ConnStep
    BY <1>1, <1>6, DroppedConn
<1>8. \A c \in failed : c \in Calls /\ call[c].pc = "waiting" /\ Guarding(c, s)
    BY <1>1, <1>2, <1>3, LostJobs
<1>9. SInv'
  <2>1. CASE failed = {}
    <3>1. call' = call
        BY <2>1, <1>1, <1>6 DEF SInv, CallShapes
    <3>2. Still
        BY <2>1, <3>1, <1>6, <1>7 DEF Still
    <3> QED BY <3>2, <1>1, StillStep
  <2>2. CASE failed # {}
    <3>1. PICK c \in Calls : c \in failed /\ Guarding(c, s)
        BY <2>2, <1>8
    <3>2. failed = {c}
      <4>1. \A d \in Calls : Guarding(d, s) => d = c
          BY <3>1, <1>1 DEF SInv, Streams, Held
      <4> QED BY <4>1, <3>1, <1>8
    <3>3. call' = Done(c)
      <4>1. PICK x : x = [NewCall EXCEPT !.pc = "done"]
          OBVIOUS
      <4>2. call = [d \in Calls |-> call[d]]
          BY <1>1 DEF SInv, CallShapes
      <4>3. Done(c) = [call EXCEPT ![c] = x] /\ Done(c)[c] = x
          BY <4>1, <4>2 DEF Done
      <4>4. call' = [d \in Calls |-> IF d = c THEN x ELSE call[d]]
          BY <4>3, <3>2, <1>6
      <4> QED BY <4>2, <4>3, <4>4
    <3>4. OnlyCall(c) /\ call'[c].pc = "done" /\ call'[c].id = NoId
        BY <3>3, <1>1, DoneCall DEF SInv
    <3>5. Fails(c, s)
        BY <2>2, <3>1, <3>4, <1>6, <1>7 DEF Fails
    <3> QED BY <3>5, <1>1, FailsStep
  <2> QED BY <2>1, <2>2
<1>10. ASSUME NEW c \in Calls
       PROVE  cursor'[c] \in Cursors /\ BodyOK(call'[c], cursor'[c])
  <2>1. PICK k \in Cursors : k = cursor[c]
      BY CursorOf
  <2>2. BodyOK(call[c], k)
      BY <2>1, CursorOf
  <2>3. cursor'[c] = CASE c \in broken /\ k.rx -> Returned(k, "internal")
                       [] c \in broken \cup {h} /\ ~k.rx -> NoCursor
                       [] OTHER -> k
      BY <2>1, <1>6
  <2>4. \/ c \in broken /\ k.rx /\ cursor'[c] = Returned(k, "internal")
        \/ ~k.rx /\ cursor'[c] = NoCursor
        \/ cursor'[c] = k
      BY <2>3
  <2>5. CASE c \in failed
    <3>1. call[c].pc = "waiting"
        BY <2>5, <1>8
    <3>2. k = NoCursor
        BY <3>1, <2>2 DEF BodyOK
    <3>3. k.task = "none"
        BY <3>2, NoCursorIs
    <3>4. cursor'[c] = NoCursor
        BY <3>2, <3>3, <2>1, <2>4, <1>4
    <3>5. call'[c].pc = "done" /\ ~call'[c].ok
      <4>1. PICK x : x = [NewCall EXCEPT !.pc = "done"]
          OBVIOUS
      <4>2. x.pc = "done" /\ ~x.ok
          BY <4>1 DEF NewCall
      <4>3. call = [d \in Calls |-> call[d]]
          BY <1>1 DEF SInv, CallShapes
      <4>4. Done(c)[c] = x
          BY <4>1, <4>3 DEF Done
      <4> QED BY <4>2, <4>4, <2>5, <1>6
    <3> QED BY <3>4, <3>5, NoCursorIs, DoneBody
  <2>6. CASE c \notin failed
    <3>1. call'[c] = call[c]
        BY <2>6, <1>6
    <3>2. CASE c \in broken /\ k.rx /\ cursor'[c] = Returned(k, "internal")
      <4>1. k.task = "run"
          BY <3>2, <2>1, <1>4
      <4>2. BodyOK(call[c], Returned(k, "internal"))
          BY <4>1, <3>2, <2>2, SentBody
      <4>3. Returned(k, "internal") \in Cursors
          BY ReturnedCursor
      <4> QED BY <4>2, <4>3, <3>1, <3>2
    <3>3. CASE ~k.rx /\ cursor'[c] = NoCursor
      <4>1. call[c].pc # "streaming"
          BY <3>3, <2>2 DEF BodyOK
      <4>2. BodyOK(call[c], NoCursor)
          BY <4>1, <2>2, NoCursorIs DEF BodyOK
      <4> QED BY <4>2, <3>1, <3>3, NoCursorIs
    <3>4. CASE cursor'[c] = k
        BY <3>1, <3>4, <2>2
    <3> QED BY <3>2, <3>3, <3>4, <2>4
  <2> QED BY <2>5, <2>6
<1>11. cursor' \in [Calls -> Cursors]
    BY <1>6, <1>10
<1>12. Bodied'
    BY <1>10 DEF Bodied
<1> QED BY <1>9, <1>11, <1>12, HalvesNext

\* The steps of a thread.
LEMMA ThreadStep ==
    ASSUME HInv, NEW s \in StreamIds, Thread(s)
    PROVE  HInv'
<1>1. SInv /\ cursor \in [Calls -> Cursors] /\ Bodied
    BY Halves
<1>2. CASE RunProgram(s)
  <2>1. conn[s].inbox # <<>> /\ ~Head(conn[s].inbox).cursor /\ UNCHANGED <<batons, used, turns>>
        /\ ran' = [ran EXCEPT ![s] = Max({@, Head(conn[s].inbox).turn})]
      BY <1>2 DEF RunProgram
  <2>2. PICK c \in Calls : c = Head(conn[s].inbox).c
      BY <2>1, <1>1, HeadJob
  <2>3. CASE call[c].pc = "waiting" /\ cursor' = cursor
    <3>1. CASE ThreadDies(s)
        BY <3>1, <2>1, <1>1, Counted, ThreadDiesStep
    <3>2. CASE ~ThreadDies(s)
      <4>1. PICK a \in Answers : Result(c, Response(Current(c).kind, a))
          BY <3>2, <2>2, <2>3, <1>2 DEF RunProgram
      <4>2. conn' = [conn EXCEPT ![s].inbox = Tail(@)]
          BY <3>2, <2>2, <2>3, <1>2 DEF RunProgram
      <4> QED BY <4>1, <4>2, <2>1, <2>2, <2>3, AnswerStep
    <3> QED BY <3>1, <3>2
  <2>4. CASE ThreadDies(s)
      BY <2>4, <2>1, <1>1, Counted, ThreadDiesStep
  <2> QED BY <2>2, <2>3, <2>4, <1>2 DEF RunProgram
<1>3. CASE EmitEntry(s)
    BY <1>3, EmitSteps
<1>4. CASE EndProgram(s)
  <2>1. PICK c \in Calls :
        /\ Emitting(s, c) /\ Ran(cursor[c])
        /\ ran' = [ran EXCEPT ![s] = Max({@, Head(conn[s].inbox).turn})]
        /\ \/ /\ cursor[c].rx
              /\ cursor' = [cursor EXCEPT ![c] = Returned(@, cursor[c].err)]
              /\ conn' = [conn EXCEPT ![s].inbox = Tail(@)]
              /\ UNCHANGED <<handles, stream, timers, call>>
           \/ ThreadDies(s)
      BY <1>4 DEF EndProgram
  <2>2. conn[s].inbox # <<>> /\ UNCHANGED <<batons, used, turns>>
      BY <2>1, <1>4 DEF EndProgram, Emitting
  <2>3. RanStep
      BY <2>1, <2>2, <1>1, Counted
  <2>4. CASE ThreadDies(s)
      BY <2>2, <2>3, <2>4, ThreadDiesStep
  <2>5. CASE /\ cursor[c].rx
             /\ cursor' = [cursor EXCEPT ![c] = Returned(@, cursor[c].err)]
             /\ conn' = [conn EXCEPT ![s].inbox = Tail(@)]
             /\ UNCHANGED <<handles, stream, timers, call>>
    <3>1. ConnStep
        BY <2>2, <2>5, <1>1, Popped
    <3>2. Still
        BY <3>1, <2>2, <2>3, <2>5 DEF Still
    <3>3. PICK k \in Cursors : k = cursor[c]
        BY CursorOf
    <3>4. Returned(k, k.err) \in Cursors /\ BodyOK(call[c], Returned(k, k.err))
      <4>1. k.err \in {"ok", "batch", "internal"} /\ BodyOK(call[c], k) /\ Ran(k) /\ k.rx
          BY <3>3, <2>1, <2>5, CursorOf, CursorFields
      <4> QED BY <4>1, ReturnedCursor, RanBody
    <3>5. cursor' = [cursor EXCEPT ![c] = Returned(k, k.err)]
        BY <3>3, <2>5, <1>1
    <3> QED BY <3>2, <3>4, <3>5, OnlyCursor
  <2> QED BY <2>1, <2>4, <2>5
<1>5. CASE ThreadEnds(s)
  <2>1. /\ conn[s].th = "up" /\ conn' = [conn EXCEPT ![s].th = "ended"]
        /\ UNCHANGED <<handles, stream, timers, call, cursor, history>>
      BY <1>5 DEF ThreadEnds
  <2>2. conn \in [StreamIds -> Conns]
      BY <1>1 DEF SInv, StreamTypes
  <2>3. /\ conn' \in [StreamIds -> Conns] /\ conn'[s].th = "ended"
        /\ \A t \in StreamIds : conn'[t].inbox = conn[t].inbox /\ (t # s => conn'[t] = conn[t])
      BY <2>1, <2>2 DEF Conns
  <2>4. ASSUME NEW t \in StreamIds
        PROVE  \E k \in 0..Len(conn[t].inbox) :
              /\ Len(conn'[t].inbox) = Len(conn[t].inbox) - k
              /\ \A i \in 1..Len(conn'[t].inbox) : conn'[t].inbox[i] = conn[t].inbox[i + k]
    <3>1. Len(conn[t].inbox) \in Nat
        BY <1>1, InboxTypes DEF SInv
    <3>2. 0 \in 0..Len(conn[t].inbox) /\ Len(conn[t].inbox) - 0 = Len(conn[t].inbox)
          /\ \A i \in 1..Len(conn[t].inbox) : i + 0 = i
        BY <3>1
    <3> QED BY <3>2, <2>3
  <2>5. ConnStep
      BY <2>1, <2>3, <2>4 DEF ConnStep
  <2>6. RanStep
      BY <2>1, <1>1 DEF RanStep, SInv, StreamTypes, Orders, Latest, history
  <2>7. Still
      BY <2>1, <2>5, <2>6 DEF Still, history
  <2>8. cursor' \in [Calls -> Cursors] /\ Bodied'
      BY <2>1, <1>1 DEF Bodied
  <2> QED BY <2>7, <2>8, <1>1, StillStep, HalvesNext
<1> QED BY <1>2, <1>3, <1>4, <1>5 DEF Thread

\* A body that is dropped.
LEMMA DropBodyStep ==
    ASSUME HInv, NEW c \in Calls, call[c].pc = "streaming", DropBody(c), batons' = batons,
           UNCHANGED <<handles, stream, timers, conn, used, turns, ran>>
    PROVE  HInv'
<1>1. SInv /\ cursor \in [Calls -> Cursors] /\ Bodied
    BY Halves
<1>2. PICK k \in Cursors : k = cursor[c]
    BY CursorOf
<1>3. batons' \subseteq Batons
    BY <1>1 DEF SInv, StreamTypes
<1>4. CASE k.task = "run"
  <2>1. PICK x : x = [NewCall EXCEPT !.pc = "done", !.id = call[c].id]
      OBVIOUS
  <2>2. call[c].id \in StreamIds \cup {NoId}
      BY CursorOf DEF IsCall
  <2>3. IsCall(x) /\ x.pc = "done" /\ x.id = call[c].id /\ ~x.ok
      BY <2>1, <2>2, EmptySeq DEF IsCall, NewCall, CallFields
  <2>4. call' = [call EXCEPT ![c] = x] /\ cursor' = [cursor EXCEPT ![c] = Unread(k)]
      BY <2>1, <1>1, <1>2, <1>4 DEF DropBody
  <2>5. call'[c] = x /\ OnlyCall(c)
      BY <2>3, <2>4, <1>1, CallAt DEF SInv
  <2>6. Aside(c)
      BY <2>3, <2>5, <1>3 DEF Aside
  <2>7. Unread(k) \in Cursors /\ Unread(k).task = "run" /\ ~Unread(k).rx /\ Unread(k).chan = <<>>
      BY <1>4, ReadCursor
  <2>8. BodyOK(call'[c], Unread(k))
      BY <2>3, <2>5, <2>7, DoneBody
  <2>9. cursor' \in [Calls -> Cursors] /\ Bodied'
      BY <2>4, <2>5, <2>7, <2>8, <1>1, BodyAt DEF OnlyCall
  <2> QED BY <2>6, <2>9, <1>1, AsideStep, HalvesNext
<1>5. CASE k.task # "run"
  <2>1. call' = Done(c) /\ cursor' = [cursor EXCEPT ![c] = NoCursor]
      BY <1>2, <1>5 DEF DropBody
  <2>2. OnlyCall(c) /\ call'[c].pc = "done" /\ call'[c].id = NoId /\ ~call'[c].ok
      BY <2>1, <1>1, DoneCall DEF SInv
  <2>3. Aside(c)
      BY <2>2, <1>3 DEF Aside
  <2>4. BodyOK(call'[c], NoCursor)
      BY <2>2, NoCursorIs, DoneBody
  <2>5. cursor' \in [Calls -> Cursors] /\ Bodied'
      BY <2>1, <2>2, <2>4, <1>1, NoCursorIs, BodyAt DEF OnlyCall
  <2> QED BY <2>3, <2>5, <1>1, AsideStep, HalvesNext
<1> QED BY <1>4, <1>5

\* The body of a cursor is read.
LEMMA PollNextStep ==
    ASSUME HInv, NEW c \in Calls, PollNext(c)
    PROVE  HInv'
<1>1. SInv /\ cursor \in [Calls -> Cursors] /\ Bodied
    BY Halves
<1>2. call[c].pc = "streaming" /\ UNCHANGED <<handles, stream, timers, conn, used, turns, ran>>
    BY DEF PollNext
<1>3. PICK k \in Cursors : k = cursor[c]
    BY CursorOf
<1>4. /\ BodyOK(call[c], k) /\ IsCall(call[c]) /\ call[c].got \in Seq(Entry)
      /\ call[c].all \in Seq(Entry)
    BY <1>3, CursorOf DEF IsCall
<1>5. batons \subseteq Batons /\ call = [d \in Calls |-> call[d]]
    BY <1>1 DEF SInv, StreamTypes, CallShapes
<1>6. CASE /\ call' = [call EXCEPT ![c].head = FALSE]
           /\ batons' = batons \cup {call[c].baton} /\ cursor' = cursor
  <2>1. PICK x : x = [call[c] EXCEPT !.head = FALSE]
      OBVIOUS
  <2>2. /\ IsCall(x) /\ x.pc = "streaming" /\ x.id = call[c].id /\ x.turn = call[c].turn
        /\ x.ok = call[c].ok /\ x.got = call[c].got /\ x.all = call[c].all
      BY <2>1, <1>2, <1>4 DEF IsCall, CallFields
  <2>3. call' = [call EXCEPT ![c] = x]
      BY <2>1, <1>5, <1>6
  <2>4. call'[c] = x /\ OnlyCall(c)
      BY <2>2, <2>3, <1>1, CallAt DEF SInv
  <2>5. batons' \subseteq Batons
      BY <1>2, <1>4, <1>5, <1>6 DEF IsCall
  <2>6. Aside(c)
      BY <2>2, <2>4, <2>5, <1>2 DEF Aside
  <2>7. BodyOK(call'[c], k)
      BY <2>2, <2>4, <1>2, <1>4 DEF BodyOK
  <2>8. cursor' \in [Calls -> Cursors] /\ Bodied'
      BY <2>4, <2>7, <1>1, <1>3, <1>6 DEF Bodied, OnlyCall
  <2> QED BY <2>6, <2>8, <1>1, AsideStep, HalvesNext
<1>7. CASE CanFetch(k) /\ k.chan[1].type = "fatal" /\ DropBody(c) /\ batons' = batons
    BY <1>2, <1>7, DropBodyStep
<1>8. CASE /\ CanFetch(k) /\ k.chan[1].type # "fatal" /\ batons' = batons
           /\ call' = [call EXCEPT ![c].got = Append(@, k.chan[1])]
           /\ cursor' = [cursor EXCEPT ![c] = Fetched(@)]
  <2>0. k.chan \in Seq(Entry) /\ k.chan # <<>>
      BY <1>8, CursorFields DEF CanFetch
  <2>1. PICK g \in Seq(Entry) : g = Append(call[c].got, k.chan[1])
    <3>1. k.chan[1] \in Entry
        BY <2>0
    <3> QED BY <3>1, <1>4, AppendProperties
  <2>2. PICK x : x = [call[c] EXCEPT !.got = g]
      OBVIOUS
  <2>3. /\ IsCall(x) /\ x.pc = "streaming" /\ x.id = call[c].id /\ x.turn = call[c].turn
        /\ x.ok = call[c].ok /\ x.got = g /\ x.all = call[c].all
      BY <2>2, <1>2, <1>4 DEF IsCall, CallFields
  <2>4. call' = [call EXCEPT ![c] = x]
      BY <2>1, <2>2, <1>5, <1>8
  <2>5. call'[c] = x /\ OnlyCall(c)
      BY <2>3, <2>4, <1>1, CallAt DEF SInv
  <2>6. Aside(c)
      BY <2>3, <2>5, <1>2, <1>5, <1>8 DEF Aside
  <2>7. Fetched(k) \in Cursors /\ BodyOK(call'[c], Fetched(k))
    <3>1. /\ x.pc = call[c].pc /\ x.all = call[c].all /\ x.ok = call[c].ok
          /\ x.got = Append(call[c].got, k.chan[1])
        BY <2>1, <2>3, <1>2
    <3>2. CanFetch(k) /\ k.chan[1].type # "fatal"
        BY <1>8
    <3>3. BodyOK(x, Fetched(k))
        BY <3>1, <3>2, <1>2, <1>4, FetchBody
    <3> QED BY <3>3, <2>5, ReadCursor
  <2>8. cursor' = [cursor EXCEPT ![c] = Fetched(k)]
      BY <1>1, <1>3, <1>8
  <2>9. cursor' \in [Calls -> Cursors] /\ Bodied'
      BY <2>5, <2>7, <2>8, <1>1, BodyAt DEF OnlyCall
  <2> QED BY <2>6, <2>9, <1>1, AsideStep, HalvesNext
<1>9. CASE /\ AtEnd(k) /\ batons' = batons /\ cursor' = [cursor EXCEPT ![c] = NoCursor]
           /\ call' = [call EXCEPT ![c] = [NewCall EXCEPT !.pc = "done", !.ok = TRUE,
                            !.all = call[c].all, !.got = call[c].got]]
  <2>1. PICK g \in Seq(Entry), a \in Seq(Entry) : g = call[c].got /\ a = call[c].all
      BY <1>4
  <2>2. PICK x : x = [NewCall EXCEPT !.pc = "done", !.ok = TRUE, !.all = a, !.got = g]
      OBVIOUS
  <2>3. IsCall(x) /\ x.pc = "done" /\ x.id = NoId /\ x.got = g /\ x.all = a
      BY <2>1, <2>2 DEF IsCall, NewCall, CallFields
  <2>4. call' = [call EXCEPT ![c] = x]
      BY <2>1, <2>2, <1>9
  <2>5. call'[c] = x /\ OnlyCall(c)
      BY <2>3, <2>4, <1>1, CallAt DEF SInv
  <2>6. Aside(c)
      BY <2>3, <2>5, <1>2, <1>5, <1>9 DEF Aside
  <2>7. g = a
      BY <2>1, <1>2, <1>4, <1>9, EndBody
  <2>8. BodyOK(call'[c], NoCursor)
      BY <2>3, <2>5, <2>7, NoCursorIs, DoneBody
  <2>9. cursor' \in [Calls -> Cursors] /\ Bodied'
      BY <2>5, <2>8, <1>1, <1>9, NoCursorIs, BodyAt DEF OnlyCall
  <2> QED BY <2>6, <2>9, <1>1, AsideStep, HalvesNext
<1>10. \/ /\ call' = [call EXCEPT ![c].head = FALSE]
          /\ batons' = batons \cup {call[c].baton} /\ cursor' = cursor
       \/ CanFetch(k) /\ k.chan[1].type = "fatal" /\ DropBody(c) /\ batons' = batons
       \/ /\ CanFetch(k) /\ k.chan[1].type # "fatal" /\ batons' = batons
          /\ call' = [call EXCEPT ![c].got = Append(@, k.chan[1])]
          /\ cursor' = [cursor EXCEPT ![c] = Fetched(@)]
       \/ /\ AtEnd(k) /\ batons' = batons /\ cursor' = [cursor EXCEPT ![c] = NoCursor]
          /\ call' = [call EXCEPT ![c] = [NewCall EXCEPT !.pc = "done", !.ok = TRUE,
                            !.all = call[c].all, !.got = call[c].got]]
    BY <1>3, Zenon DEF PollNext
<1> QED BY <1>6, <1>7, <1>8, <1>9, <1>10

\* A client leaves.
LEMMA DisconnectStep ==
    ASSUME HInv, NEW c \in Calls, Disconnect(c)
    PROVE  HInv'
<1>1. SInv
    BY Halves
<1>2. UNCHANGED <<conn, history>>
    BY DEF Disconnect
<1>3. CASE /\ call[c].pc = "creating" /\ call' = Done(c)
           /\ UNCHANGED <<handles, stream, timers, cursor>>
    BY <1>2, <1>3, CreatingEnds
<1>4. CASE call[c].pc = "waiting" /\ FailCall(c) /\ UNCHANGED cursor
  <2>1. ConnStep /\ RanStep
      BY <1>1, <1>2, ConnKept DEF SInv, Streams, Orders, history
  <2> QED BY <2>1, <1>2, <1>4, FailCallStep DEF history
<1>5. CASE call[c].pc = "streaming" /\ DropBody(c) /\ UNCHANGED <<handles, stream, timers>>
    BY <1>2, <1>5, DropBodyStep DEF history
<1> QED BY <1>3, <1>4, <1>5 DEF Disconnect

-----------------------------------------------------------------------------
(* The theorems. *)

\* The invariant holds initially.
LEMMA InitHInv ==
    ASSUME Init
    PROVE  HInv
<1>1. /\ handles = [s \in StreamIds |-> "none"]
      /\ stream = [s \in StreamIds |-> NoStream]
      /\ expire_queue = <<>> /\ cleanup_queue = <<>>
      /\ expire_sleep = 0 /\ expire_waker = FALSE /\ woken = TRUE
      /\ conn = [s \in StreamIds |-> [th |-> "none", inbox |-> <<>>]]
      /\ call = [c \in Calls |-> NewCall]
      /\ cursor = [c \in Calls |-> NoCursor]
      /\ batons = {} /\ used = {}
      /\ turns = [s \in StreamIds |-> 0] /\ ran = [s \in StreamIds |-> 0]
    BY DEF Init
<1>2. PICK x : x = [th |-> "none", inbox |-> <<>>]
    OBVIOUS
<1>3. x \in Conns /\ x.th = "none" /\ x.inbox = <<>> /\ Len(x.inbox) = 0
    BY <1>2 DEF Conns
<1>4. \A s \in StreamIds : conn[s] = x
    BY <1>1, <1>2
<1>5. \A c \in Calls : call[c] = NewCall /\ cursor[c] = NoCursor
    BY <1>1
<1>6. IsCall(NewCall) /\ NewCall.pc = "new" /\ NewCall.id = NoId /\ ~NewCall.ok /\ NewCall.got = <<>>
    BY EmptySeq DEF NewCall, IsCall, CallFields, NoId
<1>7. StreamTypes
  <2>1. \A s \in StreamIds : stream[s] = NoStream
      BY <1>1
  <2>2. conn \in [StreamIds -> Conns]
      BY <1>1, <1>2, <1>3
  <2>3. /\ handles \in [StreamIds -> {"none", "available", "acquired", "expired"}]
        /\ turns \in [StreamIds -> Nat] /\ ran \in [StreamIds -> Nat]
      BY <1>1
  <2>4. stream = [s \in StreamIds |-> stream[s]]
      BY <1>1
  <2> QED BY <2>1, <2>2, <2>3, <2>4, <1>1, NoStreamIs DEF StreamTypes
<1>8. CallShapes
    BY <1>1, <1>5, <1>6 DEF CallShapes
<1>9. TimerTypes /\ cursor \in [Calls -> Cursors]
  <2>1. cleanup_queue \in Seq(Cleanups) /\ DOMAIN expire_queue = {}
      BY <1>1
  <2>2. expire_sleep \in 0..IDLE /\ expire_waker \in BOOLEAN /\ woken \in BOOLEAN
    <3>1. 0 \in 0..IDLE
        BY Constants
    <3> QED BY <3>1, <1>1
  <2> QED BY <2>1, <2>2, <1>1, NoCursorIs DEF TimerTypes
<1>10. Held
    BY <1>1, <1>5, <1>6 DEF Held, Guarding
<1>11. Parked /\ Cleaned /\ Awake
  <2>1. DOMAIN expire_queue = {} /\ Len(cleanup_queue) = 0 /\ 1..0 = {}
      BY <1>1
  <2> QED BY <2>1, <1>1 DEF Parked, Cleaned, Awake
<1>12. Unused
    BY <1>1, <1>3, <1>4, <1>5, <1>6 DEF Unused
<1>13. Inboxes
    BY <1>3, <1>4 DEF Inboxes
<1>14. Latest /\ Fresh
    BY <1>1, <1>5, <1>6 DEF Latest, Fresh
<1>15. Arrivals
    BY <1>1, <1>5, <1>6, Constants DEF Arrivals
<1>16. Bodied
    BY <1>5, <1>6, NoCursorIs DEF Bodied, BodyOK
<1> QED BY <1>7, <1>8, <1>9, <1>10, <1>11, <1>12, <1>13, <1>14, <1>15, <1>16
        DEF HInv, Types, Streams, Orders

\* The timers.
LEMMA TimerSteps ==
    ASSUME HInv, Tick \/ pump_expire
    PROVE  HInv'
<1>1. SInv /\ cursor \in [Calls -> Cursors] /\ Bodied
    BY Halves
<1>2. call' = call /\ cursor' = cursor
    BY DEF Tick, pump_expire
<1>3. cursor' \in [Calls -> Cursors] /\ Bodied'
    BY <1>1, <1>2 DEF Bodied
<1>4. SInv'
    BY <1>1, TickStep, PumpStep
<1> QED BY <1>3, <1>4, HalvesNext

\* The handlers.
LEMMA HandlerStep ==
    ASSUME HInv, NEW c \in Calls, Handler(c)
    PROVE  HInv'
<1>1. CASE CreateStream(c) \/ CreateFails(c)
    BY <1>1, CreateSteps
<1>2. CASE Close(c) \/ Unknown(c) \/ StoreSql(c) \/ CloseSql(c)
    BY <1>2, LocalSteps
<1>3. CASE EmitError(c)
    BY <1>3, EmitSteps
<1>4. CASE Submit(c) \/ Respond(c) \/ OpenCursorStream(c) \/ RunCursor(c)
    BY <1>4, SubmitStep, RespondStep, OpenCursorStep, RunCursorStep
<1> QED BY <1>1, <1>2, <1>3, <1>4 DEF Handler

\* Nothing happens.
LEMMA StutterStep ==
    ASSUME HInv, UNCHANGED vars
    PROVE  HInv'
<1>1. SInv /\ cursor \in [Calls -> Cursors] /\ Bodied
    BY Halves
<1>2. UNCHANGED <<handles, stream, timers, conn, call, history>> /\ cursor' = cursor
    BY DEF vars
<1>3. SInv'
    BY <1>1, <1>2, NothingElse, StillStep
<1>4. cursor' \in [Calls -> Cursors] /\ Bodied'
    BY <1>1, <1>2 DEF Bodied
<1> QED BY <1>3, <1>4, HalvesNext

\* Every step preserves the invariant.
LEMMA HInvNext ==
    ASSUME HInv, [Next]_vars
    PROVE  HInv'
<1>1. CASE \E c \in Calls : Request(c) \/ RequestNew(c) \/ Disconnect(c)
    BY <1>1, RequestStep, RequestNewStep, DisconnectStep
<1>2. CASE \E c \in Calls : Handler(c) \/ PollNext(c)
    BY <1>2, HandlerStep, PollNextStep
<1>3. CASE \E s \in StreamIds : Thread(s)
    BY <1>3, ThreadStep
<1>4. CASE Tick \/ pump_expire
    BY <1>4, TimerSteps
<1>5. CASE UNCHANGED vars
    BY <1>5, StutterStep
<1> QED BY <1>1, <1>2, <1>3, <1>4, <1>5 DEF Next

\* The invariant holds in every behaviour.
LEMMA HInvAlways == Spec => []HInv
<1>1. Init => HInv
    BY InitHInv
<1>2. HInv /\ [Next]_vars => HInv'
    BY HInvNext
<1> QED BY <1>1, <1>2, PTL DEF Spec

\* The invariant implies the types.
LEMMA HInvTypeOK ==
    ASSUME HInv
    PROVE  TypeOK
<1>1. StreamTypes /\ CallShapes /\ TimerTypes /\ cursor \in [Calls -> Cursors]
    BY DEF HInv, Types
<1>2. ASSUME NEW s \in StreamIds
      PROVE  /\ stream[s].db \in BOOLEAN /\ stream[s].baton_seq \in 0..(SeqWrap - 1)
             /\ Cardinality(DOMAIN stream[s].sqls) <= MAX_SQL_COUNT
             /\ conn[s].th \in {"none", "up", "dead", "ended"}
             /\ \A i \in DOMAIN conn[s].inbox : conn[s].inbox[i].c \in Calls
  <2>1. IsStream(stream[s]) /\ conn[s] \in Conns
      BY <1>1 DEF StreamTypes
  <2>2. conn[s].inbox \in Seq(Jobs) /\ conn[s].th \in {"none", "up", "dead", "ended"}
      BY <2>1 DEF Conns
  <2>3. DOMAIN conn[s].inbox = 1..Len(conn[s].inbox)
      BY <2>2, LenProperties
  <2>4. \A i \in DOMAIN conn[s].inbox : conn[s].inbox[i].c \in Calls
      BY <2>3, <1>1, InboxTypes
  <2> QED BY <2>1, <2>2, <2>4 DEF IsStream, SeqNos
<1>3. /\ DOMAIN expire_queue \subseteq StreamIds
      /\ \A s \in DOMAIN expire_queue : expire_queue[s] \in 0..(EXPIRATION + 1)
      /\ expire_sleep \in 0..IDLE /\ {expire_waker, woken} \subseteq BOOLEAN
    BY <1>1 DEF TimerTypes
<1>4. \A i \in DOMAIN cleanup_queue : cleanup_queue[i].left \in 0..(CLEANUP + 1)
  <2>1. \A e \in Cleanups : e.left \in 0..(CLEANUP + 1)
      BY DEF Cleanups
  <2>2. \A i \in DOMAIN cleanup_queue : cleanup_queue[i] \in Cleanups
      BY <1>1 DEF TimerTypes
  <2> QED BY <2>1, <2>2
<1>5. ASSUME NEW c \in Calls
      PROVE  /\ call[c].pc \in {"new", "creating", "running", "waiting", "streaming", "done"}
             /\ call[c].id \in StreamIds \cup {NoId}
             /\ cursor[c].task \in {"none", "open", "run", "failed", "end"}
             /\ Len(cursor[c].chan) <= 1
  <2>1. cursor[c] \in Cursors /\ BodyOK(call[c], cursor[c]) /\ IsCall(call[c])
      BY CursorOf
  <2>2. cursor[c].task \in {"none", "open", "run", "failed", "end"}
      BY <2>1, CursorFields
  <2>3. Len(cursor[c].chan) <= 1
      BY <2>1 DEF BodyOK
  <2> QED BY <2>1, <2>2, <2>3 DEF IsCall
<1>6. handles \in [StreamIds -> {"none", "available", "acquired", "expired"}]
    BY <1>1 DEF StreamTypes
<1> QED BY <1>2, <1>3, <1>4, <1>5, <1>6 DEF TypeOK

\* The server over HTTP is well typed: the timers stay in their ranges, sequence numbers
\* below SeqWrap, and no stream stores more than MAX_SQL_COUNT texts.
THEOREM HttpTypes == Spec => []TypeOK
<1>1. HInv => TypeOK
    BY HInvTypeOK
<1> QED BY <1>1, HInvAlways, PTL

\* The invariant implies that handles, queues and guards agree.
LEMMA HInvHandles ==
    ASSUME HInv
    PROVE  HandlesMatch
<1>1. Held /\ Parked /\ Cleaned /\ Awake /\ cleanup_queue \in Seq(Cleanups)
    BY DEF HInv, Streams, Types, TimerTypes
<1>2. ASSUME NEW s \in StreamIds
      PROVE  Cardinality(Guards(s)) = IF handles[s] = "acquired" THEN 1 ELSE 0
  <2>1. Guards(s) = {c \in Calls : Guarding(c, s)}
      BY DEF Guards, Guarding
  <2>2. CASE handles[s] = "acquired"
    <3>1. PICK c \in Calls : \A d \in Calls : Guarding(d, s) <=> d = c
        BY <2>2, <1>1 DEF Held
    <3>2. Guards(s) = {c}
        BY <3>1, <2>1
    <3> QED BY <3>2, <2>2, FS_Singleton
  <2>3. CASE handles[s] # "acquired"
    <3>1. Guards(s) = {}
        BY <2>1, <2>3, <1>1 DEF Held
    <3> QED BY <3>1, <2>3, FS_EmptySet
  <2> QED BY <2>2, <2>3
<1>3. ASSUME NEW s \in StreamIds
      PROVE  Cardinality({i \in DOMAIN cleanup_queue : cleanup_queue[i].id = s})
                = IF handles[s] = "expired" THEN 1 ELSE 0
  <2>1. PICK at : at = {i \in DOMAIN cleanup_queue : cleanup_queue[i].id = s}
      OBVIOUS
  <2>2. DOMAIN cleanup_queue = 1..Len(cleanup_queue)
      BY <1>1, LenProperties
  <2>3. CASE handles[s] = "expired"
    <3>1. PICK i \in 1..Len(cleanup_queue) :
              \A j \in 1..Len(cleanup_queue) : cleanup_queue[j].id = s <=> j = i
        BY <2>3, <1>1 DEF Cleaned
    <3>2. at = {i}
        BY <3>1, <2>1, <2>2
    <3> QED BY <3>2, <2>1, <2>3, FS_Singleton
  <2>4. CASE handles[s] # "expired"
    <3>1. at = {}
        BY <2>1, <2>2, <2>4, <1>1 DEF Cleaned
    <3> QED BY <3>1, <2>1, <2>4, FS_EmptySet
  <2> QED BY <2>3, <2>4
<1> QED BY <1>1, <1>2, <1>3 DEF HandlesMatch, Parked, Awake

\* Guard::drop and the assert in pump_expire never panic, and no available stream is
\* forgotten by the expiration: the handles, the two queues, the guards and the sleep of
\* the task agree, for any number of calls and streams.
THEOREM StreamsAgree == Spec => []HandlesMatch
<1>1. HInv => HandlesMatch
    BY HInvHandles
<1> QED BY <1>1, HInvAlways, PTL

\* A body that was streamed to its end holds every entry of the batch, in order, and its
\* error, whatever the batches, the clients and the threads do.
THEOREM BodiesAreComplete == Spec => []CursorIsComplete
<1>1. HInv => CursorIsComplete
    BY DEF HInv, Bodied, BodyOK, CursorIsComplete
<1> QED BY <1>1, HInvAlways, PTL

\* A call runs as soon as it arrives only with a baton that is accepted.
LEMMA NewRuns ==
    ASSUME HInv, Next, NEW c \in Calls, call[c].pc = "new", call'[c].pc = "running"
    PROVE  \E b \in batons, body \in Bodies : AcquireStream(c, b, body)
<1>1. SInv /\ CallShapes
    BY Halves DEF SInv
<1>2. ASSUME NEW d \in Calls, OnlyCall(d), call[d].pc # "new" \/ call'[d].pc # "running"
      PROVE  FALSE
    BY <1>2 DEF OnlyCall
<1>3. ASSUME NEW d \in Calls, call' = Done(d)
      PROVE  FALSE
    BY <1>1, <1>2, <1>3, DoneCall
<1>4. ASSUME NEW d \in Calls, Proceed(d), call[d].pc \in {"running", "waiting"}
      PROVE  FALSE
    BY <1>1, <1>2, <1>4, ProceedCall
<1>5. ASSUME NEW d \in Calls, NEW err, Result(d, err), call[d].pc \in {"running", "waiting"}
      PROVE  FALSE
    BY <1>3, <1>4, <1>5 DEF Result, FailCall
<1>6. call' # call
    OBVIOUS
<1>7. ASSUME NEW d \in Calls, Request(d)
      PROVE  \E b \in batons, body \in Bodies : AcquireStream(c, b, body)
  <2>1. PICK b \in batons, body \in Bodies : AcquireStream(d, b, body) /\ Arrives(d, body)
      BY <1>3, <1>7 DEF Request
  <2>2. OnlyCall(d)
      BY <2>1, <1>1, <1>7, AcquireStep DEF Request
  <2>3. d = c
      BY <2>2 DEF OnlyCall
  <2> QED BY <2>1, <2>3
<1>8. ASSUME NEW d \in Calls, RequestNew(d)
      PROVE  FALSE
    BY <1>1, <1>2, <1>8, CreatingCall DEF RequestNew
<1>9. ASSUME NEW d \in Calls, DropBody(d), call[d].pc = "streaming"
      PROVE  FALSE
  <2>1. PICK x : x = [NewCall EXCEPT !.pc = "done", !.id = call[d].id]
      OBVIOUS
  <2>2. x.pc = "done"
      BY <2>1 DEF NewCall
  <2>3. call' = Done(d) \/ call' = [call EXCEPT ![d] = x]
      BY <2>1, <1>9 DEF DropBody
  <2>4. call = [e \in Calls |-> call[e]]
      BY <1>1 DEF CallShapes
  <2> QED BY <2>2, <2>3, <2>4, <1>3
<1>10. ASSUME NEW d \in Calls, Disconnect(d)
       PROVE  FALSE
    BY <1>3, <1>9, <1>10 DEF Disconnect, FailCall
<1>11. ASSUME NEW d \in Calls, PollNext(d)
       PROVE  FALSE
  <2>1. call[d].pc = "streaming" /\ call = [e \in Calls |-> call[e]] /\ d # c
      BY <1>1, <1>11 DEF PollNext, CallShapes
  <2>2. DropBody(d) \/ \E x : call' = [call EXCEPT ![d] = x]
    <3>1. CASE call' = [call EXCEPT ![d].head = FALSE]
        BY <3>1
    <3>2. CASE \E e : call' = [call EXCEPT ![d].got = Append(@, e)]
        BY <3>2
    <3> QED BY <3>1, <3>2, <1>11, Zenon DEF PollNext
  <2> QED BY <2>1, <2>2, <1>9
<1>12. ASSUME NEW d \in Calls, Handler(d)
       PROVE  FALSE
  <2>1. CASE CreateStream(d)
    <3>1. call[d].pc = "creating" /\ OnlyCall(d)
        BY <2>1, <1>1, CreateStreamStep DEF CreateStream
    <3> QED BY <3>1, <1>2
  <2>2. CASE CreateFails(d) \/ Respond(d)
      BY <2>2, <1>3 DEF CreateFails, Respond
  <2>3. CASE Close(d) \/ Unknown(d) \/ StoreSql(d) \/ CloseSql(d)
    <3>1. call[d].pc = "running"
        BY <2>3 DEF Close, Unknown, StoreSql, CloseSql, Running
    <3>2. Proceed(d) \/ Result(d, "protocol") \/ Result(d, "SqlTooMany")
        BY <2>3 DEF Close, Unknown, StoreSql, CloseSql
    <3> QED BY <3>1, <3>2, <1>4, <1>5
  <2>4. CASE Submit(d)
    <3>1. call[d].pc = "running"
        BY <2>4 DEF Submit, Running
    <3>2. (\E err : Result(d, err)) \/ call' = [call EXCEPT ![d].pc = "waiting"]
        BY <2>4 DEF Submit
    <3> QED BY <3>1, <3>2, <1>1, <1>2, <1>5, WaitingCall
  <2>5. CASE OpenCursorStream(d)
    <3>1. call[d].pc = "running" /\ call = [e \in Calls |-> call[e]] /\ d # c
        BY <2>5, <1>1 DEF OpenCursorStream, CallShapes
    <3>2. call' = Done(d) \/ \A e \in Calls : e # d => call'[e] = call[e]
        BY <2>5, <3>1 DEF OpenCursorStream, FailCall
    <3> QED BY <3>1, <3>2, <1>3
  <2>6. CASE RunCursor(d) \/ EmitError(d)
      BY <2>6, <1>6 DEF RunCursor, EmitError
  <2> QED BY <2>1, <2>2, <2>3, <2>4, <2>5, <2>6, <1>12 DEF Handler
<1>13. ASSUME NEW s \in StreamIds, ThreadDies(s)
       PROVE  FALSE
  <2>1. call'[c] = call[c] \/ call'[c] = Done(c)[c]
      BY <1>13 DEF ThreadDies
  <2>2. call = [e \in Calls |-> call[e]] /\ [NewCall EXCEPT !.pc = "done"].pc = "done"
      BY <1>1 DEF CallShapes, NewCall
  <2>3. Done(c)[c].pc = "done"
      BY <2>2 DEF Done
  <2> QED BY <2>1, <2>3
<1>14. ASSUME NEW s \in StreamIds, Thread(s)
       PROVE  FALSE
  <2>1. CASE RunProgram(s)
    <3>1. conn[s].inbox # <<>>
        BY <2>1 DEF RunProgram
    <3>2. PICK d \in Calls : d = Head(conn[s].inbox).c
        BY <3>1, <1>1, HeadJob
    <3>3. ThreadDies(s) \/ (call[d].pc = "waiting" /\ \E err : Result(d, err))
        BY <2>1, <3>2 DEF RunProgram
    <3> QED BY <3>3, <1>5, <1>13
  <2>2. CASE EmitEntry(s) \/ ThreadEnds(s)
      BY <2>2, <1>6 DEF EmitEntry, ThreadEnds
  <2>3. CASE EndProgram(s)
      BY <2>3, <1>6, <1>13 DEF EndProgram
  <2> QED BY <2>1, <2>2, <2>3, <1>14 DEF Thread
<1>15. ~(Tick \/ pump_expire)
    BY <1>6 DEF Tick, pump_expire
<1> QED BY <1>7, <1>8, <1>10, <1>11, <1>12, <1>14, <1>15 DEF Next

\* A baton that is accepted was not accepted before, as long as sequence numbers do not
\* come round: no more calls than there are of them.
LEMMA NotUsedBefore ==
    ASSUME HInv, MaxCalls <= SeqWrap, NEW c \in Calls, call[c].pc = "new", NEW b \in batons,
           NEW body \in Bodies, AcquireStream(c, b, body)
    PROVE  used' # used
<1>1. StreamTypes /\ Fresh /\ Arrivals
    BY DEF HInv, Types, Orders
<1>2. b \in Batons
    BY <1>1 DEF StreamTypes
<1>3. b.id \in StreamIds /\ b.seq \in SeqNos
    BY <1>2 DEF Batons
<1>4. handles[b.id] = "available" /\ stream[b.id].baton_seq = b.seq
    BY <1>1, <1>3 DEF AcquireStream, Refused, StreamTypes
<1>5. used' = used \cup {b}
    BY DEF AcquireStream
<1>6. ASSUME b \in used
      PROVE  FALSE
  <2>1. PICK k \in 1..(turns[b.id] - 1) : b.seq + k = b.seq \/ b.seq + k = b.seq + SeqWrap
      BY <1>1, <1>4, <1>6 DEF Fresh
  <2>2. turns[b.id] < c /\ turns[b.id] \in Nat /\ c <= MaxCalls /\ c \in Nat
      BY <1>1, <1>3, Constants DEF Arrivals, StreamTypes
  <2>3. b.seq \in Nat /\ SeqWrap \in Nat /\ MaxCalls \in Nat
      BY <1>3, Constants DEF SeqNos
  <2>4. k \in Int /\ k >= 1 /\ k < SeqWrap
      BY <2>1, <2>2, <2>3
  <2> QED BY <2>1, <2>3, <2>4
<1> QED BY <1>5, <1>6

\* The requests of a stream are serial: a baton is accepted once, so no two calls have a
\* stream at the same time or in the place of each other, and a program of a pipeline
\* never runs after one of a later call. The hypothesis says that there are no more
\* calls than sequence numbers, of which the code has 2^64.
THEOREM RequestsSerial == MaxCalls <= SeqWrap /\ Spec => RequestsAreSerial
<1> SUFFICES ASSUME MaxCalls <= SeqWrap
             PROVE  Spec => RequestsAreSerial
    OBVIOUS
<1>1. ASSUME HInv, Next
      PROVE  (\E c \in Calls : call[c].pc = "new" /\ call'[c].pc = "running") => used' # used
    BY <1>1, NewRuns, NotUsedBefore
<1>2. ASSUME HInv, Next, NEW s \in StreamIds, Len(conn'[s].inbox) < Len(conn[s].inbox),
             ~Head(conn[s].inbox).cursor
      PROVE  Head(conn[s].inbox).turn >= ran[s]
  <2>1. HInv'
      BY <1>2, HInvNext
  <2>2. SInv /\ StreamTypes'
      BY <1>2, <2>1, Halves DEF HInv, Types
  <2>3. Len(conn'[s].inbox) \in Nat
    <3>1. conn'[s].inbox \in Seq(Jobs)
        BY <2>2 DEF StreamTypes, Conns
    <3> QED BY <3>1, LenProperties
  <2>4. conn[s].inbox # <<>>
      BY <2>3, <1>2
  <2>5. JobOK(s, Head(conn[s].inbox))
      BY <2>2, <2>4, HeadJob
  <2>6. Head(conn[s].inbox).turn = turns[s]
      BY <2>5, <1>2 DEF JobOK
  <2>7. ran[s] <= turns[s] /\ ran[s] \in Nat /\ turns[s] \in Nat
      BY <2>2 DEF SInv, Orders, Latest, StreamTypes
  <2> QED BY <2>6, <2>7
<1>3. HInv /\ [Next]_vars => [SerialStep]_vars
    BY <1>1, <1>2 DEF SerialStep
<1> QED BY <1>3, HInvAlways, PTL DEF Spec, RequestsAreSerial

=============================================================================
