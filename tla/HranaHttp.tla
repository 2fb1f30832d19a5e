------------------------------ MODULE HranaHttp ------------------------------
(***************************************************************************)
(* Hrana over HTTP (hrana/http): streams that outlive a request. A request *)
(* names its stream by a baton that can be used once; between requests the *)
(* server keeps the stream, and a task expires the streams nobody uses.    *)
(*                                                                         *)
(* A call is one HTTP request: to the pipeline endpoint, which holds the   *)
(* stream while it runs its requests one by one, or to the cursor          *)
(* endpoint, which gives the stream back at once and then streams the      *)
(* entries of a batch. Clients send any baton they were given, any number  *)
(* of times, at the same time if they like, and leave when they like.      *)
(*                                                                         *)
(* Time is what is left until an instant, in seconds, and stops at 0.      *)
(* Stream ids and the first sequence numbers are random 64 bit numbers in  *)
(* the code: ids are fresh here, sequence numbers start anywhere.          *)
(***************************************************************************)
EXTENDS Hrana, Integers

CONSTANTS
    MaxCalls,        \* HTTP requests, numbered in the order they arrive
    MaxConcurrent,   \* of them at the same time
    MaxCursors,      \* cursors at the same time
    StreamIds,       \* at most one stream for each
    Bodies,          \* [cursor, ver, reqs]: the endpoint, its version, the requests
    Answers,         \* of the connection to a program
    Runs,            \* [steps, err]: what a batch of a cursor does
    FirstSeqs, SeqWrap,
    MAX_SQL_COUNT,
    EXPIRATION, CLEANUP, IDLE

\* An entry of the body of a cursor.
Entry == [type : {"step_begin", "row", "step_end", "step_error", "error", "fatal"}, step : Nat]

ASSUME HttpAssumption ==
    /\ {MaxCalls, MAX_SQL_COUNT} \subseteq Nat /\ SeqWrap \in Nat \ {0}
    /\ FirstSeqs \subseteq 0..(SeqWrap - 1)
    /\ IsFiniteSet(StreamIds) /\ "none" \notin StreamIds
    /\ \A body \in Bodies : body.cursor \in BOOLEAN
    /\ \A run \in Runs :
        Entries(run.steps) \in Seq(Entry) /\ run.err \in {"ok", "batch", "internal"}

\* IDLE is how long the task of run_expire sleeps when nothing waits to expire.
ASSUME TimesAssumption ==
    {EXPIRATION, CLEANUP, IDLE} \subseteq Nat /\ EXPIRATION + 1 < IDLE

Calls == 1..MaxCalls

VARIABLES
    handles,         \* ServerStreamState::handles; "none" where there is none
    stream,          \* the Stream records: [db, sqls, baton_seq]
    expire_queue,    \* seconds left, for the streams in the queue
    cleanup_queue,   \* [id, left]
    expire_sleep,    \* seconds left
    expire_waker,    \* there is one
    woken,           \* the task of run_expire is going to be polled
    conn,            \* the thread of each connection: [th, inbox]
    call,
    cursor,          \* of the calls to the cursor endpoint
    batons,          \* history: the batons clients were given
    used,            \* history: the batons that were accepted
    turns, ran       \* history: per stream, how many calls have had it, and the
                     \* latest of them whose program was run

timers == <<expire_queue, cleanup_queue, expire_sleep, expire_waker, woken>>
history == <<batons, used, turns, ran>>
vars == <<handles, stream, timers, conn, call, cursor, history>>

NoBaton == [id |-> "none", seq |-> 0]
NoId == "none"
NoStream == [db |-> FALSE, sqls |-> <<>>, baton_seq |-> 0]
NewCall == [pc |-> "new", id |-> NoId, baton |-> NoBaton, ver |-> 3, cursor |-> FALSE,
            left |-> <<>>, turn |-> 0, head |-> FALSE, all |-> <<>>, got |-> <<>>,
            ok |-> FALSE]

Init ==
    /\ handles = [s \in StreamIds |-> "none"]
    /\ stream = [s \in StreamIds |-> NoStream]
    /\ expire_queue = <<>> /\ cleanup_queue = <<>>
    /\ expire_sleep = 0 /\ expire_waker = FALSE /\ woken = TRUE
    /\ conn = [s \in StreamIds |-> [th |-> "none", inbox |-> <<>>]]
    /\ call = [c \in Calls |-> NewCall]
    /\ cursor = [c \in Calls |-> NoCursor]
    /\ batons = {} /\ used = {}
    /\ turns = [s \in StreamIds |-> 0] /\ ran = [s \in StreamIds |-> 0]

-----------------------------------------------------------------------------
(* stream.rs: acquire, release, drop *)

\* roundup_instant: to the next second, which adds one to a whole number of them.
roundup_instant(left) == left + 1

\* Mutant: a sleep that is too long is left alone.
MutMarkExpire(s) ==
    /\ expire_queue' = With(expire_queue, s, roundup_instant(EXPIRATION))
    /\ UNCHANGED <<woken, expire_waker>>

\* mark_expire: a task that would sleep for longer is woken.
mark_expire(s) ==
    LET wake == expire_sleep > roundup_instant(EXPIRATION) /\ expire_waker
    IN  /\ expire_queue' = With(expire_queue, s, roundup_instant(EXPIRATION))
        /\ woken' = (woken \/ wake)
        /\ expire_waker' = (expire_waker /\ ~wake)

unmark_expire(s) ==
    expire_queue' = Without(expire_queue, s)

\* The call has ended; only of a cursor do we remember more.
Done(c) == [call EXCEPT ![c] = [NewCall EXCEPT !.pc = "done"]]

\* acquire refuses: the handle is gone, in use, expired, or expects another baton.
Refused(b) ==
    CASE handles[b.id] = "none" -> "BatonInvalid"
      [] handles[b.id] = "acquired" -> "BatonReused"
      [] handles[b.id] = "expired" -> "StreamExpired"
      [] handles[b.id] = "available" ->
            IF stream[b.id].baton_seq # b.seq THEN "BatonReused" ELSE "no"

Asks(body) ==
    [NewCall EXCEPT !.ver = body.ver, !.cursor = body.cursor, !.left = body.reqs]

\* Mutant: a baton stays valid.
MutAcquireStream(c, b, body) ==
    /\ Refused(b) = "no"
    /\ handles' = [handles EXCEPT ![b.id] = "acquired"]
    /\ stream' = stream
    /\ unmark_expire(b.id)
    /\ call' = [call EXCEPT ![c] = [Asks(body) EXCEPT !.pc = "running", !.id = b.id,
                                                       !.turn = turns[b.id] + 1]]
    /\ used' = used \cup {b}
    /\ turns' = [turns EXCEPT ![b.id] = @ + 1]
    /\ UNCHANGED <<cleanup_queue, expire_sleep, expire_waker, woken>>

\* acquire with a baton that is accepted.
AcquireStream(c, b, body) ==
    /\ Refused(b) = "no"
    /\ handles' = [handles EXCEPT ![b.id] = "acquired"]
    /\ stream' = [stream EXCEPT ![b.id].baton_seq = (@ + 1) % SeqWrap]
    /\ unmark_expire(b.id)
    /\ call' = [call EXCEPT ![c] = [Asks(body) EXCEPT !.pc = "running", !.id = b.id,
                                                       !.turn = turns[b.id] + 1]]
    /\ used' = used \cup {b}
    /\ turns' = [turns EXCEPT ![b.id] = @ + 1]
    /\ UNCHANGED <<cleanup_queue, expire_sleep, expire_waker, woken>>

Arrives(c, body) ==
    /\ call[c].pc = "new" /\ \A d \in 1..(c - 1) : call[d].pc # "new"
    /\ Cardinality({d \in Calls : call[d].pc \notin {"new", "done"}}) < MaxConcurrent
    /\ body.cursor => Cardinality({d \in Calls : call[d].cursor}) < MaxCursors

\* handle_pipeline and handle_cursor with a baton, up to acquire.
Request(c) ==
    /\ \E b \in batons, body \in Bodies :
        /\ Arrives(c, body)
        /\ \/ AcquireStream(c, b, body)
           \/ /\ Refused(b) # "no"
              /\ call' = Done(c)
              /\ UNCHANGED <<handles, stream, timers, used, turns>>
    /\ UNCHANGED <<conn, cursor, batons, ran>>

\* The same without a baton: acquire awaits connection_maker.create().
RequestNew(c) ==
    /\ \E body \in Bodies :
        /\ Arrives(c, body)
        /\ call' = [call EXCEPT ![c] = [Asks(body) EXCEPT !.pc = "creating"]]
    /\ UNCHANGED <<handles, stream, timers, conn, cursor, history>>

\* gen_stream_id
FreshId ==
    LET unused == {s \in StreamIds : conn[s].th = "none"}
    IN  IF unused = {} THEN {} ELSE {CHOOSE s \in unused : TRUE}

\* The connection was created: acquire inserts a handle under a fresh id.
CreateStream(c) ==
    /\ call[c].pc = "creating"
    /\ \E s \in FreshId, seq \in FirstSeqs :
        /\ handles' = [handles EXCEPT ![s] = "acquired"]
        /\ stream' = [stream EXCEPT ![s] = [db |-> TRUE, sqls |-> <<>>,
                                            baton_seq |-> seq]]
        /\ conn' = [conn EXCEPT ![s].th = "up"]
        /\ call' = [call EXCEPT ![c].pc = "running", ![c].id = s, ![c].turn = 1]
        /\ turns' = [turns EXCEPT ![s] = 1]
    /\ UNCHANGED <<timers, cursor, batons, used, ran>>

CreateFails(c) ==
    /\ call[c].pc = "creating"
    /\ call' = Done(c)
    /\ UNCHANGED <<handles, stream, timers, conn, cursor, history>>

\* Guard::drop without release: the stream is removed, its connection dropped.
DropGuard(s) ==
    /\ handles' = [handles EXCEPT ![s] = "none"]
    /\ stream' = [stream EXCEPT ![s] = NoStream]
    /\ UNCHANGED timers

\* Mutant: a stream that is released is not marked to expire.
MutRelease(s) ==
    IF stream[s].db
    THEN handles' = [handles EXCEPT ![s] = "available"] /\ UNCHANGED <<stream, timers>>
    ELSE DropGuard(s)

\* Guard::release, then drop: the stream is available again, or gone if it was closed.
release(s) ==
    IF stream[s].db
    THEN /\ handles' = [handles EXCEPT ![s] = "available"]
         /\ mark_expire(s)
         /\ UNCHANGED <<stream, cleanup_queue, expire_sleep>>
    ELSE DropGuard(s)

Baton(s) == [id |-> s, seq |-> stream[s].baton_seq]

-----------------------------------------------------------------------------
(* The connection's thread, as Connections describes it *)

\* The thread is gone and drops the callbacks it still had. Their receivers fail: a
\* pipeline ends, a cursor gets an error.
Lost(s, jobs) == {jobs[i].c : i \in DOMAIN jobs}

ThreadDies(s) ==
    LET lost == Lost(s, Tail(conn[s].inbox))
        failed == {c \in lost : call[c].pc = "waiting"}
        broken == {c \in lost : cursor[c].task = "run"}
    IN  /\ conn' = [conn EXCEPT ![s] = [th |-> "dead", inbox |-> <<>>]]
        /\ call' = [c \in Calls |-> IF c \in failed THEN Done(c)[c]
                                    ELSE call[c]]
        /\ cursor' = [c \in Calls |->
                        CASE c \in broken /\ cursor[c].rx -> Returned(cursor[c], "internal")
                          [] c \in broken \cup {Head(conn[s].inbox).c}
                               /\ ~cursor[c].rx -> NoCursor
                          [] OTHER -> cursor[c]]
        /\ IF failed = {} THEN UNCHANGED <<handles, stream, timers>> ELSE DropGuard(s)

Sent(s, c, isCursor) ==
    conn' = [conn EXCEPT ![s].inbox = Append(@, [c |-> c, cursor |-> isCursor,
                                                      turn |-> call[c].turn])]

\* Every sender is gone: the stream's, and the one of a cursor that has not ended.
ThreadEnds(s) ==
    /\ conn[s].th = "up" /\ conn[s].inbox = <<>>
    /\ handles[s] \notin {"available", "acquired"} \/ ~stream[s].db
    /\ \A c \in Calls : call[c].id = s => cursor[c].task \in {"none", "end"}
    /\ conn' = [conn EXCEPT ![s].th = "ended"]
    /\ UNCHANGED <<handles, stream, timers, call, cursor, history>>

-----------------------------------------------------------------------------
(* request.rs: the requests of a pipeline *)

Current(c) == Head(call[c].left)
Running(c, kinds) ==
    /\ call[c].pc = "running" /\ ~call[c].cursor
    /\ call[c].left # <<>> /\ Current(c).kind \in kinds

\* Ok and StreamResponseError are both results; the pipeline goes on.
Proceed(c) == call' = [call EXCEPT ![c].pc = "running", ![c].left = Tail(@)]

\* Any other error leaves handle_pipeline and drops the guard.
FailCall(c) ==
    /\ call' = Done(c)
    /\ DropGuard(call[c].id)

Result(c, err) ==
    IF err \in {"ok", "stmt", "batch", "SqlTooMany"}
    THEN Proceed(c) /\ UNCHANGED <<handles, stream, timers>>
    ELSE FailCall(c)

\* StreamRequest::Close
Close(c) ==
    /\ Running(c, {"close"})
    /\ stream' = [stream EXCEPT ![call[c].id].db = FALSE]
    /\ Proceed(c)
    /\ UNCHANGED <<handles, timers, conn, cursor, history>>

\* StreamRequest::None
Unknown(c) ==
    /\ Running(c, {"unknown"})
    /\ Result(c, "protocol")
    /\ UNCHANGED <<conn, cursor, history>>

\* Mutant: any number of texts.
MutStoreSql(c) ==
    /\ Running(c, {"store_sql"})
    /\ LET sqls == stream[call[c].id].sqls
           r == Current(c)
       IN  \/ r.sql_id \in DOMAIN sqls /\ Result(c, "protocol")
           \/ /\ r.sql_id \notin DOMAIN sqls
              /\ stream' = [stream EXCEPT ![call[c].id].sqls = With(sqls, r.sql_id, r.sql)]
              /\ Proceed(c)
              /\ UNCHANGED <<handles, timers>>
    /\ UNCHANGED <<conn, cursor, history>>

\* StreamRequest::StoreSql
StoreSql(c) ==
    /\ Running(c, {"store_sql"})
    /\ LET sqls == stream[call[c].id].sqls
           r == Current(c)
       IN  \/ r.sql_id \in DOMAIN sqls /\ Result(c, "protocol")
           \/ /\ r.sql_id \notin DOMAIN sqls
              /\ Cardinality(DOMAIN sqls) >= MAX_SQL_COUNT
              /\ Result(c, "SqlTooMany")
           \/ /\ r.sql_id \notin DOMAIN sqls
              /\ Cardinality(DOMAIN sqls) < MAX_SQL_COUNT
              /\ stream' = [stream EXCEPT ![call[c].id].sqls = With(sqls, r.sql_id, r.sql)]
              /\ Proceed(c)
              /\ UNCHANGED <<handles, timers>>
    /\ UNCHANGED <<conn, cursor, history>>

\* StreamRequest::CloseSql
CloseSql(c) ==
    /\ Running(c, {"close_sql"})
    /\ stream' = [stream EXCEPT ![call[c].id].sqls = Without(@, Current(c).sql_id)]
    /\ Proceed(c)
    /\ UNCHANGED <<handles, timers, conn, cursor, history>>

\* The error before the connection is asked: the stream was closed in this pipeline
\* (BatonStreamClosed), or the request cannot be converted. Only for a batch is a
\* StmtError not caught.
Rejected(c) ==
    LET s == call[c].id
        err == Convert(Current(c), stream[s].sqls, call[c].ver)
    IN  CASE ~stream[s].db -> "protocol"
          [] err = "stmt" /\ Current(c).kind = "batch" -> "internal"
          [] OTHER -> err

\* The requests that run on the connection, up to the await.
Submit(c) ==
    /\ Running(c, OnConnection)
    /\ LET s == call[c].id
       IN  \/ Rejected(c) # "ok" /\ Result(c, Rejected(c)) /\ UNCHANGED conn
           \/ /\ Rejected(c) = "ok" /\ conn[s].th = "dead"
              /\ Result(c, Response(Current(c).kind, Answer("other", "ok")))
              /\ UNCHANGED conn
           \/ /\ Rejected(c) = "ok" /\ conn[s].th = "up"
              /\ Sent(s, c, FALSE)
              /\ call' = [call EXCEPT ![c].pc = "waiting"]
              /\ UNCHANGED <<handles, stream, timers>>
    /\ UNCHANGED <<cursor, history>>

\* The thread runs a program of a pipeline and sends the answer; if the client has
\* left, nobody receives it and the thread ends.
RunProgram(s) ==
    /\ conn[s].inbox # <<>> /\ ~Head(conn[s].inbox).cursor
    /\ LET c == Head(conn[s].inbox).c
       IN  /\ ran' = [ran EXCEPT ![s] = Max({@, Head(conn[s].inbox).turn})]
           /\ \/ /\ call[c].pc = "waiting"
                 /\ \E a \in Answers : Result(c, Response(Current(c).kind, a))
                 /\ conn' = [conn EXCEPT ![s].inbox = Tail(@)]
                 /\ UNCHANGED cursor
              \/ call[c].pc # "waiting" /\ ThreadDies(s)
    /\ UNCHANGED <<batons, used, turns>>

\* The end of handle_pipeline.
Respond(c) ==
    /\ call[c].pc = "running" /\ ~call[c].cursor /\ call[c].left = <<>>
    /\ release(call[c].id)
    /\ batons' = IF stream[call[c].id].db THEN batons \cup {Baton(call[c].id)} ELSE batons
    /\ call' = Done(c)
    /\ UNCHANGED <<conn, cursor, used, turns, ran>>

-----------------------------------------------------------------------------
(* The cursor endpoint *)

\* The rest of handle_cursor: the stream is released before the program is sent.
OpenCursorStream(c) ==
    /\ call[c].pc = "running" /\ call[c].cursor
    /\ LET s == call[c].id
       IN  \/ /\ Rejected(c) # "ok"
              /\ FailCall(c)
              /\ UNCHANGED cursor
           \/ /\ Rejected(c) = "ok"
              /\ \E run \in Runs :
                    /\ cursor' = [cursor EXCEPT ![c] = OpenCursor(Entries(run.steps), run.err)]
                    /\ call' = [call EXCEPT ![c].pc = "streaming", ![c].head = TRUE,
                                            ![c].baton = Baton(s), ![c].left = <<>>,
                                            ![c].all = Entries(run.steps) \o Final(run.err)]
              /\ release(s)
    /\ UNCHANGED <<conn, history>>

\* run_cursor receives the OpenReq and sends its program.
RunCursor(c) ==
    /\ cursor[c].task = "open"
    /\ LET s == call[c].id
       IN  IF conn[s].th = "up"
           THEN cursor' = [cursor EXCEPT ![c].task = "run"] /\ Sent(s, c, TRUE)
           ELSE /\ cursor' = [cursor EXCEPT ![c] = Returned(@, "internal")]
                /\ UNCHANGED conn
    /\ UNCHANGED <<handles, stream, timers, call, history>>

Emitting(s, c) ==
    conn[s].inbox # <<>> /\ Head(conn[s].inbox).cursor /\ c = Head(conn[s].inbox).c

EmitEntry(s) ==
    /\ \E c \in Calls :
        /\ Emitting(s, c) /\ CanEmit(cursor[c])
        /\ cursor' = [cursor EXCEPT ![c] = Emit(@)]
    /\ UNCHANGED <<handles, stream, timers, conn, call, history>>

\* The program of a cursor has run; run_cursor may have been aborted.
EndProgram(s) ==
    /\ \E c \in Calls :
        /\ Emitting(s, c) /\ Ran(cursor[c])
        /\ ran' = [ran EXCEPT ![s] = Max({@, Head(conn[s].inbox).turn})]
        /\ \/ /\ cursor[c].rx
              /\ cursor' = [cursor EXCEPT ![c] = Returned(@, cursor[c].err)]
              /\ conn' = [conn EXCEPT ![s].inbox = Tail(@)]
              /\ UNCHANGED <<handles, stream, timers, call>>
           \/ ~cursor[c].rx /\ ThreadDies(s)
    /\ UNCHANGED <<batons, used, turns>>

EmitError(c) ==
    /\ CanFail(cursor[c])
    /\ cursor' = [cursor EXCEPT ![c] = Fail(@)]
    /\ UNCHANGED <<handles, stream, timers, conn, call, history>>

\* The CursorStream is dropped, and with it the receiver and the task: a program that was
\* not sent never is, one that was sent still runs.
DropBody(c) ==
    IF cursor[c].task = "run"
    THEN /\ call' = [call EXCEPT ![c] = [NewCall EXCEPT !.pc = "done", !.id = call[c].id]]
         /\ cursor' = [cursor EXCEPT ![c] = Unread(@)]
    ELSE /\ call' = Done(c)
         /\ cursor' = [cursor EXCEPT ![c] = NoCursor]

\* CursorStream::poll_next: the baton, then the entries, until the channel is closed or
\* an error ends the body.
PollNext(c) ==
    /\ call[c].pc = "streaming"
    /\ \/ /\ call[c].head
          /\ call' = [call EXCEPT ![c].head = FALSE]
          /\ batons' = batons \cup {call[c].baton}
          /\ UNCHANGED cursor
       \/ /\ ~call[c].head /\ CanFetch(cursor[c])
          /\ LET e == cursor[c].chan[1]
             IN  IF e.type = "fatal"
                 THEN DropBody(c)
                 ELSE /\ call' = [call EXCEPT ![c].got = Append(@, e)]
                      /\ cursor' = [cursor EXCEPT ![c] = Fetched(@)]
          /\ UNCHANGED batons
       \/ /\ ~call[c].head /\ AtEnd(cursor[c])
          /\ call' = [call EXCEPT ![c] = [NewCall EXCEPT !.pc = "done", !.ok = TRUE,
                            !.all = call[c].all, !.got = call[c].got]]
          /\ cursor' = [cursor EXCEPT ![c] = NoCursor]
          /\ UNCHANGED batons
    /\ UNCHANGED <<handles, stream, timers, conn, used, turns, ran>>

\* The client closes its HTTP connection: hyper drops the handler, or the body with the
\* cursor's task.
Disconnect(c) ==
    /\ \/ /\ call[c].pc = "creating"
          /\ call' = Done(c)
          /\ UNCHANGED <<handles, stream, timers, cursor>>
       \/ /\ call[c].pc = "waiting"
          /\ FailCall(c)
          /\ UNCHANGED cursor
       \/ /\ call[c].pc = "streaming"
          /\ DropBody(c)
          /\ UNCHANGED <<handles, stream, timers>>
    /\ UNCHANGED <<conn, history>>

-----------------------------------------------------------------------------
(* Expiration *)

Down(t) == IF t = 0 THEN 0 ELSE t - 1

\* A second passes; a sleep that ends wakes the task, which is polled before the next
\* second.
Tick ==
    /\ ~woken
    /\ expire_queue' = [s \in DOMAIN expire_queue |-> Down(expire_queue[s])]
    /\ cleanup_queue' = [i \in DOMAIN cleanup_queue |->
                            [cleanup_queue[i] EXCEPT !.left = Down(@)]]
    /\ expire_sleep' = Down(expire_sleep)
    /\ woken' = (expire_sleep = 1)
    /\ UNCHANGED <<handles, stream, expire_waker, conn, call, cursor, history>>

\* How many entries at the front of the cleanup queue are due.
CleanupDue ==
    Max({n \in 0..Len(cleanup_queue) : \A i \in 1..n : cleanup_queue[i].left = 0})

\* run_expire is polled: pump_expire.
pump_expire ==
    /\ woken
    /\ LET due == {s \in DOMAIN expire_queue : expire_queue[s] = 0}
           expired == {s \in due : handles[s] = "available"}
           rest == [s \in DOMAIN expire_queue \ due |-> expire_queue[s]]
           gone == {cleanup_queue[i].id : i \in 1..CleanupDue}
           kept == SubSeq(cleanup_queue, CleanupDue + 1, Len(cleanup_queue))
           added == [i \in 1..Cardinality(expired) |->
                        [id |-> SetToSeq(expired)[i], left |-> roundup_instant(CLEANUP)]]
       IN  /\ handles' = [s \in StreamIds |-> CASE s \in expired -> "expired"
                                                [] s \in gone -> "none"
                                                [] OTHER -> handles[s]]
           /\ stream' = [s \in StreamIds |-> IF s \in expired
                                             THEN NoStream
                                             ELSE stream[s]]
           /\ expire_queue' = rest
           /\ cleanup_queue' = kept \o added
           /\ expire_sleep' = IF DOMAIN rest = {} THEN IDLE ELSE Min(Range(rest))
    /\ expire_waker' = TRUE
    /\ woken' = FALSE
    /\ UNCHANGED <<conn, call, cursor, history>>

-----------------------------------------------------------------------------

Handler(c) ==
    \/ CreateStream(c) \/ CreateFails(c) \/ Close(c) \/ Unknown(c) \/ StoreSql(c)
    \/ CloseSql(c) \/ Submit(c) \/ Respond(c) \/ OpenCursorStream(c)
    \/ RunCursor(c) \/ EmitError(c)

Thread(s) == RunProgram(s) \/ EmitEntry(s) \/ EndProgram(s) \/ ThreadEnds(s)

Next ==
    \/ \E c \in Calls : Request(c) \/ RequestNew(c) \/ Disconnect(c)
    \/ \E c \in Calls : Handler(c) \/ PollNext(c)
    \/ \E s \in StreamIds : Thread(s)
    \/ Tick
    \/ pump_expire

Spec == Init /\ [][Next]_vars

\* Time passes, the task of run_expire is polled, and as long as handlers, tasks or threads
\* of the server have something to do, one of them does it. Clients need not read.
Work ==
    \/ \E c \in Calls : Handler(c)
    \/ \E s \in StreamIds : Thread(s)

FairSpec == Spec /\ WF_vars(Tick) /\ WF_vars(pump_expire) /\ WF_vars(Work)

-----------------------------------------------------------------------------
(* Properties *)

TypeOK ==
    /\ handles \in [StreamIds -> {"none", "available", "acquired", "expired"}]
    /\ \A s \in StreamIds :
        /\ stream[s].db \in BOOLEAN /\ stream[s].baton_seq \in 0..(SeqWrap - 1)
        /\ Cardinality(DOMAIN stream[s].sqls) <= MAX_SQL_COUNT
        /\ conn[s].th \in {"none", "up", "dead", "ended"}
        /\ \A i \in DOMAIN conn[s].inbox : conn[s].inbox[i].c \in Calls
    /\ DOMAIN expire_queue \subseteq StreamIds
    /\ \A s \in DOMAIN expire_queue : expire_queue[s] \in 0..(EXPIRATION + 1)
    /\ \A i \in DOMAIN cleanup_queue : cleanup_queue[i].left \in 0..(CLEANUP + 1)
    /\ expire_sleep \in 0..IDLE /\ {expire_waker, woken} \subseteq BOOLEAN
    /\ \A c \in Calls :
        /\ call[c].pc \in {"new", "creating", "running", "waiting", "streaming", "done"}
        /\ call[c].id \in StreamIds \cup {NoId}
        /\ cursor[c].task \in {"none", "open", "run", "failed", "end"}
        /\ Len(cursor[c].chan) <= 1

Guards(s) == {c \in Calls : call[c].id = s /\ call[c].pc \in {"running", "waiting"}}

\* The handles, the two queues and the guards agree: an acquired stream has exactly one
\* guard (Guard::drop would panic), the streams that wait to expire are the available
\* ones, those that wait to be cleaned up are the expired ones and wait once (the assert
\* in pump_expire), and the task is awake before the first of them is due.
HandlesMatch ==
    /\ \A s \in StreamIds :
        /\ Cardinality(Guards(s)) = IF handles[s] = "acquired" THEN 1 ELSE 0
        /\ handles[s] = "available" <=> s \in DOMAIN expire_queue
        /\ handles[s] = "available" => stream[s].db
        /\ Cardinality({i \in DOMAIN cleanup_queue : cleanup_queue[i].id = s})
            = IF handles[s] = "expired" THEN 1 ELSE 0
    /\ woken \/ (expire_sleep > 0 /\ expire_waker)
    /\ \A s \in DOMAIN expire_queue : woken \/ expire_sleep <= expire_queue[s]

\* What every step keeps to: a call that begins has used up a baton of its own, and a
\* program of a pipeline is not of an earlier call than one that ran.
SerialStep ==
    /\ (\E c \in Calls : call[c].pc = "new" /\ call'[c].pc = "running") => used' # used
    /\ \A s \in StreamIds :
        LET old == conn[s].inbox
        IN  Len(conn'[s].inbox) < Len(old) /\ ~Head(old).cursor => Head(old).turn >= ran[s]

\* A baton is accepted once, so the requests of a stream are serial: a program of a
\* pipeline never runs after one of a call that got the stream later. (A program of a
\* cursor may: the stream is given back before it runs.)
RequestsAreSerial == [][SerialStep]_vars

\* A body that was streamed to its end holds every entry of the batch, in order, and the
\* error of the batch if it failed.
CursorIsComplete ==
    \A c \in Calls : call[c].ok =>
        call[c].got = call[c].all

\* A client keeps the body of a cursor open and leaves an entry unread that the next one
\* waits for: blocking_send has no timeout, so the connection's thread waits too.
UnreadBody(s) ==
    \E c \in Calls :
        /\ call[c].pc = "streaming" /\ call[c].id = s
        /\ cursor[c].chan # <<>> /\ cursor[c].task # "end"

\* Once clients have stopped, every stream expires and is forgotten and every connection is
\* closed, whatever clients have left behind, but for the streams that the unread body of
\* a cursor holds up.
StreamsEnd ==
    <>[](\A s \in StreamIds : UnreadBody(s) \/ (handles[s] = "none" /\ conn[s].th # "up"))
=============================================================================
