------------------------------- MODULE HranaWs -------------------------------
(***************************************************************************)
(* Hrana over WebSockets (hrana/ws): one connection with the streams and   *)
(* cursors a client opens on it. The task of the connection (handle_ws)    *)
(* checks a request and queues a job for the stream's task, which runs one *)
(* job at a time on the stream's database connection. A cursor has a task  *)
(* of its own. Responses go back in any order.                             *)
(*                                                                         *)
(* Requests are numbered in the order they are received. The task of a     *)
(* stream, and its database connection, have the number of the request     *)
(* that opened the stream, the task of a cursor that of its request.       *)
(***************************************************************************)
EXTENDS Hrana, Integers

CONSTANTS
    Requests,        \* what the client may ask for
    MaxRequests,
    Offers,          \* the subprotocols clients offer; NoHeader for none at all
    NoHeader,
    Answers,         \* of the database connection to a program
    Runs,            \* [steps, err]: what a batch of a cursor does
    QUEUE,           \* capacity of a stream's job queue
    MAX_SQL_COUNT

Ids == 1..MaxRequests

VARIABLES
    ws,              \* "handshake", "open", "left" (the client is gone and handle_ws has
                     \* not noticed) or "closed"
    code,            \* the close code that was sent
    subproto,        \* what was negotiated
    session,         \* a hello was accepted
    streams,         \* Session::streams: [task, cursor_id] by stream id
    cursors,         \* Session::cursors: stream ids by cursor id
    sqls,
    sending,         \* the job that the connection's task cannot queue yet
    task,            \* of each stream: [st, queue, job, got, db, hnd, tx]
    cur, owner,      \* the tasks of cursors, and whose stream they are
    conn,            \* the thread of each database connection: [th, inbox]
    resp,            \* the response to each request
    received,        \* how many requests
    rude,            \* history: a request came on a stream with an open cursor
    failed,          \* history: cursors whose open_cursor got an error
    ran              \* history: the latest request run on each connection

sessionVars == <<streams, cursors, sqls>>
taskVars == <<task, cur, owner, conn>>
history == <<rude, failed, ran>>
vars == <<ws, code, subproto, session, sessionVars, sending, taskVars, resp, received,
          history>>

NoId == 0            \* None, where an id may be missing

ASSUME HranaWsAssumption ==
    /\ {MaxRequests, QUEUE, MAX_SQL_COUNT} \subseteq Nat
    /\ \A r \in Requests : r.kind = "open_cursor" => r.cursor # NoId

NoJob == [i |-> 0, r |-> [kind |-> "none"]]
NotSending == [k |-> 0, job |-> NoJob]
NoTask == [st |-> "none", queue |-> <<>>, job |-> NoJob, got |-> 0, db |-> FALSE,
           hnd |-> 0, tx |-> FALSE]

Init ==
    /\ ws = "handshake" /\ code = "none" /\ subproto = "none" /\ session = FALSE
    /\ streams = <<>> /\ cursors = <<>> /\ sqls = <<>>
    /\ sending = NotSending
    /\ task = [k \in Ids |-> NoTask]
    /\ cur = [i \in Ids |-> NoCursor] /\ owner = [i \in Ids |-> 0]
    /\ conn = [k \in Ids |-> [th |-> "none", inbox |-> <<>>]]
    /\ resp = [i \in Ids |-> "none"] /\ received = 0
    /\ rude = FALSE /\ failed = {} /\ ran = [k \in Ids |-> 0]

-----------------------------------------------------------------------------
(* handshake.rs *)

ServerSubprotos == <<"hrana3-protobuf", "hrana3", "hrana2", "hrana1">>

\* negotiate_subproto and select_subproto: the first of the server's that the client
\* offers; a client that offers nothing at all speaks hrana1.
negotiate_subproto(offer) ==
    IF offer = NoHeader THEN "hrana1"
    ELSE LET common == SelectSeq(ServerSubprotos, LAMBDA p : p \in offer)
         IN  IF common = <<>> THEN "none" ELSE Head(common)

\* Subproto::version_encoding
version == CASE subproto = "hrana1" -> 1 [] subproto = "hrana2" -> 2 [] OTHER -> 3
encoding == IF subproto = "hrana3-protobuf" THEN "binary" ELSE "text"

\* handshake_tcp and handshake_upgrade
Handshake ==
    /\ ws = "handshake"
    /\ \E offer \in Offers :
        /\ subproto' = negotiate_subproto(offer)
        /\ ws' = IF subproto' = "none" THEN "closed" ELSE "open"
    /\ UNCHANGED <<code, session, sessionVars, sending, taskVars, resp, received, history>>

-----------------------------------------------------------------------------
(* conn.rs: the connection's task *)

\* Mutant: a cursor that runs is still waited for.
MutTerminate(c) ==
    /\ ws' = "closed" /\ code' = c
    /\ streams' = <<>> /\ cursors' = <<>> /\ sqls' = <<>>
    /\ sending' = NotSending /\ resp' = [i \in Ids |-> "none"]
    /\ task' = [k \in Ids |-> IF task[k].st = "none" THEN NoTask
                              ELSE [NoTask EXCEPT !.st = "ended"]]
    /\ UNCHANGED <<cur, owner, conn, subproto>>

\* handle_ws returns: the session and the responses go, and dropping the JoinSet aborts the
\* tasks of the streams and cursors. Programs that a database thread has still run.
Terminate(c) ==
    /\ ws' = "closed" /\ code' = c
    /\ streams' = <<>> /\ cursors' = <<>> /\ sqls' = <<>>
    /\ sending' = NotSending /\ resp' = [i \in Ids |-> "none"]
    /\ task' = [k \in Ids |-> IF task[k].st = "none" THEN NoTask
                              ELSE [NoTask EXCEPT !.st = "ended"]]
    /\ cur' = [i \in Ids |-> IF cur[i].task = "run" THEN Unread(cur[i]) ELSE NoCursor]
    /\ UNCHANGED <<owner, conn, subproto>>

\* handle_ws runs; it is at its select!; a message arrives there.
Serving == ws \in {"open", "left"}
Selecting == Serving /\ sending = NotSending
Receiving == Selecting /\ ws = "open"

\* handle_msg on something other than a client message, protocol_error_to_close_code.
BadMessage ==
    /\ Receiving
    /\ \E m \in {"undecodable", "text", "binary", "unknown", "close"} :
        /\ m # encoding
        /\ Terminate(CASE m = "undecodable" -> "Invalid"
                       [] m \in {"text", "binary"} -> "Unsupported"
                       [] m = "unknown" -> "Policy"
                       [] m = "close" -> "Normal")
    /\ UNCHANGED <<session, received, history>>

\* The client goes away, and all that it had sent has been received.
Leave ==
    /\ ws = "open" /\ ws' = "left"
    /\ UNCHANGED <<code, subproto, session, sessionVars, sending, taskVars, resp, received,
                   history>>

\* ws.recv() or send_msg fails. Neither is called while a job cannot be queued: the
\* select! has chosen the message that the job is for.
Disconnect ==
    /\ Selecting /\ ws = "left"
    /\ Terminate("none")
    /\ UNCHANGED <<session, received, history>>

\* handle_hello_msg, handle_initial_hello, handle_repeated_hello
Hello ==
    /\ Receiving
    /\ \E valid \in BOOLEAN :
        \/ /\ session /\ version < 2
           /\ Terminate("Policy") /\ UNCHANGED session
        \/ /\ ~(session /\ version < 2) /\ ~valid
           /\ Terminate("Normal") /\ UNCHANGED session
        \/ /\ ~(session /\ version < 2) /\ valid
           /\ session' = TRUE
           /\ UNCHANGED <<ws, code, subproto, sessionVars, sending, taskVars, resp>>
    /\ UNCHANGED <<received, history>>

\* handle_request_msg without a session
RequestBeforeHello ==
    /\ Receiving /\ ~session
    /\ Terminate("Policy")
    /\ UNCHANGED <<session, received, history>>

\* A response that is ready: ResponseFuture, send_msg. A ResponseError is sent, any other
\* error leaves handle_ws at once.
SendResponse(i) ==
    /\ Selecting
    /\ \/ /\ resp[i] \in {"ok", "error"}
          /\ resp' = [resp EXCEPT ![i] = "sent"]
          /\ UNCHANGED <<ws, code, subproto, sessionVars, sending, taskVars>>
       \/ /\ resp[i] = "fatal"
          /\ Terminate("none")
    /\ UNCHANGED <<session, received, history>>

-----------------------------------------------------------------------------
(* session.rs: handle_request *)

\* ensure_version!
MinVersion(k) ==
    CASE k \in {"sequence", "describe", "store_sql", "close_sql"} -> 2
      [] k \in {"open_cursor", "close_cursor", "fetch_cursor", "get_autocommit"} -> 3
      [] OTHER -> 1

\* A conversion that fails with a StmtError is a response, with a ProtocolError it ends
\* the connection.
catch_stmt_error(err) ==
    CASE err = "ok" -> "ok" [] err = "stmt" -> "error" [] OTHER -> "fatal"

fatalIf(b, otherwise) == IF b THEN "fatal" ELSE otherwise

\* How handle_request returns before it has changed anything, or "ok".
Refusal(r) ==
    LET converted == catch_stmt_error(Convert(r, sqls, version))
        unknown == r.stream \notin DOMAIN streams
    IN  IF version < MinVersion(r.kind) THEN "fatal"
        ELSE CASE r.kind = "open_stream" -> fatalIf(~unknown, "ok")
               [] r.kind = "close_stream" -> fatalIf(unknown, "ok")
               [] r.kind \in OnConnection -> fatalIf(unknown, converted)
               [] r.kind = "open_cursor" ->
                    fatalIf(unknown \/ streams[r.stream].cursor_id # NoId
                                    \/ r.cursor \in DOMAIN cursors, converted)
               [] r.kind \in {"close_cursor", "fetch_cursor"} ->
                    fatalIf(r.cursor \notin DOMAIN cursors, "ok")
               [] r.kind = "store_sql" ->
                    fatalIf(r.sql_id \in DOMAIN sqls,
                            IF Cardinality(DOMAIN sqls) >= MAX_SQL_COUNT
                            THEN "error" ELSE "ok")
               [] r.kind = "close_sql" -> "ok"

\* The stream a request is about, if the session knows it.
About(r) ==
    CASE r.kind \in {"close_cursor", "fetch_cursor"} ->
            IF r.cursor \in DOMAIN cursors THEN cursors[r.cursor] ELSE NoId
      [] r.kind \in {"store_sql", "close_sql"} -> NoId
      [] OTHER -> r.stream

\* Request number received + 1 arrives.
Receive(r, answer) ==
    LET i == received + 1
        s == About(r)
    IN  /\ Receiving /\ session /\ received < MaxRequests
        /\ received' = i
        /\ resp' = [resp EXCEPT ![i] = answer]
        /\ rude' = (rude \/ /\ s \in DOMAIN streams /\ streams[s].cursor_id # NoId
                            /\ r.kind \notin {"close_cursor", "fetch_cursor",
                                              "close_stream"})
        /\ UNCHANGED <<ws, code, subproto, session, ran>>

Refuse(r) ==
    /\ Refusal(r) # "ok"
    /\ Receive(r, Refusal(r))
    /\ failed' = IF r.kind = "open_cursor" /\ Refusal(r) = "error"
                 THEN failed \cup {r.cursor} ELSE failed
    /\ UNCHANGED <<sessionVars, sending, taskVars>>

\* stream_respond: job_tx.send waits while the queue is full.
Queue(k, tasks, r) ==
    LET job == [i |-> received + 1, r |-> r]
    IN  IF Len(tasks[k].queue) < QUEUE
        THEN /\ task' = [tasks EXCEPT ![k].queue = Append(@, job)]
             /\ sending' = NotSending
        ELSE task' = tasks /\ sending' = [k |-> k, job |-> job]

Unblock ==
    /\ Serving /\ sending # NotSending
    /\ Len(task[sending.k].queue) < QUEUE
    /\ task' = [task EXCEPT ![sending.k].queue = Append(@, sending.job)]
    /\ sending' = NotSending
    /\ UNCHANGED <<ws, code, subproto, session, sessionVars, cur, owner, conn, resp,
                   received, history>>

Accepts(r, k) == r.kind = k /\ Refusal(r) = "ok" /\ Receive(r, "pending")

\* Request::OpenStream, stream_spawn
OpenStream(r) ==
    /\ Accepts(r, "open_stream")
    /\ LET k == received + 1
       IN  /\ Queue(k, [task EXCEPT ![k].st = "idle", ![k].tx = TRUE], r)
           /\ streams' = With(streams, r.stream, [task |-> k, cursor_id |-> NoId])
    /\ UNCHANGED <<cursors, sqls, cur, owner, conn, failed>>

\* Mutant: the session forgets the stream and keeps its cursor.
MutCloseStream(r) ==
    /\ Accepts(r, "close_stream")
    /\ LET h == streams[r.stream]
       IN  Queue(h.task, [task EXCEPT ![h.task].tx = FALSE], r)
    /\ streams' = Without(streams, r.stream)
    /\ UNCHANGED <<cursors, sqls, cur, owner, conn, failed>>

\* Request::CloseStream: the handle, and with it job_tx, is dropped after the job is queued.
CloseStream(r) ==
    /\ Accepts(r, "close_stream")
    /\ LET h == streams[r.stream]
       IN  /\ Queue(h.task, [task EXCEPT ![h.task].tx = FALSE], r)
           /\ cursors' = Without(cursors, h.cursor_id)
    /\ streams' = Without(streams, r.stream)
    /\ UNCHANGED <<sqls, cur, owner, conn, failed>>

\* Request::Execute, Batch, Sequence, Describe and GetAutocommit
Execute(r) ==
    /\ r.kind \in OnConnection /\ Accepts(r, r.kind)
    /\ Queue(streams[r.stream].task, task, r)
    /\ UNCHANGED <<sessionVars, cur, owner, conn, failed>>

\* Request::StoreSql
StoreSql(r) ==
    /\ r.kind = "store_sql" /\ Refusal(r) = "ok" /\ Receive(r, "ok")
    /\ sqls' = With(sqls, r.sql_id, r.sql)
    /\ UNCHANGED <<streams, cursors, sending, taskVars, failed>>

\* Request::CloseSql
CloseSql(r) ==
    /\ r.kind = "close_sql" /\ Refusal(r) = "ok" /\ Receive(r, "ok")
    /\ sqls' = Without(sqls, r.sql_id)
    /\ UNCHANGED <<streams, cursors, sending, taskVars, failed>>

\* Request::OpenCursor; CursorHandle::spawn
OpenCursorOn(r) ==
    /\ Accepts(r, "open_cursor")
    /\ Queue(streams[r.stream].task, task, r)
    /\ cursors' = With(cursors, r.cursor, r.stream)
    /\ streams' = [streams EXCEPT ![r.stream].cursor_id = r.cursor]
    /\ failed' = failed \ {r.cursor}
    /\ UNCHANGED <<sqls, cur, owner, conn>>

\* Request::CloseCursor
CloseCursor(r) ==
    /\ Accepts(r, "close_cursor")
    /\ LET s == cursors[r.cursor]
       IN  /\ Queue(streams[s].task, task, r)
           /\ streams' = [streams EXCEPT ![s].cursor_id = NoId]
    /\ cursors' = Without(cursors, r.cursor)
    /\ UNCHANGED <<sqls, cur, owner, conn, failed>>

\* Request::FetchCursor
FetchCursor(r) ==
    /\ Accepts(r, "fetch_cursor")
    /\ Queue(streams[cursors[r.cursor]].task, task, r)
    /\ UNCHANGED <<sessionVars, cur, owner, conn, failed>>

-----------------------------------------------------------------------------
(* The task of a stream *)

Job(k) == task[k].job
Doing(k, kinds) == task[k].st = "run" /\ Job(k).r.kind \in kinds

\* Mutant: a job that waits for a place is handed over before those in the queue.
MutTakeJob(k) ==
    /\ task[k].st = "idle" /\ task[k].queue # <<>>
    /\ \/ /\ sending.k = k
          /\ task' = [task EXCEPT ![k].st = "run", ![k].job = sending.job]
          /\ sending' = NotSending
       \/ /\ sending.k # k
          /\ task' = [task EXCEPT ![k].st = "run", ![k].job = Head(task[k].queue),
                                  ![k].queue = Tail(@)]
          /\ UNCHANGED sending
    /\ UNCHANGED <<ws, code, subproto, session, sessionVars, cur, owner, conn, resp,
                   received, history>>

\* job_rx.recv()
TakeJob(k) ==
    /\ task[k].st = "idle" /\ task[k].queue # <<>>
    /\ task' = [task EXCEPT ![k].st = "run", ![k].job = Head(task[k].queue),
                            ![k].queue = Tail(@)]
    /\ UNCHANGED <<ws, code, subproto, session, sessionVars, sending, cur, owner, conn,
                   resp, received, history>>

\* resp_tx.send(res); the task takes the next job.
Finish(k, tasks, answer) ==
    /\ task' = [tasks EXCEPT ![k].st = "idle", ![k].job = NoJob, ![k].got = 0]
    /\ resp' = [resp EXCEPT ![Job(k).i] = answer]

Elsewhere == <<ws, code, subproto, session, sessionVars, sending, received, history>>

CreateConnection(k) ==
    /\ Doing(k, {"open_stream"})
    /\ \/ Finish(k, [task EXCEPT ![k].db = TRUE], "ok")
          /\ conn' = [conn EXCEPT ![k].th = "up"]
       \/ Finish(k, task, "fatal") /\ UNCHANGED conn
    /\ UNCHANGED <<Elsewhere, cur, owner>>

AnswerClose(k) ==
    /\ Doing(k, {"close_stream"})
    /\ Finish(k, task, "ok")
    /\ UNCHANGED <<Elsewhere, cur, owner, conn>>

\* get_stream_db!, then the program is sent.
SendProgram(k) ==
    /\ Doing(k, OnConnection)
    /\ \/ /\ ~task[k].db
          /\ Finish(k, task, "error")
          /\ UNCHANGED conn
       \/ /\ task[k].db
          /\ task' = [task EXCEPT ![k].st = "waiting"]
          /\ conn' = [conn EXCEPT ![k].inbox = Append(@, Job(k).i)]
          /\ UNCHANGED resp
    /\ UNCHANGED <<Elsewhere, cur, owner>>

\* CursorHandle::open. A handle whose job finds no connection is dropped, and its task
\* ends.
StartCursor(k) ==
    /\ Doing(k, {"open_cursor"})
    /\ \/ /\ ~task[k].db
          /\ Finish(k, task, "error")
          /\ UNCHANGED <<cur, owner>>
       \/ /\ task[k].db
          /\ Finish(k, [task EXCEPT ![k].hnd = Job(k).i], "ok")
          /\ \E run \in Runs :
                cur' = [cur EXCEPT ![Job(k).i] = OpenCursor(Entries(run.steps), run.err)]
          /\ owner' = [owner EXCEPT ![Job(k).i] = k]
    /\ UNCHANGED <<Elsewhere, conn>>

\* A CursorHandle is dropped: its task goes on.
DropHandle(k) ==
    cur' = IF task[k].hnd = 0 THEN cur ELSE [cur EXCEPT ![task[k].hnd] = Unread(@)]

StopCursor(k) ==
    /\ Doing(k, {"close_cursor"})
    /\ DropHandle(k)
    /\ Finish(k, [task EXCEPT ![k].hnd = 0], "ok")
    /\ UNCHANGED <<Elsewhere, owner, conn>>

\* The loop of FetchCursor: an entry at a time, up to max_count (none, when it is 0) or
\* a total size.
FetchEntry(k) ==
    /\ Doing(k, {"fetch_cursor"})
    /\ LET h == task[k].hnd
       IN  \/ /\ h = 0
              /\ Finish(k, task, "error") /\ UNCHANGED cur
           \/ /\ h # 0 /\ Job(k).r.max = 0
              /\ Finish(k, task, "ok") /\ UNCHANGED cur
           \/ /\ h # 0 /\ Job(k).r.max > 0 /\ CanFetch(cur[h])
              /\ cur' = [cur EXCEPT ![h] = Fetched(@)]
              /\ \/ /\ cur[h].chan[1].type = "fatal"
                    /\ Finish(k, task, "fatal")
                 \/ /\ cur[h].chan[1].type # "fatal"
                    /\ Finish(k, task, "ok")
                 \/ /\ cur[h].chan[1].type # "fatal" /\ task[k].got + 1 < Job(k).r.max
                    /\ task' = [task EXCEPT ![k].got = @ + 1]
                    /\ UNCHANGED resp
           \/ /\ h # 0 /\ Job(k).r.max > 0 /\ AtEnd(cur[h])
              /\ Finish(k, task, "ok") /\ UNCHANGED cur
    /\ UNCHANGED <<Elsewhere, owner, conn>>

\* Mutant: the task ends with the session's handle, and what is queued is dropped.
MutEndTask(k) ==
    /\ task[k].st = "idle" /\ ~task[k].tx
    /\ task' = [task EXCEPT ![k] = [NoTask EXCEPT !.st = "ended"]]
    /\ DropHandle(k)
    /\ UNCHANGED <<Elsewhere, owner, conn, resp>>

\* job_rx.recv() returns None: the stream is dropped.
EndTask(k) ==
    /\ task[k].st = "idle" /\ task[k].queue = <<>> /\ ~task[k].tx /\ sending.k # k
    /\ task' = [task EXCEPT ![k] = [NoTask EXCEPT !.st = "ended"]]
    /\ DropHandle(k)
    /\ UNCHANGED <<Elsewhere, owner, conn, resp>>

StreamTask(k) ==
    \/ TakeJob(k) \/ CreateConnection(k) \/ AnswerClose(k) \/ SendProgram(k)
    \/ StartCursor(k) \/ StopCursor(k) \/ FetchEntry(k) \/ EndTask(k)

-----------------------------------------------------------------------------
(* The task of a cursor and the thread of a database connection *)

\* run_cursor receives the OpenReq and sends its program.
RunCursor(i) ==
    /\ cur[i].task = "open"
    /\ cur' = [cur EXCEPT ![i].task = "run"]
    /\ conn' = [conn EXCEPT ![owner[i]].inbox = Append(@, i)]
    /\ UNCHANGED <<Elsewhere, task, owner, resp>>

EmitError(i) ==
    /\ CanFail(cur[i])
    /\ cur' = [cur EXCEPT ![i] = Fail(@)]
    /\ UNCHANGED <<Elsewhere, task, owner, conn, resp>>

Current(k) == Head(conn[k].inbox)

\* Nobody waits for the answer: the thread ends, and what it had queued is dropped.
ThreadDies(k) == conn' = [conn EXCEPT ![k] = [th |-> "ended", inbox |-> <<>>]]

RunsNow(k) == ran' = [ran EXCEPT ![k] = Max({@, Current(k)})]

\* The thread runs the program of a request and answers the stream's task.
RunProgram(k) ==
    /\ conn[k].inbox # <<>> /\ owner[Current(k)] = 0
    /\ RunsNow(k)
    /\ \/ /\ task[k].st = "waiting"
          /\ \E a \in Answers :
                Finish(k, task, CASE Response(Job(k).r.kind, a) = "ok" -> "ok"
                                  [] Response(Job(k).r.kind, a) = "internal" -> "fatal"
                                  [] OTHER -> "error")
          /\ conn' = [conn EXCEPT ![k].inbox = Tail(@)]
       \/ /\ task[k].st # "waiting"
          /\ ThreadDies(k) /\ UNCHANGED <<task, resp>>
    /\ UNCHANGED <<ws, code, subproto, session, sessionVars, sending, received, cur, owner,
                   rude, failed>>

EmitEntry(k) ==
    /\ conn[k].inbox # <<>> /\ CanEmit(cur[Current(k)])
    /\ cur' = [cur EXCEPT ![Current(k)] = Emit(@)]
    /\ UNCHANGED <<Elsewhere, task, owner, conn, resp>>

EndProgram(k) ==
    /\ conn[k].inbox # <<>> /\ Ran(cur[Current(k)])
    /\ RunsNow(k)
    /\ \/ /\ Serving
          /\ cur' = [cur EXCEPT ![Current(k)] = Returned(@, cur[Current(k)].err)]
          /\ conn' = [conn EXCEPT ![k].inbox = Tail(@)]
       \/ /\ ~Serving
          /\ cur' = [cur EXCEPT ![Current(k)] = NoCursor]
          /\ ThreadDies(k)
    /\ UNCHANGED <<ws, code, subproto, session, sessionVars, sending, received, task, owner,
                   resp, rude, failed>>

\* Every sender is gone.
ThreadEnds(k) ==
    /\ conn[k].th = "up" /\ conn[k].inbox = <<>>
    /\ ~task[k].db
    /\ \A i \in Ids : owner[i] = k => cur[i].task \in {"none", "end"}
    /\ conn' = [conn EXCEPT ![k].th = "ended"]
    /\ UNCHANGED <<Elsewhere, task, cur, owner, resp>>

Thread(k) == RunProgram(k) \/ EmitEntry(k) \/ EndProgram(k) \/ ThreadEnds(k)

-----------------------------------------------------------------------------

handle_request(r) ==
    \/ Refuse(r) \/ OpenStream(r) \/ CloseStream(r) \/ Execute(r) \/ StoreSql(r)
    \/ CloseSql(r) \/ OpenCursorOn(r) \/ CloseCursor(r) \/ FetchCursor(r)

Client == Hello \/ RequestBeforeHello \/ BadMessage \/ Leave
          \/ \E r \in Requests : handle_request(r)

Server ==
    \/ Unblock \/ Disconnect
    \/ \E i \in Ids : SendResponse(i) \/ RunCursor(i) \/ EmitError(i)
    \/ \E k \in Ids : StreamTask(k) \/ Thread(k)

Next == Handshake \/ Client \/ Server

Spec == Init /\ [][Next]_vars

\* The server's tasks and threads do what they can.
FairSpec == Spec /\ WF_vars(Server)

-----------------------------------------------------------------------------
(* Properties *)

\* What is queued for a stream, in order.
Queued(k) ==
    (IF task[k].job = NoJob THEN <<>> ELSE <<task[k].job>>) \o task[k].queue
    \o (IF sending.k = k THEN <<sending.job>> ELSE <<>>)

\* A task that holds a cursor (at place 0) or none holds one once it has done the jobs of
\* q: there is one that no later job closes.
CursorAfter(q, held) ==
    \E p \in {i \in DOMAIN q : q[i].r.kind = "open_cursor"}
             \cup (IF held THEN {0} ELSE {}) :
        \A i \in DOMAIN q : q[i].r.kind = "close_cursor" => i < p

\* The session and the tasks agree: each open cursor id is the one its stream has (the
\* assert_eq!s of close_cursor and fetch_cursor), the stream's task is running, and once
\* it has done what is queued it holds a cursor exactly if the session thinks so.
SessionMatches ==
    /\ \A c \in DOMAIN cursors :
        cursors[c] \in DOMAIN streams /\ streams[cursors[c]].cursor_id = c
    /\ \A s \in DOMAIN streams :
        LET k == streams[s].task
        IN  /\ streams[s].cursor_id # NoId => streams[s].cursor_id \in DOMAIN cursors
            /\ task[k].st # "ended" /\ task[k].tx
            /\ task[k].db => (streams[s].cursor_id # NoId
                                <=> CursorAfter(Queued(k), task[k].hnd # 0))

\* A database connection runs the program of request i in this step.
Begins(k, i) ==
    /\ conn[k].inbox # <<>> /\ i = Current(k)
    /\ Len(conn'[k].inbox) < Len(conn[k].inbox)

\* The requests of a stream are run in the order they were received, but for the batches
\* of cursors: a cursor's task sends its program when it gets to run, and the stream's
\* task does not wait for that.
InOrder ==
    [][\A k, i \in Ids : Begins(k, i) /\ owner[i] = 0 => i > ran[k]]_vars

\* A client that leaves a stream alone while it has a cursor open has an answer to every
\* request in the end, unless the connection is closed.
Answered == <>[](ws = "closed" \/ rude \/ \A i \in Ids : resp[i] \in {"none", "sent"})

\* The connection's task waits to queue a job on a stream whose cursor the client should
\* have read first.
Stuck == rude /\ sending # NotSending

\* When the client has gone or the connection is closed, no database connection stays
\* behind, whatever a cursor or a queued program was doing. Only a task that waits for a
\* place in a stream's queue never notices that its client has gone.
Released == <>[](ws \in {"left", "closed"} => Stuck \/ \A k \in Ids : conn[k].th # "up")

\* HRANA_3_SPEC.md: "the server must process requests related to a single stream id in
\* order". It does not: the batch of a cursor may be run after that of a later request.
ProcessedInOrder == [][\A k, i \in Ids : Begins(k, i) /\ ~rude => i > ran[k]]_vars

\* HRANA_3_SPEC.md: the id of a cursor whose open_cursor returned an error is still
\* used, and a request for it must not close the connection. It does: the code does not
\* keep the id.
FailedCursorIsKnown ==
    [][\A r \in Requests :
        r.kind \in {"fetch_cursor", "close_cursor"} /\ r.cursor \in failed /\ Refuse(r)
            => resp'[received'] # "fatal"]_vars
=============================================================================
