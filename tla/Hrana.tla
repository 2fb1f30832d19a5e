-------------------------------- MODULE Hrana --------------------------------
(***************************************************************************)
(* What the two Hrana servers (hrana/http, hrana/ws) share: how a request  *)
(* becomes a program for the connection, and how the connection's answer   *)
(* becomes a response (hrana/stmt.rs, hrana/batch.rs, hrana/cursor.rs).    *)
(*                                                                         *)
(* A SQL text is what Statement::parse makes of it: "one" statement,       *)
(* "many", "none", or "bad" where it does not parse. Errors are their      *)
(* class: "stmt" and "batch" can be sent to the client as the result of a  *)
(* request, "protocol" and "internal" cannot.                              *)
(***************************************************************************)
EXTENDS Programs, SequencesExt

SqlTexts == {"one", "many", "none", "bad"}
NoSql == "absent"
NoSqlId == 0

Versions == 1..3          \* Version::Hrana1, Hrana2, Hrana3

\* HashMap::insert and HashMap::remove
With(f, x, v) == [y \in DOMAIN f \cup {x} |-> IF y = x THEN v ELSE f[y]]
Without(f, x) == [y \in DOMAIN f \ {x} |-> f[y]]

\* A statement of a request: [sql, sql_id, args]; args are "positional" (or
\* none), "named", "both", or "unknown" where a value has an unknown type.
Stmt(sql, id, args) == [sql |-> sql, sql_id |-> id, args |-> args]

Ok(sql) == [err |-> "ok", sql |-> sql]
Err(e) == [err |-> e, sql |-> NoSql]

\* The first error of a sequence of results, "ok" if there is none.
FirstError(errs) ==
    LET bad == SelectSeq(errs, LAMBDA e : e # "ok")
    IN  IF bad = <<>> THEN "ok" ELSE Head(bad)

\* proto_sql_to_sql; the SQL texts that are stored are a function of their ids.
proto_sql_to_sql(r, sqls, version) ==
    CASE r.sql_id # NoSqlId /\ version < 2 -> Err("protocol")
      [] r.sql # NoSql /\ r.sql_id = NoSqlId -> Ok(r.sql)
      [] r.sql = NoSql /\ r.sql_id \in DOMAIN sqls -> Ok(sqls[r.sql_id])
      [] OTHER -> Err("protocol")

\* proto_stmt_to_query: exactly one statement, arguments of one kind.
proto_stmt_to_query(stmt, sqls, version) ==
    LET sql == proto_sql_to_sql(stmt, sqls, version)
    IN  CASE sql.err # "ok" -> sql.err
          [] sql.sql # "one" -> "stmt"
          [] stmt.args = "unknown" -> "protocol"
          [] stmt.args = "both" -> "stmt"
          [] OTHER -> "ok"

\* proto_cond_to_cond for the step with index i, counted from 1: a condition may
\* only name earlier steps.
proto_cond_to_cond(cond, version, i) ==
    LET valid(c) == CASE c.op \in {"ok", "err"} -> c.step < i
                      [] c.op = "autocommit" -> version >= 3
                      [] c.op = "unknown" -> FALSE
                      [] OTHER -> TRUE
    IN  IF \A c \in Parts(Parts({cond})) : valid(c) THEN "ok" ELSE "protocol"

\* proto_batch_to_program: the steps in order, the statement before the condition.
proto_batch_to_program(batch, sqls, version) ==
    FirstError([i \in DOMAIN batch |->
        FirstError(<<proto_stmt_to_query(batch[i].stmt, sqls, version),
                     proto_cond_to_cond(batch[i].cond, version, i)>>)])

\* proto_sequence_to_program
proto_sequence_to_program(r, sqls, version) ==
    LET sql == proto_sql_to_sql(r, sqls, version)
    IN  CASE sql.err # "ok" -> sql.err
          [] sql.sql = "bad" -> "stmt"
          [] OTHER -> "ok"

-----------------------------------------------------------------------------
(* The connection's answer: [pgm, step], the error of the program as a whole *)
(* and the error of its first step that failed.                              *)

SqldErrors == {"timeout", "busy", "too_large", "sqlite", "other"}
Answer(pgm, step) == [pgm |-> pgm, step |-> step]

\* stmt_error_from_sqld_error
stmt_error_from_sqld_error(e) == IF e = "other" THEN "internal" ELSE "stmt"

\* batch_error_from_sqld_error
batch_error_from_sqld_error(e) ==
    IF e \in {"timeout", "busy", "too_large"} THEN "batch" ELSE "internal"

\* execute_stmt: an error of the statement is the error of the request.
execute_stmt(a) ==
    CASE a.pgm # "ok" -> stmt_error_from_sqld_error(a.pgm)
      [] a.step # "ok" -> stmt_error_from_sqld_error(a.step)
      [] OTHER -> "ok"

\* describe_stmt
describe_stmt(a) == execute_stmt(a)

\* execute_batch: the errors of the steps are part of the result.
execute_batch(a) == IF a.pgm = "ok" THEN "ok" ELSE batch_error_from_sqld_error(a.pgm)

\* execute_sequence
execute_sequence(a) ==
    CASE a.pgm # "ok" -> batch_error_from_sqld_error(a.pgm)
      [] a.step # "ok" -> stmt_error_from_sqld_error(a.step)
      [] OTHER -> "ok"

\* is_autocommit fails only when the connection's thread is gone.
get_autocommit(a) == IF a.pgm = "other" THEN "internal" ELSE "ok"

\* What a request that runs on the connection returns.
Response(k, a) ==
    CASE k = "execute" -> execute_stmt(a)
      [] k = "batch" -> execute_batch(a)
      [] k = "sequence" -> execute_sequence(a)
      [] k = "describe" -> describe_stmt(a)
      [] k = "get_autocommit" -> get_autocommit(a)

OnConnection == {"execute", "batch", "sequence", "describe", "get_autocommit"}

\* How a request that runs on the connection is converted before it is sent.
Convert(r, sqls, version) ==
    CASE r.kind = "execute" -> proto_stmt_to_query(r.stmt, sqls, version)
      [] r.kind \in {"batch", "open_cursor"} ->
            proto_batch_to_program(r.batch, sqls, version)
      [] r.kind = "sequence" -> proto_sequence_to_program(r.stmt, sqls, version)
      [] r.kind = "describe" -> proto_sql_to_sql(r.stmt, sqls, version).err
      [] r.kind = "get_autocommit" -> IF version < 3 THEN "protocol" ELSE "ok"

-----------------------------------------------------------------------------
(* Cursors: a task that runs a batch and hands its entries over one by one.   *)

\* What a step did: whether its columns were described, how many rows it returned,
\* and how it ended: "ok", "skipped", or with an error of the class "stmt" or
\* "internal".
Outcome(cols, rows, res) == [cols |-> cols, rows |-> rows, res |-> res]

\* CursorResultBuilder: the entries of step i, from begin_step to finish_step.
StepEntries(i, o) ==
    LET entry(type) == <<[type |-> type, step |-> i]>>
        opt(b, es) == IF b THEN es ELSE <<>>
    IN  opt(o.cols, entry("step_begin"))
        \o FoldLeft(LAMBDA es, k : es \o entry("row"), <<>>,
                    [k \in 1..(IF o.cols THEN o.rows ELSE 0) |-> k])
        \o opt(o.res = "stmt", entry("step_error"))
        \o opt(o.res = "internal", entry("fatal"))
        \o opt(o.cols /\ o.res # "stmt", entry("step_end"))

\* The entries of the steps of a run, and the one run_cursor adds when the program failed
\* as a whole: an error of the batch is an entry, any other ends the response.
Entries(run) == FlattenSeq([i \in DOMAIN run |-> StepEntries(i, run[i])])
Final(err) ==
    CASE err = "ok" -> <<>>
      [] err = "batch" -> <<[type |-> "error", step |-> 0]>>
      [] err = "internal" -> <<[type |-> "fatal", step |-> 0]>>

\* A cursor as CursorHandle and run_cursor share it: `task` is "open" before the task
\* has sent its program to the connection, "run" while the connection has it, "failed"
\* while an error of the whole program waits to be sent, "end" when entry_tx is gone.
\* `chan` is the channel of capacity 1, `left` what the program will still emit, and
\* `rx` says that entry_rx has an owner.
NoCursor == [task |-> "none", chan |-> <<>>, left |-> <<>>, err |-> "ok", rx |-> FALSE]

\* CursorHandle::spawn and open, for a program that will emit es and end with err.
OpenCursor(es, err) ==
    [task |-> "open", chan |-> <<>>, left |-> es, err |-> err, rx |-> TRUE]

\* emit_entry: blocking_send waits while the channel is full; once the receiver is
\* gone it fails, and the program goes on.
CanEmit(c) == c.task = "run" /\ c.left # <<>> /\ (c.chan = <<>> \/ ~c.rx)
Emit(c) == [c EXCEPT !.left = Tail(@), !.chan = IF c.rx THEN <<Head(c.left)>> ELSE <<>>]

\* The connection is done with the program: execute_program returns in run_cursor.
Ran(c) == c.task = "run" /\ c.left = <<>>
Returned(c, err) ==
    [c EXCEPT !.task = IF err = "ok" THEN "end" ELSE "failed", !.err = err, !.left = <<>>]

\* Mutant: the error does not wait until the channel is empty.
MutCanFail(c) == c.task = "failed"

\* run_cursor sends the error.
CanFail(c) == c.task = "failed" /\ (c.chan = <<>> \/ ~c.rx)
Fail(c) == [c EXCEPT !.task = "end", !.chan = IF c.rx THEN Final(c.err) ELSE <<>>]

\* CursorHandle::fetch and poll_fetch: an entry, or the end once the sender is gone.
CanFetch(c) == c.chan # <<>>
Fetched(c) == [c EXCEPT !.chan = <<>>]
AtEnd(c) == c.task = "end" /\ c.chan = <<>>

\* The CursorHandle is dropped.
Unread(c) == [c EXCEPT !.rx = FALSE, !.chan = <<>>]
=============================================================================
