---------------------------- MODULE MCHranaHttp ----------------------------
EXTENDS HranaHttp

One == Stmt("one", NoSqlId, "positional")
Stored(i) == Stmt(NoSql, i, "positional")
StepOf(cond, stmt) == [cond |-> cond, stmt |-> stmt]

Req(kind_) == [kind |-> kind_]
Execute(stmt) == [kind |-> "execute", stmt |-> stmt]
Sequence(stmt) == [kind |-> "sequence", stmt |-> stmt]
Store(i, sql) == [kind |-> "store_sql", sql_id |-> i, sql |-> sql]
Forget(i) == [kind |-> "close_sql", sql_id |-> i]
Pipeline(v, reqs) == [cursor |-> FALSE, ver |-> v, reqs |-> reqs]
CursorCall(steps) ==
    [cursor |-> TRUE, ver |-> 3, reqs |-> <<[kind |-> "open_cursor", batch |-> steps]>>]

Bad == Stmt("bad", NoSqlId, "positional")

MCBodies == {
    Pipeline(3, <<Execute(One)>>),
    Pipeline(2, <<Forget(1), Store(1, "one"), Store(2, "many"), Execute(Stored(1)),
                  Store(1, "one")>>),
    Pipeline(3, <<Sequence(Bad), Req("close"), Req("unknown")>>),
    CursorCall(<<StepOf(NoCond, One), StepOf(NotCond(OkCond(1)), One)>>),
    CursorCall(<<StepOf(NoCond, One), StepOf(OkCond(2), One)>>)}

MCAnswers == {Answer("ok", "ok"), Answer("other", "ok")}

\* The thread has two entries to emit, the second of which may find the channel full.
MCRuns == {[steps |-> <<Outcome(TRUE, 0, "ok"), Outcome(FALSE, 0, "skipped")>>,
            err |-> "batch"]}
=============================================================================
