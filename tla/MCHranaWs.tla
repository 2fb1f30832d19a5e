----------------------------- MODULE MCHranaWs -----------------------------
EXTENDS HranaWs

One == Stmt("one", NoSqlId, "positional")
Stored(i) == Stmt(NoSql, i, "positional")

On(s, k) == [kind |-> k, stream |-> s]
ExecuteOn(s, stmt) == [kind |-> "execute", stream |-> s, stmt |-> stmt]
SequenceOn(s, stmt) == [kind |-> "sequence", stream |-> s, stmt |-> stmt]
Cursor(s, c, stmt) ==
    [kind |-> "open_cursor", stream |-> s, cursor |-> c,
     batch |-> <<[cond |-> NoCond, stmt |-> stmt]>>]
Fetch(c, max) == [kind |-> "fetch_cursor", stream |-> NoId, cursor |-> c, max |-> max]
CloseCur(c) == [kind |-> "close_cursor", stream |-> NoId, cursor |-> c]
Store(i, sql) == [kind |-> "store_sql", stream |-> NoId, sql_id |-> i, sql |-> sql]
Forget(i) == [kind |-> "close_sql", stream |-> NoId, sql_id |-> i]

MCRequests == {
    On(1, "open_stream"), On(1, "close_stream"), ExecuteOn(1, One),
    Cursor(1, 1, One), Cursor(1, 1, Stored(1)), Fetch(1, 0), Fetch(1, 2), CloseCur(1),
    Store(1, "one"), Forget(1)}

MCOffers == {NoHeader, {"hrana2", "hrana3-protobuf"}, {"other"}}

MCAnswers == {Answer("ok", "ok")}

\* The thread has two entries to emit, the second of which may find the channel full.
MCRuns == {[steps |-> <<Outcome(FALSE, 0, "stmt"), Outcome(FALSE, 0, "internal")>>,
            err |-> "batch"]}
=============================================================================
