---------------------------- MODULE MCWriteProxy ----------------------------
EXTENDS WriteProxy

\* A batch as hrana clients send it: a transaction, rolled back if it is not committed.
TxnBatch ==
    << Step(NoCond, "begin"),
       Step(OkCond(1), "write"),
       Step(OkCond(2), "commit"),
       Step(AndCond(<<OrCond(<<ErrCond(2), ErrCond(3)>>), NotCond(AutocommitCond)>>),
            "rollback") >>

\* A transaction in three programs, the first of which only reads and the second of
\* which rolls back when it fails; or a read, a write or a whole transaction.
MCPrograms ==
    {make_batch_program(s) : s \in {<<"begin", "read">>, <<"commit">>, <<"read">>}}
    \cup {BatchOrRollback(<<"write">>), TxnBatch}

\* Programs that meet at the locks; the result of the read may be too large.
MCWrites == {make_batch_program(s) : s \in {<<"begin", "write", "read">>, <<"commit">>}}
=============================================================================
