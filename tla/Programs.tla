------------------------------ MODULE Programs ------------------------------
(***************************************************************************)
(* Programs: sequences of SQL statements with conditions, as clients send  *)
(* them and connections run them (connection/program.rs, query_analysis.rs,*)
(* connection/libsql.rs). A statement is what it does to a transaction.    *)
(***************************************************************************)
EXTENDS Sequences, Naturals

\* "bad" is a write that fails, for instance on a constraint.
Statements == {"begin", "commit", "rollback", "read", "write", "bad", "other"}

\* StmtKind::kind
kind(stmt) ==
    CASE stmt = "begin"                  -> "TxnBegin"
      [] stmt \in {"commit", "rollback"} -> "TxnEnd"
      [] stmt = "read"                   -> "Read"
      [] stmt \in {"write", "bad"}       -> "Write"
      [] stmt = "other"                  -> "Other"

\* Cond; "none" stands for a step without one. Steps are numbered from 1.
NoCond == [op |-> "none"]
OkCond(i) == [op |-> "ok", step |-> i]
ErrCond(i) == [op |-> "err", step |-> i]
NotCond(c) == [op |-> "not", conds |-> <<c>>]
AndCond(cs) == [op |-> "and", conds |-> cs]
OrCond(cs) == [op |-> "or", conds |-> cs]
AutocommitCond == [op |-> "autocommit"]

Step(cond, stmt) == [cond |-> cond, stmt |-> stmt]

\* make_batch_program: a step runs when the one before it succeeded.
make_batch_program(stmts) ==
    [i \in DOMAIN stmts |->
        Step(IF i > 1 THEN OkCond(i - 1) ELSE NoCond, stmts[i])]

\* execute_batch_or_rollback
BatchOrRollback(stmts) ==
    Append(make_batch_program(stmts),
           Step(NotCond(OkCond(Len(stmts))), "rollback"))

\* Connection::rollback
RollbackProgram == make_batch_program(<<"rollback">>)

\* Conditions nest at most twice.
Parts(cs) ==
    cs \cup UNION {{c.conds[i] : i \in DOMAIN c.conds} :
                       c \in {d \in cs : d.op \in {"not", "and", "or"}}}

\* eval_cond: "yes", "no", or "error" where a condition names a step that has not
\* run yet (Error::InvalidBatchStep).
eval_cond(cond, results, autocommit) ==
    LET truth(b) == IF b THEN "yes" ELSE "no"
        ev[c \in Parts(Parts({cond}))] ==
            LET parts == IF c.op \in {"not", "and", "or"}
                         THEN {ev[c.conds[i]] : i \in DOMAIN c.conds} ELSE {}
            IN  CASE c.op = "none" -> "yes"
                  [] c.op = "autocommit" -> truth(autocommit)
                  [] c.op \in {"ok", "err"} ->
                        IF c.step \notin DOMAIN results THEN "error"
                        ELSE truth(results[c.step] = (c.op = "ok"))
                  [] "error" \in parts -> "error"
                  [] c.op = "not" -> truth("no" \in parts)
                  [] c.op = "and" -> truth("no" \notin parts)
                  [] c.op = "or" -> truth("yes" \in parts)
    IN  ev[cond]

\* Program::is_read_only
is_read_only(pgm) ==
    \A i \in DOMAIN pgm : kind(pgm[i].stmt) \in {"Read", "TxnBegin", "TxnEnd"}

\* check_program_auth, for the three kinds of clients
Authorized(auth, pgm) ==
    \A i \in DOMAIN pgm :
        CASE auth = "anonymous" -> FALSE
          [] auth = "readonly" -> kind(pgm[i].stmt) \in {"Read", "TxnBegin", "TxnEnd"}
          [] auth = "full" -> TRUE

\* Mutant: a database with blocked reads refuses everything.
MutBlockedAll(config, stmt) ==
    \/ config = "block_reads"
    \/ kind(stmt) = "Write" /\ config = "block_writes"

\* execute_query: what DatabaseConfig stops.
Blocked(config, stmt) ==
    CASE kind(stmt) \in {"Read", "TxnBegin", "Other"} -> config = "block_reads"
      [] kind(stmt) = "Write" -> config \in {"block_reads", "block_writes"}
      [] kind(stmt) = "TxnEnd" -> FALSE
=============================================================================
