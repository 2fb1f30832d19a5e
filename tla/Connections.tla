----------------------------- MODULE Connections -----------------------------
(***************************************************************************)
(* The connections to a database and the threads that serve them           *)
(* (connection/libsql.rs). A LibSqlConnection is a channel to a blocking   *)
(* thread that owns the SQLite connection, runs one program at a time, and *)
(* rolls a transaction back when nobody has spoken to it for TXN_TIMEOUT.  *)
(*                                                                         *)
(* Each client has two: a "remote" one on the primary and a "local" one on *)
(* its replica. SQLite is external: snapshots for readers, one writer, a   *)
(* statement that finds the write lock taken fails after busy_timeout.     *)
(* Every committed transaction is one frame of the log.                    *)
(***************************************************************************)
EXTENDS Programs, Integers

CONSTANTS
    Clients,
    Programs,        \* what clients send
    Auths            \* what they are allowed: "anonymous", "readonly" or "full"

\* A program is a sequence of steps, each with a statement of a kind we know.
ASSUME ProgramsAssumption ==
    \A p \in Programs :
        /\ Len(p) \in Nat /\ DOMAIN p = 1..Len(p)
        /\ \A i \in DOMAIN p : p[i].stmt \in Statements

Conns == {"local", "remote"} \X Clients
NoConn == <<"none", "none">>

VARIABLES
    log,             \* the connection that committed each frame of the primary
    replica,         \* how many of these frames the replica's database has
    writer,          \* the connection that holds the primary's write lock
    config,          \* the DatabaseConfigStore of either side
    conn,            \* the Connection records
    inbox,           \* the callbacks sent to each thread: [pgm, rcv], where rcv
                     \* says that someone still waits for the result
    out              \* the result on its way to the caller

connVars == <<log, replica, writer, config, conn, inbox, out>>

NoSnapshot == -1
NoResult == [ok |-> FALSE, state |-> "None"]
Failed == [ok |-> FALSE, state |-> "Failed"]

\* Connection::new, and the thread around it.
NewConn(th) ==
    [th |-> th,              \* "none", "idle", "run" or "dead"
     autocommit |-> TRUE,
     snapshot |-> NoSnapshot, \* SQLite: the version a transaction reads
     wrote |-> FALSE,        \* SQLite: the transaction has written
     deadline |-> FALSE,     \* timeout_deadline is set
     timed_out |-> FALSE,
     before |-> TRUE,        \* is_autocommit_before
     results |-> <<>>]       \* of the steps run so far

-----------------------------------------------------------------------------
(* SQLite *)

\* The newest version a connection can read.
Version(k) == IF k[1] = "local" THEN replica ELSE Len(log)

\* The version the next read of a connection returns.
ReadVersion(k) ==
    IF conn[k].snapshot = NoSnapshot THEN Version(k) ELSE conn[k].snapshot

\* The connection once its transaction has ended.
Ended(r) == [r EXCEPT !.autocommit = TRUE, !.snapshot = NoSnapshot, !.wrote = FALSE]

Release(k) == writer' = IF writer = k THEN NoConn ELSE writer

Busy(k) == writer \notin {NoConn, k}

\* SQLITE_BUSY_SNAPSHOT: someone has committed since the transaction's first read.
StaleSnapshot(k) ==
    conn[k].snapshot # NoSnapshot /\ conn[k].snapshot < Len(log)

Runs(k, stmt) ==
    CASE stmt = "begin" -> conn[k].autocommit
      [] stmt \in {"commit", "rollback"} -> ~conn[k].autocommit
      [] stmt = "write" -> ~Busy(k) /\ ~StaleSnapshot(k)
      [] stmt = "bad" -> FALSE
      [] stmt \in {"read", "other"} -> TRUE

\* A statement that succeeds.
Effect(k, stmt) ==
    LET r == conn[k]
        append == log' = Append(log, k)
        done(new) == conn' = [conn EXCEPT ![k] = [new EXCEPT !.results = Append(@, TRUE)]]
    IN  CASE stmt = "begin" ->
                done([r EXCEPT !.autocommit = FALSE]) /\ UNCHANGED <<log, writer>>
          [] stmt = "read" ->
                /\ done(IF r.autocommit THEN r
                        ELSE [r EXCEPT !.snapshot = ReadVersion(k)])
                /\ UNCHANGED <<log, writer>>
          [] stmt = "write" /\ r.autocommit ->
                done(r) /\ append /\ UNCHANGED writer
          [] stmt = "write" /\ ~r.autocommit ->
                /\ done([r EXCEPT !.snapshot = ReadVersion(k), !.wrote = TRUE])
                /\ writer' = k
                /\ UNCHANGED log
          [] stmt = "commit" ->
                /\ done(Ended(r))
                /\ IF r.wrote THEN append ELSE UNCHANGED log
                /\ Release(k)
          [] stmt = "rollback" ->
                done(Ended(r)) /\ Release(k) /\ UNCHANGED log
          [] stmt = "other" ->
                done(r) /\ UNCHANGED <<log, writer>>

-----------------------------------------------------------------------------
(* The thread *)

Current(k) == Head(inbox[k]).pgm
NextStep(k) == Current(k)[Len(conn[k].results) + 1]
Running(k) == conn[k].th = "run" /\ Len(conn[k].results) < Len(Current(k))
Enabled(k) ==
    eval_cond(NextStep(k).cond, conn[k].results, conn[k].autocommit) = "yes"

\* The thread is gone: SQLite closes the connection and rolls back, callbacks
\* that were queued are dropped and whoever waits for one gets an error.
Close(k, r, th) ==
    /\ conn' = [conn EXCEPT ![k] = [Ended(r) EXCEPT !.th = th, !.results = <<>>]]
    /\ Release(k)
    /\ inbox' = [inbox EXCEPT ![k] = <<>>]

\* resp.send(res): the thread ends when nobody waits for the result.
Respond(k, r, result) ==
    IF Head(inbox[k]).rcv
    THEN /\ conn' = [conn EXCEPT ![k] = [r EXCEPT !.th = "idle", !.results = <<>>]]
         /\ inbox' = [inbox EXCEPT ![k] = Tail(@)]
         /\ out' = [out EXCEPT ![k] = result]
         /\ UNCHANGED writer
    ELSE /\ Close(k, r, "dead")
         /\ out' = IF Len(inbox[k]) > 1 /\ inbox[k][Len(inbox[k])].rcv
                   THEN [out EXCEPT ![k] = Failed] ELSE out

\* sender.send(cb); a thread that has ended drops the callback.
Send(k, pgm) ==
    IF conn[k].th = "dead"
    THEN out' = [out EXCEPT ![k] = Failed] /\ UNCHANGED inbox
    ELSE inbox' = [inbox EXCEPT ![k] = Append(@, [pgm |-> pgm, rcv |-> TRUE])]
         /\ UNCHANGED out

\* receiver.recv or recv_deadline returns a callback; run begins.
Receive(k) ==
    /\ conn[k].th = "idle" /\ inbox[k] # <<>> /\ ~conn[k].timed_out
    /\ conn' = [conn EXCEPT ![k].th = "run", ![k].before = conn[k].autocommit]
    /\ UNCHANGED <<log, replica, writer, config, inbox, out>>

\* The callback gets Err(LibSqlTxTimeout), this time and ever after.
ReceiveTimedOut(k) ==
    /\ conn[k].th = "idle" /\ inbox[k] # <<>> /\ conn[k].timed_out
    /\ Respond(k, conn[k], Failed)
    /\ UNCHANGED <<log, replica, config>>

\* Mutant: a connection that timed out stays in use.
MutTimeoutForgotten(k) ==
    /\ conn[k].th = "idle" /\ inbox[k] = <<>> /\ conn[k].deadline
    /\ conn' = [conn EXCEPT ![k] = [Ended(@) EXCEPT !.deadline = FALSE]]
    /\ Release(k)
    /\ UNCHANGED <<log, replica, config, inbox, out>>

\* Mutant: the transaction is not rolled back.
MutTimeoutKeeps(k) ==
    /\ conn[k].th = "idle" /\ inbox[k] = <<>> /\ conn[k].deadline
    /\ conn' = [conn EXCEPT ![k] = [@ EXCEPT !.timed_out = TRUE, !.deadline = FALSE]]
    /\ UNCHANGED <<log, replica, writer, config, inbox, out>>

\* RecvTimeoutError::Timeout. A callback that is there is taken first.
Timeout(k) ==
    /\ conn[k].th = "idle" /\ inbox[k] = <<>> /\ conn[k].deadline
    /\ conn' = [conn EXCEPT ![k] = [Ended(@) EXCEPT !.timed_out = TRUE,
                                                    !.deadline = FALSE]]
    /\ Release(k)
    /\ UNCHANGED <<log, replica, config, inbox, out>>

\* execute_step with a condition that is false, or cannot be evaluated, and
\* execute_query on a statement that is blocked.
StepSkipped(k) ==
    /\ Running(k)
    /\ ~Enabled(k) \/ Blocked(config[k[1]], NextStep(k).stmt)
    /\ conn' = [conn EXCEPT ![k].results = Append(@, FALSE)]
    /\ UNCHANGED <<log, replica, writer, config, inbox, out>>

StepRuns(k) ==
    /\ Running(k) /\ Enabled(k) /\ ~Blocked(config[k[1]], NextStep(k).stmt)
    /\ Runs(k, NextStep(k).stmt)
    /\ Effect(k, NextStep(k).stmt)
    /\ UNCHANGED <<replica, config, inbox, out>>

\* SQLite returns an error (for a write lock that is taken, after busy_timeout);
\* the transaction stays as it is.
StepFails(k) ==
    /\ Running(k) /\ Enabled(k) /\ ~Blocked(config[k[1]], NextStep(k).stmt)
    /\ ~Runs(k, NextStep(k).stmt)
    /\ conn' = [conn EXCEPT ![k].results = Append(@, FALSE)]
    /\ UNCHANGED <<log, replica, writer, config, inbox, out>>

\* A result that is too large: Error::BuilderError leaves run at once.
StepTooLarge(k) ==
    /\ Running(k) /\ Enabled(k) /\ ~Blocked(config[k[1]], NextStep(k).stmt)
    /\ NextStep(k).stmt = "read"
    /\ Respond(k, [conn[k] EXCEPT !.snapshot = IF conn[k].autocommit THEN @
                                               ELSE ReadVersion(k)], Failed)
    /\ UNCHANGED <<log, replica, config>>

\* Mutant: only a transaction that was open before the program gets a deadline.
MutFinishLate(k) ==
    /\ conn[k].th = "run" /\ Len(conn[k].results) = Len(Current(k))
    /\ LET open == ~conn[k].autocommit
           r == [conn[k] EXCEPT !.deadline = (~conn[k].before /\ open) \/ @]
       IN  Respond(k, r, [ok |-> TRUE, state |-> IF open THEN "Txn" ELSE "Init"])
    /\ UNCHANGED <<log, replica, config>>

\* The end of run: a transaction that was opened gets a deadline.
Finish(k) ==
    /\ conn[k].th = "run" /\ Len(conn[k].results) = Len(Current(k))
    /\ LET open == ~conn[k].autocommit
           r == [conn[k] EXCEPT !.deadline = (conn[k].before /\ open) \/ @]
       IN  Respond(k, r, [ok |-> TRUE, state |-> IF open THEN "Txn" ELSE "Init"])
    /\ UNCHANGED <<log, replica, config>>

\* RecvTimeoutError::Disconnected: every sender was dropped.
Disconnected(k) ==
    /\ conn[k].th = "idle" /\ inbox[k] = <<>>
    /\ Close(k, conn[k], "none")
    /\ UNCHANGED <<log, replica, config, out>>

Thread(k) ==
    \/ Receive(k) \/ ReceiveTimedOut(k) \/ Timeout(k)
    \/ StepSkipped(k) \/ StepRuns(k) \/ StepFails(k) \/ Finish(k)
=============================================================================
