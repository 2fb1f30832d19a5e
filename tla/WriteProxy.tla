----------------------------- MODULE WriteProxy -----------------------------
(***************************************************************************)
(* Clients of a replica. A WriteProxyConnection (connection/write_proxy.rs)*)
(* runs what only reads on the replica, once the replica has caught up     *)
(* with the client's own writes, and sends everything else to the primary, *)
(* where ProxyService (rpc/proxy.rs) keeps a connection per client.        *)
(*                                                                         *)
(* A client is one WriteProxyConnection; its mutex `state' admits one call *)
(* at a time. pc[c] is where that call is:                                 *)
(*   sync          wait_replication_sync                                   *)
(*   local, undo   the program, then the rollback, on the replica          *)
(*   rpc           execute_remote, up to the lock on ProxyService.clients  *)
(*   create        the lock is held, the connection is being made          *)
(*   remote        the program is with the connection's thread             *)
(*   reply         the response is on its way back                         *)
(*   drop, gone    the connection was dropped, the primary was told        *)
(***************************************************************************)
EXTENDS Connections, FiniteSetsExt

CONSTANTS
    MaxConns,        \* MAX_CONCURRENT_DBS
    MaxTaken,        \* bound on the permits that other clients may hold
    MaxCalls,        \* bound on the calls of all clients
    MaxOthers,       \* bound on transactions of other clients of the primary
    MaxEvents,       \* bound on broken connections, lost messages, tasks that end,
                     \* restarts of the primary and changes of the configuration
    FreshReplica     \* the replica has not applied a frame since it started

ASSUME ProxyAssumption ==
    /\ {MaxCalls, MaxOthers, MaxEvents} \subseteq Nat
    /\ {MaxConns, MaxTaken} \subseteq Nat /\ MaxTaken <= MaxConns
    /\ FreshReplica \in BOOLEAN
    /\ Auths \subseteq {"anonymous", "readonly", "full"}

VARIABLES
    \* the replica
    pc, call,        \* the call of each client: [pgm, auth]
    state,           \* WriteProxyConnection.state
    last_write,      \* last_write_frame_no
    applied,         \* applied_frame_no_receiver
    replicating,     \* the sender of `applied' exists
    acked,           \* history: the client's newest frame when it was last told
    \* the primary
    known,           \* the keys of ProxyService.clients
    lock,            \* the client whose call holds the lock on it
    taken,           \* permits held by connections of other clients
    reply,           \* the response of execute: [ok, state, frame_no]
    \* bounds
    calls, others, events,
    restarted        \* history: the primary has restarted

viewVars == <<last_write, applied, replicating, acked>>
proxyVars == <<pc, call, state, viewVars>>
serviceVars == <<known, lock, taken, reply>>
boundVars == <<calls, others, events, restarted>>
vars == <<connVars, proxyVars, serviceVars, boundVars>>

NoClient == "none"
Configs == {"none", "block_reads", "block_writes"}   \* DatabaseConfig
NoReply == [ok |-> FALSE, state |-> "None", frame_no |-> 0]
FrameNoMax == 999        \* FrameNo::MAX
Local(c) == <<"local", c>>
Remote(c) == <<"remote", c>>

NoCall == [pgm |-> <<>>, auth |-> "full"]

Goto(c, label) == pc' = [pc EXCEPT ![c] = label] /\ UNCHANGED call
Return(c) == pc' = [pc EXCEPT ![c] = "idle"] /\ call' = [call EXCEPT ![c] = NoCall]
Permitted(c) == Authorized(call[c].auth, call[c].pgm)
Take(k) == out' = [out EXCEPT ![k] = NoResult]

-----------------------------------------------------------------------------
(* WriteProxyConnection *)

\* execute_program, up to the first await
Execute(c) ==
    /\ pc[c] = "idle" /\ calls < MaxCalls
    /\ \E p \in Programs, a \in Auths :
        /\ call' = [call EXCEPT ![c] = [pgm |-> p, auth |-> a]]
        /\ pc' = [pc EXCEPT ![c] =
                     IF state[c] = "Init" /\ is_read_only(p) THEN "sync" ELSE "rpc"]
    /\ calls' = calls + 1
    /\ UNCHANGED <<connVars, serviceVars, state, viewVars,
                   others, events, restarted>>

CaughtUp(c) == last_write[c] = FrameNoMax \/ applied >= last_write[c]

\* wait_replication_sync returns; read_conn.execute_program.
SyncDone(c) ==
    /\ pc[c] = "sync" /\ CaughtUp(c)
    /\ IF Permitted(c)
       THEN Goto(c, "local") /\ Send(Local(c), call[c].pgm)
       ELSE Return(c) /\ UNCHANGED <<inbox, out>>
    /\ UNCHANGED <<log, replica, writer, config, conn, serviceVars, boundVars,
                   state, viewVars>>

\* receiver.changed() fails: Error::ReplicatorExited.
SyncFails(c) ==
    /\ pc[c] = "sync" /\ ~CaughtUp(c) /\ ~replicating
    /\ Return(c)
    /\ UNCHANGED <<connVars, serviceVars, boundVars, state, viewVars>>

\* The program has run on the replica; if it left a transaction open, it is rolled
\* back to be run on the primary.
LocalDone(c) ==
    /\ pc[c] = "local" /\ out[Local(c)] # NoResult
    /\ IF out[Local(c)].state = "Txn"
       THEN /\ Goto(c, "undo")
            /\ inbox' = [inbox EXCEPT ![Local(c)] =
                             Append(@, [pgm |-> RollbackProgram, rcv |-> TRUE])]
       ELSE Return(c) /\ UNCHANGED inbox
    /\ Take(Local(c))
    /\ UNCHANGED <<log, replica, writer, config, conn, serviceVars, boundVars,
                   state, viewVars>>

LocalUndone(c) ==
    /\ pc[c] = "undo" /\ out[Local(c)] # NoResult
    /\ IF out[Local(c)].ok THEN Goto(c, "rpc") ELSE Return(c)
    /\ Take(Local(c))
    /\ UNCHANGED <<log, replica, writer, config, conn, inbox, serviceVars, boundVars,
                   state, viewVars>>

\* The newest frame that the client has committed.
Newest(c) ==
    Max({0} \cup {i \in DOMAIN log : log[i] = Remote(c)})

\* Mutant: the comparison is the wrong way round.
MutOldestWrite(c, new) ==
    last_write' = IF last_write[c] = FrameNoMax \/ new < last_write[c]
                  THEN [last_write EXCEPT ![c] = new] ELSE last_write

update_last_write_frame_no(c, new) ==
    last_write' = IF last_write[c] = FrameNoMax \/ new > last_write[c]
                  THEN [last_write EXCEPT ![c] = new] ELSE last_write

\* execute_remote gets an answer.
ReplyOk(c) ==
    /\ pc[c] = "reply" /\ reply[c].ok
    /\ state' = [state EXCEPT ![c] = reply[c].state]
    /\ update_last_write_frame_no(c, reply[c].frame_no)
    /\ acked' = [acked EXCEPT ![c] = Newest(c)]
    /\ reply' = [reply EXCEPT ![c] = NoReply]
    /\ Return(c)
    /\ UNCHANGED <<connVars, boundVars, applied, replicating, known, lock, taken>>

\* Mutant: the state is only stored once the results have been read.
MutStateLate(c) ==
    /\ pc[c] = "reply" /\ reply[c].ok
    /\ \E i \in DOMAIN call[c].pgm : call[c].pgm[i].stmt = "read"
    /\ reply' = [reply EXCEPT ![c] = NoReply]
    /\ Return(c)
    /\ UNCHANGED <<connVars, boundVars, state, viewVars, known, lock, taken>>

\* execute_results_to_builder fails: the response is too large for the replica.
ReplyTooLarge(c) ==
    /\ pc[c] = "reply" /\ reply[c].ok
    /\ \E i \in DOMAIN call[c].pgm : call[c].pgm[i].stmt = "read"
    /\ state' = [state EXCEPT ![c] = reply[c].state]
    /\ reply' = [reply EXCEPT ![c] = NoReply]
    /\ Return(c)
    /\ UNCHANGED <<connVars, boundVars, viewVars,
                   known, lock, taken>>

\* execute_remote gets an error: from the primary, ...
ReplyError(c) ==
    /\ pc[c] = "reply" /\ ~reply[c].ok
    /\ state' = [state EXCEPT ![c] = "Invalid"]
    /\ Return(c)
    /\ UNCHANGED <<connVars, boundVars, viewVars,
                   serviceVars>>

Unlock(c) == lock' = IF lock = c THEN NoClient ELSE lock

\* The future of `execute' on the primary is dropped. The program it sent to the
\* connection's thread runs all the same, but nobody takes its result.
DropHandler(c) ==
    LET k == Remote(c)
    IN  /\ Unlock(c)
        /\ Take(k)
        /\ inbox' = IF pc[c] = "remote" /\ out[k] = NoResult
                    THEN [inbox EXCEPT ![k][Len(inbox[k])].rcv = FALSE] ELSE inbox
        /\ reply' = [reply EXCEPT ![c] = NoReply]

\* ... or because the connection breaks while the call is under way.
Break(c) ==
    /\ pc[c] \in {"rpc", "create", "remote", "reply"} /\ events < MaxEvents
    /\ DropHandler(c)
    /\ state' = [state EXCEPT ![c] = "Invalid"]
    /\ Return(c)
    /\ events' = events + 1
    /\ UNCHANGED <<log, replica, writer, config, conn, viewVars, known, taken, calls, others, restarted>>

\* Drop: the replica's connection closes, a task tells the primary.
Drop(c) ==
    /\ pc[c] = "idle"
    /\ Goto(c, "drop")
    /\ UNCHANGED <<connVars, serviceVars, boundVars, state, viewVars>>

-----------------------------------------------------------------------------
(* ProxyService on the primary *)

\* db.execute_program
RunRemote(c) ==
    IF Permitted(c)
    THEN Goto(c, "remote") /\ Send(Remote(c), call[c].pgm)
    ELSE Goto(c, "reply") /\ UNCHANGED <<inbox, out>>

\* execute, for a client that has a connection: the guard `lock' lives until the
\* end of the function.
RpcKnown(c) ==
    /\ pc[c] = "rpc" /\ lock = NoClient /\ c \in known
    /\ lock' = IF Permitted(c) THEN c ELSE NoClient
    /\ RunRemote(c)
    /\ UNCHANGED <<log, replica, writer, config, conn, boundVars, state,
                   viewVars, known, taken, reply>>

RpcNew(c) ==
    /\ pc[c] = "rpc" /\ lock = NoClient /\ c \notin known
    /\ lock' = c
    /\ Goto(c, "create")
    /\ UNCHANGED <<connVars, boundVars, state, viewVars,
                   known, taken, reply>>

\* connection_maker.create returns a connection; it goes into the map, and the
\* guard is dropped before the program runs.
Create(c) ==
    /\ pc[c] = "create" /\ taken + Cardinality(known) < MaxConns
    /\ known' = known \cup {c}
    /\ conn' = [conn EXCEPT ![Remote(c)] = NewConn("idle")]
    /\ lock' = NoClient
    /\ RunRemote(c)
    /\ UNCHANGED <<log, replica, writer, config, boundVars, state, viewVars, taken, reply>>

\* Mutant: a connection maker without a timeout.
MutNoTimeout(c) == FALSE /\ pc[c] = "create" /\ UNCHANGED vars

\* Error::DbCreateTimeout: no permit in DB_CREATE_TIMEOUT.
CreateTimeout(c) ==
    /\ pc[c] = "create" /\ taken + Cardinality(known) >= MaxConns
    /\ lock' = NoClient
    /\ Goto(c, "reply")
    /\ UNCHANGED <<connVars, boundVars, state, viewVars,
                   known, taken, reply>>

\* execute returns, with the notifier's value of that moment.
RpcDone(c) ==
    /\ pc[c] = "remote" /\ out[Remote(c)] # NoResult
    /\ reply' = [reply EXCEPT ![c] =
                    [ok |-> out[Remote(c)].ok, state |-> out[Remote(c)].state,
                     frame_no |-> Len(log)]]
    /\ Take(Remote(c))
    /\ Unlock(c)
    /\ Goto(c, "reply")
    /\ UNCHANGED <<log, replica, writer, config, conn, inbox, boundVars, state,
                   viewVars, known, taken>>

\* disconnect removes the client, and with it the last sender of the thread.
Disconnect(c) ==
    /\ pc[c] = "drop" /\ lock = NoClient
    /\ known' = known \ {c}
    /\ Goto(c, "gone")
    /\ UNCHANGED <<connVars, boundVars, state, viewVars,
                   lock, taken, reply>>

\* "best effort attempt to disconnect"
DisconnectLost(c) ==
    /\ pc[c] = "drop" /\ events < MaxEvents
    /\ events' = events + 1
    /\ Goto(c, "gone")
    /\ UNCHANGED <<connVars, serviceVars, state, viewVars,
                   calls, others, restarted>>

SendersDropped(k) ==
    IF k[1] = "local" THEN pc[k[2]] \in {"drop", "gone"}
                      ELSE k[2] \notin known

\* The primary restarts: its connections are gone, calls under way fail.
Restart ==
    /\ events < MaxEvents
    /\ events' = events + 1 /\ restarted' = TRUE
    /\ LET hit == {c \in Clients : pc[c] \in {"rpc", "create", "remote", "reply"}}
       IN  /\ pc' = [c \in Clients |-> IF c \in hit THEN "idle" ELSE pc[c]]
           /\ call' = [c \in Clients |-> IF c \in hit THEN NoCall ELSE call[c]]
           /\ state' = [c \in Clients |-> IF c \in hit THEN "Invalid" ELSE state[c]]
    /\ conn' = [k \in Conns |-> IF k[1] = "remote" THEN NewConn("none") ELSE conn[k]]
    /\ inbox' = [k \in Conns |-> IF k[1] = "remote" THEN <<>> ELSE inbox[k]]
    /\ out' = [k \in Conns |-> IF k[1] = "remote" THEN NoResult ELSE out[k]]
    /\ writer' = NoConn
    /\ known' = {}
    /\ lock' = NoClient
    /\ taken' \in 0..taken
    /\ reply' = [c \in Clients |-> NoReply]
    /\ UNCHANGED <<log, replica, config, viewVars, calls, others>>

-----------------------------------------------------------------------------
(* The environment *)

\* Another client writes on the primary.
OtherWrite ==
    /\ others < MaxOthers /\ writer = NoConn
    /\ log' = Append(log, NoConn)
    /\ others' = others + 1
    /\ UNCHANGED <<replica, writer, config, conn, inbox, out, proxyVars, serviceVars,
                   calls, events, restarted>>

\* The replica applies a transaction and announces the frame number.
Inject ==
    /\ replicating /\ replica < Len(log)
    /\ replica' = replica + 1
    /\ applied' = replica
    /\ UNCHANGED <<log, writer, config, conn, inbox, out, pc, call, state, last_write,
                   replicating, acked, serviceVars, boundVars>>

\* The replication task ends.
ReplicatorExits ==
    /\ replicating /\ events < MaxEvents
    /\ replicating' = FALSE
    /\ events' = events + 1
    /\ UNCHANGED <<connVars, serviceVars, pc, call, state, last_write, applied, acked, calls, others, restarted>>

\* DatabaseConfigStore::store
Store ==
    /\ events < MaxEvents
    /\ \E side \in DOMAIN config, new \in Configs :
        /\ new # config[side]
        /\ config' = [config EXCEPT ![side] = new]
    /\ events' = events + 1
    /\ UNCHANGED <<log, replica, writer, conn, inbox, out, proxyVars, serviceVars,
                   calls, others, restarted>>

\* Clients that have no call under way, or wait for a write of someone else.
Idle ==
    /\ \A c \in Clients : pc[c] \in {"idle", "sync", "gone"}
    /\ UNCHANGED vars

-----------------------------------------------------------------------------

Init ==
    /\ log = <<NoConn>>
    /\ replica = IF FreshReplica THEN 0 ELSE 1
    /\ applied = IF FreshReplica THEN FrameNoMax ELSE 0
    /\ writer = NoConn
    /\ config = [side \in {"local", "remote"} |-> "none"]
    /\ conn = [k \in Conns |-> NewConn(IF k[1] = "local" THEN "idle" ELSE "none")]
    /\ inbox = [k \in Conns |-> <<>>]
    /\ out = [k \in Conns |-> NoResult]
    /\ pc = [c \in Clients |-> "idle"]
    /\ call = [c \in Clients |-> NoCall]
    /\ acked = [c \in Clients |-> 0]
    /\ state = [c \in Clients |-> "Init"]
    /\ last_write = [c \in Clients |-> FrameNoMax]
    /\ replicating = TRUE
    /\ known = {}
    /\ lock = NoClient
    /\ taken \in 0..MaxTaken
    /\ reply = [c \in Clients |-> NoReply]
    /\ calls = 0 /\ others = 0 /\ events = 0 /\ restarted = FALSE

ThreadStep(k) ==
    \/ Thread(k) /\ UNCHANGED <<proxyVars, serviceVars, boundVars>>
    \/ SendersDropped(k) /\ Disconnected(k)
       /\ UNCHANGED <<proxyVars, serviceVars, boundVars>>

TooLarge(k) == StepTooLarge(k) /\ UNCHANGED <<proxyVars, serviceVars, boundVars>>

Proxy(c) ==
    \/ SyncDone(c) \/ SyncFails(c) \/ LocalDone(c) \/ LocalUndone(c)
    \/ ReplyOk(c) \/ ReplyError(c)

Service(c) ==
    RpcKnown(c) \/ RpcNew(c) \/ Create(c) \/ CreateTimeout(c) \/ RpcDone(c) \/ Disconnect(c)

Next ==
    \/ \E k \in Conns : ThreadStep(k) \/ TooLarge(k)
    \/ \E c \in Clients :
        \/ Execute(c) \/ Proxy(c) \/ Service(c) \/ ReplyTooLarge(c)
        \/ Break(c) \/ Drop(c) \/ DisconnectLost(c)
    \/ Restart \/ OtherWrite \/ Inject \/ ReplicatorExits \/ Store \/ Idle

Spec == Init /\ [][Next]_vars

\* Threads run and time passes: a deadline, SQLite's busy_timeout and
\* DB_CREATE_TIMEOUT elapse. Tasks of the runtime are polled. Nothing is assumed of
\* clients, of the network or of other writers.
Fairness ==
    /\ \A k \in Conns : WF_vars(ThreadStep(k))
    /\ \A c \in Clients : WF_vars(Proxy(c)) /\ WF_vars(Service(c))
    /\ WF_vars(Inject)

FairSpec == Spec /\ Fairness

-----------------------------------------------------------------------------
(* Properties *)

ConnRecord ==
    [th : {"none", "idle", "run", "dead"}, autocommit : BOOLEAN, snapshot : Int,
     wrote : BOOLEAN, deadline : BOOLEAN, timed_out : BOOLEAN, before : BOOLEAN,
     results : Seq(BOOLEAN)]
States == {"Init", "Txn", "Invalid"}
Labels == {"idle", "sync", "local", "undo", "rpc", "create", "remote", "reply", "drop",
           "gone"}

\* The variables have their types.
TypeOK ==
    /\ log \in Seq(Conns \cup {NoConn})
    /\ replica \in 0..Len(log)
    /\ writer \in Conns \cup {NoConn}
    /\ config \in [{"local", "remote"} -> Configs]
    /\ conn \in [Conns -> ConnRecord]
    /\ \A k \in Conns : Len(inbox[k]) <= 1 + MaxEvents
    /\ \A k \in Conns : out[k] \in [ok : BOOLEAN, state : {"None", "Failed", "Init", "Txn"}]
    /\ pc \in [Clients -> Labels]
    /\ state \in [Clients -> States]
    /\ last_write \in [Clients -> Nat]
    /\ applied \in Nat
    /\ known \subseteq Clients
    /\ lock \in Clients \cup {NoClient}
    /\ taken + Cardinality(known) <= MaxConns

\* The replica shows a client its own writes: a read that runs on the replica sees
\* every frame the client had committed when the primary last answered it. (comment
\* of WriteProxyConnection.last_write_frame_no) Reads in a transaction that an earlier
\* program left open on the replica do not count: they are repeated on the primary.
ReadYourWrites ==
    [][\A c \in Clients :
          LET k == Local(c)
          IN  (Running(k) /\ conn[k].before /\ conn'[k].results = Append(conn[k].results, TRUE)
                          /\ NextStep(k).stmt = "read")
              => ReadVersion(k) >= acked[c]]_vars

\* While a client believes that it is in a transaction, that transaction is open on
\* the primary, or its connection there refuses to do anything ever again: the next
\* statement is never committed on its own. A restart of the primary breaks this.
Refuses(k) == conn[k].timed_out \/ conn[k].th = "dead"
TxnStaysWhole ==
    ~restarted =>
        \A c \in Clients :
            (state[c] = "Txn" /\ pc[c] = "idle")
            => c \in known /\ (~conn[Remote(c)].autocommit \/ Refuses(Remote(c)))

\* A program runs on the replica only if the client has no transaction open on the
\* primary: a read of a transaction never misses what the transaction wrote.
NoTxnBehindReads ==
    \A c \in Clients :
        (state[c] = "Init" /\ pc[c] \in {"sync", "local", "undo"})
        => conn[Remote(c)].autocommit

\* SQLite's write lock is held by a transaction that can still be committed: a thread
\* that ends or times out gives it back.
WriterIsLive ==
    writer # NoConn =>
        /\ conn[writer].th \in {"idle", "run"}
        /\ ~conn[writer].timed_out /\ ~conn[writer].autocommit

\* A batch that failed has rolled back its transaction when its last step is done
\* (comment of execute_batch_or_rollback): nothing blocks a rollback.
BatchRollsBack ==
    \A k \in Conns :
        LET n == Len(conn[k].results) - 1
        IN  (conn[k].th = "run" /\ n > 0 /\ n + 1 = Len(Current(k))
                /\ Current(k)[n + 1] = Step(NotCond(OkCond(n)), "rollback")
                /\ ~conn[k].results[n])
            => conn[k].autocommit

\* A call that was sent to the primary returns, although calls wait for the lock on
\* `clients', its holder for a permit or for SQLite's write lock, and the holder of
\* that for its next call.
CallsReturn ==
    \A c \in Clients :
        pc[c] \in {"rpc", "create", "remote", "reply"}
        ~> pc[c] \notin {"rpc", "create", "remote", "reply"}

\* A transaction does not keep SQLite's write lock for good, also when its client says
\* nothing more: it ends, or its connection times out (the deadline that run sets).  Left
\* out is a transaction whose first program returned an error: a result that is too large
\* leaves run before the deadline is set, and no later program of the transaction sets it.
TxnsEnd ==
    \A c \in Clients :
        LET k == Remote(c)
        IN  writer = k /\ (conn[k].before \/ conn[k].deadline)
            ~> writer # k \/ (conn[k].before /\ state[c] = "Invalid")

\* A read waits for the replicator to have caught up with the client's writes, and
\* for nothing else (comment of wait_replication_sync).  The code does not keep to this:
\* it waits for the number of the next frame.
ReadsReturn ==
    \A c \in Clients : pc[c] = "sync" ~> pc[c] # "sync"

\* What times out is a transaction that is still open (comment in run).  The code does
\* not keep to this: nothing clears the deadline when a transaction ends.
OnlyOpenTxnsTimeOut ==
    [][\A k \in Conns :
          (conn'[k].timed_out /\ ~conn[k].timed_out) => ~conn[k].autocommit]_vars
=============================================================================
