----------------------------- MODULE Namespaces -----------------------------
(***************************************************************************)
(* The namespaces of a server (namespace/mod.rs, namespace/fork.rs): the   *)
(* store and its lock, the directories of the databases, their backups and *)
(* the clients and background tasks that use them meanwhile.               *)
(*                                                                         *)
(* Every operation holds the lock of the store while it runs, for create   *)
(* and with it is an upgradable read lock that excludes the others just as *)
(* well, so at most one is in progress: `op`. A request that has to wait   *)
(* for the lock has not begun here.                                        *)
(*                                                                         *)
(* The server is a primary, with or without backups, or a replica. The     *)
(* other side of a replica is `primary`, which changes on its own.         *)
(***************************************************************************)
EXTENDS Frames, Sequences

CONSTANTS
    Names,
    Txns,            \* the pages that a transaction writes, in order
    DumpLen,         \* statements of a dump
    MaxVer,          \* bound on the page versions written
    MaxOps, MaxDisruptions, MaxChanges,
    MaxFiles,        \* bound on the compactions of one log
    ForksOver,       \* clients fork onto namespaces that are not loaded
    Strays,          \* clients of a server with backups name unknown namespaces
    Zombies,         \* clients use connections of namespaces that are gone
    Overrules        \* a backup may win over the database on disk

ASSUME NamespacesAssumption ==
    /\ {DumpLen, MaxVer, MaxOps, MaxDisruptions, MaxChanges, MaxFiles} \subseteq Nat
    /\ {ForksOver, Strays, Zombies, Overrules} \subseteq BOOLEAN
    /\ Txns \subseteq Seq(Pages) \ {<<>>}

\* Some transaction can be the first of a database: it writes every page up to its last.
ASSUME FirstTxnAssumption ==
    \E t \in Txns : \A i \in DOMAIN t, p \in Pages : p <= t[i] => \E j \in DOMAIN t : t[j] = p

VARIABLES
    config,     \* [kind, backups]
    store,      \* the names whose namespace is loaded
    dir,        \* the directory of a name
    op,         \* the operation that holds the lock of the store
    conn,       \* a client's connection: [n, live], live while its namespace is loaded
    gens,       \* the newest content in the backup of a name
    tomb,       \* the names with a tombstone in the backup
    deleting,   \* the DeleteAll tasks: the name, whose task it is and how far it is
    dirty,      \* db_is_dirty: the process before this one was killed
    primary,    \* what a replica's primary has: database ids, 0 for none
    ver,        \* how many page versions there were
    ops, disruptions, changes,
    want        \* history: what a namespace may hold, as far as clients can tell

counters == <<ver, ops, disruptions, changes>>
backup == <<gens, tomb, deleting>>
vars == <<config, store, dir, op, conn, backup, dirty, primary, counters, want>>

\* A directory: the database, the log that describes it (`log` if there is a wallog), the
\* logs that are swapped out and the snapshots; on a replica the database id it follows.
NoDb == [p \in {0} |-> 0]
Empty == [p \in {} |-> 0]
NoLog == [f \in {} |-> 0]
NoDir == [here |-> FALSE, db |-> NoDb, log |-> FALSE, hist |-> NoLog, first |-> 0,
          queue |-> <<>>, files |-> {}, meta |-> 0]
BareDir == [NoDir EXCEPT !.here = TRUE]

NoOp == [kind |-> "none", pc |-> "none"]
NoConn == [n |-> "none", live |-> FALSE]

Configs == {[kind |-> "primary", backups |-> b] : b \in BOOLEAN}
           \cup {[kind |-> "replica", backups |-> FALSE]}

Init ==
    /\ config \in Configs
    /\ store = {} /\ dir = [n \in Names |-> NoDir]
    /\ op = NoOp /\ conn = NoConn
    /\ gens = [n \in Names |-> NoDb] /\ tomb = {} /\ deleting = {}
    /\ dirty = FALSE
    /\ primary = [n \in Names |-> IF config.kind = "replica" THEN 1 ELSE 0]
    /\ ver = 0 /\ ops = 0 /\ disruptions = 0 /\ changes = 0
    /\ want = [n \in Names |-> {NoDb}]

-----------------------------------------------------------------------------
(* Databases and their logs *)

NextNo(d) == Cardinality(DOMAIN d.hist)

Touched(t) == {t[i] : i \in DOMAIN t}

\* The database after transaction t, its pages having versions from v + 1 on.
After(db, t, v) ==
    LET old == IF db = NoDb THEN Empty ELSE db
        size == Max({Cardinality(DOMAIN old)} \cup Touched(t))
    IN  [p \in 1..size |-> IF p \in Touched(t)
                           THEN v + Max({i \in DOMAIN t : t[i] = p}) ELSE old[p]]

Possible(db, t) ==
    \A p \in 1..Max(Touched(t)) : p \in Touched(t) \/ (db # NoDb /\ p \in DOMAIN db)

\* d after transaction t is committed through a connection whose logger is d's.
Logged(d, t, v) ==
    LET n == NextNo(d)
        db == After(d.db, t, v)
        frame(f) == Frame(f, t[f - n + 1],
                          IF f = n + Len(t) - 1 THEN Cardinality(DOMAIN db) ELSE 0,
                          v + f - n + 1)
    IN  [d EXCEPT !.db = db,
                  !.hist = [f \in 0..(n + Len(t) - 1) |-> IF f < n THEN @[f] ELSE frame(f)]]

\* ReplicationLogger::open: a log that is dirty, or missing where there is data, is
\* written anew from the database.
OpenLog(d, isDirty) ==
    LET db == IF d.db = NoDb THEN Empty ELSE d.db
    IN  IF isDirty \/ ~d.log
        THEN [d EXCEPT !.db = db, !.log = TRUE, !.hist = Dump(db), !.first = 0,
                       !.queue = <<>>, !.files = {}]
        ELSE d

-----------------------------------------------------------------------------
(* NamespaceStore: how its operations begin. Each ends in End.                *)

Begin(o) ==
    /\ op = NoOp /\ ops < MaxOps
    /\ op' = o /\ ops' = ops + 1
    /\ UNCHANGED <<config, backup, dirty, primary, ver, disruptions, changes>>

\* The operation on n, which goes on at pc.
On(k, n, pc, opt, allow) ==
    [kind |-> k, n |-> n, pc |-> pc, opt |-> opt, allow |-> allow, left |-> DumpLen]

\* with: the namespace is there.
With(n) ==
    /\ op = NoOp /\ n \in store
    /\ conn' = [n |-> n, live |-> TRUE]
    /\ UNCHANGED <<config, store, dir, op, backup, dirty, primary, counters, want>>

Named(n) == config.backups => Strays \/ dir[n].db # NoDb

\* with: it is to be loaded; allow_lazy_creation is for replicas.
WithLoad(n) ==
    /\ n \notin store
    /\ Named(n)
    /\ Begin(On("with", n, "create", "latest", config.kind = "replica"))
    /\ UNCHANGED <<store, dir, conn, want>>

\* NamespaceStore::create
Create(n, opt) ==
    /\ n \notin store
    /\ Begin(On("create", n, "create", opt, TRUE))
    /\ want' = IF NoDb \in want[n] /\ config.kind = "primary"
               THEN [want EXCEPT ![n] = @ \cup {Empty}] ELSE want
    /\ UNCHANGED <<store, dir, conn>>

\* The entry of n is removed from the store, and with it the namespace's tasks go.
Unload(n) ==
    /\ store' = store \ {n}
    /\ conn' = IF conn.n = n THEN [conn EXCEPT !.live = FALSE] ELSE conn

\* NamespaceStore::destroy and reset
Destroy(n) ==
    /\ Begin(On("destroy", n, IF config.backups THEN "tombstone" ELSE "rmdir", "latest", TRUE))
    /\ Unload(n)
    /\ want' = [want EXCEPT ![n] = @ \cup {NoDb}]
    /\ UNCHANGED dir

Restorable(n) == IF gens[n] = NoDb THEN Empty ELSE gens[n]

Reset(n) ==
    /\ Begin(On("reset", n, "rmdir", "latest", TRUE))
    /\ Unload(n)
    /\ want' = [want EXCEPT ![n] = @ \cup {NoDb, Restorable(n)}
                                   \cup (IF n \in tomb THEN {Empty} ELSE {})]
    /\ UNCHANGED dir

\* NamespaceStore::fork
ForkFrom(from, to) ==
    /\ to \notin store /\ from # to /\ Named(from)
    /\ ForksOver \/ ~dir[to].here
    /\ Begin([kind |-> "fork", n |-> from, to |-> to, opt |-> "latest", allow |-> FALSE,
              pc |-> IF from \notin store THEN "create" ELSE "fork", left |-> DumpLen])
    /\ UNCHANGED <<store, dir, conn, want>>

End == op' = NoOp

-----------------------------------------------------------------------------
(* PrimaryNamespaceMaker::destroy, bottomless delete_all *)

Elsewhere == <<config, dirty, primary, ver, ops, changes>>

\* A tombstone that makes every generation unusable, and a task to delete them.
PutTombstone ==
    /\ op.pc = "tombstone"
    /\ tomb' = tomb \cup {op.n}
    /\ deleting' = deleting \cup {[n |-> op.n, id |-> ops, pc |-> "list"]}
    /\ op' = [op EXCEPT !.pc = "rmdir"]
    /\ UNCHANGED <<Elsewhere, store, dir, conn, gens, disruptions, want>>

\* remove_dir_all
RemoveDir ==
    /\ op.pc = "rmdir"
    /\ dir' = [dir EXCEPT ![op.n] = NoDir]
    /\ IF dir[op.n].here /\ op.kind = "reset"
       THEN op' = [op EXCEPT !.pc = "create"] /\ UNCHANGED want
       ELSE /\ End
            /\ want' = IF dir[op.n].here THEN [want EXCEPT ![op.n] = {NoDb}] ELSE want
    /\ UNCHANGED <<Elsewhere, store, conn, backup, disruptions>>

\* Mutant: the tombstone goes before the generations.
MutCommitDeletion(t) ==
    /\ t \in deleting
    /\ \/ /\ t.pc = "list"
          /\ deleting' = IF gens[t.n] = NoDb THEN deleting \ {t}
                         ELSE (deleting \ {t}) \cup {[t EXCEPT !.pc = "remove"]}
          /\ UNCHANGED <<gens, tomb>>
       \/ /\ t.pc = "remove"
          /\ tomb' = tomb \ {t.n}
          /\ deleting' = (deleting \ {t}) \cup {[t EXCEPT !.pc = "untomb"]}
          /\ UNCHANGED gens
       \/ /\ t.pc = "untomb"
          /\ gens' = [gens EXCEPT ![t.n] = NoDb]
          /\ deleting' = deleting \ {t}
          /\ UNCHANGED tomb
    /\ UNCHANGED <<config, store, dir, op, conn, dirty, primary, counters, want>>

\* DeleteAll::commit: the generations are listed, removed, and then the tombstone. When
\* none is listed the tombstone stays.
CommitDeletion(t) ==
    /\ t \in deleting
    /\ \/ /\ t.pc = "list"
          /\ deleting' = IF gens[t.n] = NoDb THEN deleting \ {t}
                         ELSE (deleting \ {t}) \cup {[t EXCEPT !.pc = "remove"]}
          /\ UNCHANGED <<gens, tomb>>
       \/ /\ t.pc = "remove"
          /\ gens' = [gens EXCEPT ![t.n] = NoDb]
          /\ deleting' = (deleting \ {t}) \cup {[t EXCEPT !.pc = "untomb"]}
          /\ UNCHANGED tomb
       \/ /\ t.pc = "untomb"
          /\ tomb' = tomb \ {t.n}
          /\ deleting' = deleting \ {t}
          /\ UNCHANGED gens
    /\ UNCHANGED <<config, store, dir, op, conn, dirty, primary, counters, want>>

-----------------------------------------------------------------------------
(* MakeNamespace::create *)

\* The namespace that the operation creates or loads.
Target == IF op.kind = "fork" /\ op.pc = "created" THEN op.to ELSE op.n

\* The instance for n is entered in the store; for fork it was the source.
Insert(n) ==
    /\ store' = store \cup {n}
    /\ IF op.kind = "fork" /\ n = op.n THEN op' = [op EXCEPT !.pc = "fork"] ELSE End

\* fork: an error of try_fork removes the destination; other operations just end.
Fails ==
    IF op.kind = "fork" /\ op.pc # "create" THEN op' = [op EXCEPT !.pc = "cleanup"]
    ELSE End

\* compare_with_local: whether a database on disk is kept although there is a backup. It is
\* not when the backup has the larger change counter, or more frames at the same one.
Keeps(n) == IF dir[n].db \in {NoDb, Empty} THEN {FALSE}
            ELSE IF Overrules THEN BOOLEAN ELSE {TRUE}

\* Namespace::new_primary for n, init_bottomless_replicator included.
NewPrimary(n) ==
  \E keeps \in Keeps(n) :
    LET refused == ~op.allow /\ ~config.backups /\ ~dir[n].here
        recovers == config.backups /\ gens[n] # NoDb
        restored == [BareDir EXCEPT !.db = gens[n]]
        isFresh == ~dir[n].log
        opened == OpenLog(IF recovers /\ ~keeps THEN restored
                          ELSE [dir[n] EXCEPT !.here = TRUE],
                          dirty \/ (recovers /\ ~keeps))
    IN  \/ /\ refused
           /\ Fails
           /\ UNCHANGED <<store, dir, want>>
        \/ /\ ~refused /\ recovers /\ n \in tomb
           /\ dir' = [dir EXCEPT ![n].here = TRUE]
           /\ Fails
           /\ UNCHANGED <<store, want>>
        \/ /\ ~refused /\ ~(recovers /\ n \in tomb)
           /\ dir' = [dir EXCEPT ![n] = opened]
           /\ \/ /\ op.opt = "dump" /\ ~isFresh
                 /\ Fails
                 /\ UNCHANGED <<store, want>>
              \/ /\ op.opt = "dump" /\ isFresh
                 /\ op' = [op EXCEPT !.pc = "dump"]
                 /\ UNCHANGED <<store, want>>
              \/ /\ op.opt = "latest"
                 /\ Insert(n)
                 /\ want' = [want EXCEPT ![n] = {opened.db} \cap @]

CreatePrimary ==
    /\ config.kind = "primary" /\ op.pc \in {"create", "created"}
    /\ NewPrimary(Target)
    /\ UNCHANGED <<Elsewhere, conn, backup, disruptions>>

\* load_dump: the statements are executed one by one, each in its own transaction.
LoadDump ==
    /\ op.pc = "dump"
    /\ LET n == op.n
           t == CHOOSE x \in Txns : Possible(dir[n].db, x)
       IN  \/ /\ op.left > 0 /\ ver + Len(t) <= MaxVer
              /\ dir' = [dir EXCEPT ![n] = Logged(@, t, ver)]
              /\ ver' = ver + Len(t)
              /\ op' = [op EXCEPT !.left = @ - 1]
              /\ want' = [want EXCEPT ![n] = @ \cup {dir'[n].db}]
              /\ UNCHANGED store
           \/ /\ op.left = 0 \/ ver + Len(t) > MaxVer
              /\ Insert(n)
              /\ want' = [want EXCEPT ![n] = {dir[n].db}]
              /\ UNCHANGED <<dir, ver>>
    /\ UNCHANGED <<config, dirty, primary, ops, disruptions, changes, conn, backup>>

-----------------------------------------------------------------------------
(* ForkTask *)

Source == dir[op.n]

\* What is copied, up to the end of the log now.
BeginFork ==
    /\ op.pc = "fork"
    /\ op' = IF config.kind = "replica" THEN NoOp
             ELSE [kind |-> "fork", n |-> op.n, to |-> op.to, opt |-> "latest",
                   allow |-> TRUE, pc |-> "copy", left |-> 0, end |-> NextNo(Source),
                   next |-> 0, data |-> Empty, seen |-> {Source.db}]
    /\ UNCHANGED <<Elsewhere, store, dir, conn, backup, disruptions, want>>

\* write_frame for a set of frames, at most one for each page.
Written(data, F) ==
    [p \in DOMAIN data \cup {f.page : f \in F} |->
        IF \E f \in F : f.page = p THEN (CHOOSE f \in F : f.page = p).data ELSE data[p]]

Copy(F, pc) ==
    op' = [op EXCEPT !.data = Written(@, F), !.pc = pc,
                     !.next = Max({@} \cup {f.no + 1 : f \in F})]

\* Mutant: a frame that is not in the log any more ends the copy.
MutReadFrame ==
    /\ op.pc = "stream"
    /\ IF op.next < Source.first \/ op.next >= NextNo(Source)
       THEN op' = [op EXCEPT !.pc = "rename"]
       ELSE Copy({Source.hist[op.next]}, "stream")
    /\ UNCHANGED <<Elsewhere, store, dir, conn, backup, disruptions, want>>

\* The FrameStream: a frame of the log, the end of the log (Ahead), or a frame that is in a
\* snapshot only.
ReadFrame ==
    /\ op.pc = "stream"
    /\ CASE op.next < Source.first -> op' = [op EXCEPT !.pc = "snapshot"]
         [] op.next >= NextNo(Source) -> op' = [op EXCEPT !.pc = "copy"]
         [] OTHER -> Copy({Source.hist[op.next]}, "stream")
    /\ UNCHANGED <<Elsewhere, store, dir, conn, backup, disruptions, want>>

\* while next_frame_no < end_frame_no
CopyLoop ==
    /\ op.pc = "copy"
    /\ op' = [op EXCEPT !.pc = IF op.next < op.end THEN "stream" ELSE "rename"]
    /\ UNCHANGED <<Elsewhere, store, dir, conn, backup, disruptions, want>>

\* Mutant: only a snapshot that begins with the frame will do.
MutReadSnapshot ==
    /\ op.pc = "snapshot"
    /\ \E r \in Source.files :
        /\ r[1] = op.next + 1
        /\ Copy(Newest({Source.hist[f] : f \in op.next..(r[2] - 1)}), "copy")
    /\ UNCHANGED <<Elsewhere, store, dir, conn, backup, disruptions, want>>

\* get_snapshot_file, again and again until there is one that holds the frame.
ReadSnapshot ==
    /\ op.pc = "snapshot"
    /\ \E r \in Source.files :
        /\ r[1] <= op.next /\ op.next < r[2]
        /\ Copy({f \in Newest({Source.hist[i] : i \in r[1]..(r[2] - 1)}) : f.no >= op.next},
                "copy")
    /\ UNCHANGED <<Elsewhere, store, dir, conn, backup, disruptions, want>>

\* The temporary directory becomes that of the new namespace, if it has none.
Rename ==
    /\ op.pc = "rename"
    /\ IF dir[op.to].here /\ dir[op.to] # BareDir
       THEN op' = [op EXCEPT !.pc = "cleanup"] /\ UNCHANGED <<dir, want>>
       ELSE /\ dir' = [dir EXCEPT ![op.to] = [BareDir EXCEPT !.db = op.data]]
            /\ want' = [want EXCEPT ![op.to] = @ \cup {op.data}]
            /\ op' = [op EXCEPT !.pc = "created"]
    /\ UNCHANGED <<Elsewhere, store, conn, backup, disruptions>>

\* ForkTask::fork after an error: whatever is the directory of the destination goes.
Cleanup ==
    /\ op.pc = "cleanup"
    /\ dir' = [dir EXCEPT ![op.to] = NoDir]
    /\ End
    /\ UNCHANGED <<Elsewhere, store, conn, backup, disruptions, want>>

\* A call to the file system or to S3, or a statement of a dump, fails.
Fault ==
    /\ config.kind = "primary" /\ disruptions < MaxDisruptions
    /\ op.pc \in {"tombstone", "rmdir", "create", "dump", "copy", "stream", "snapshot",
                  "rename", "created"}
    /\ disruptions' = disruptions + 1
    /\ Fails
    /\ UNCHANGED <<Elsewhere, store, dir, conn, backup, want>>

-----------------------------------------------------------------------------
(* ReplicaNamespaceMaker, and the replication task of a replica's namespace *)

\* try_perform_handshake for n: "ok", or the operation that the reset callback asks for.
Handshake(n) ==
    CASE primary[n] = 0 -> "destroy"
      [] dir[n].meta \notin {0, primary[n]} -> "reset"
      [] OTHER -> "ok"

\* create: the handshake is in Replicator::new, so its callback waits for the lock that
\* this operation has.
CreateReplica ==
    /\ config.kind = "replica" /\ op.pc = "create"
    /\ \/ /\ op.opt # "latest" \/ (~op.allow /\ ~dir[op.n].here)
          /\ End /\ UNCHANGED <<store, dir>>
       \/ /\ op.opt = "latest" /\ (op.allow \/ dir[op.n].here)
          /\ IF Handshake(op.n) = "ok"
             THEN /\ dir' = [dir EXCEPT ![op.n].here = TRUE, ![op.n].meta = primary[op.n]]
                  /\ Insert(op.n)
             ELSE /\ dir' = [dir EXCEPT ![op.n].here = TRUE]
                  /\ op' = [op EXCEPT !.pc = "callback"]
                  /\ UNCHANGED store
    /\ UNCHANGED <<Elsewhere, conn, backup, disruptions, want>>

\* Replicator::run: the handshake after an error. The callback takes the entry out of the
\* store and shuts down the namespace's tasks, of which the one that runs the callback is
\* one: it is cancelled there and the rest of the reset does not happen.
ReplicatorTask(n) ==
    /\ config.kind = "replica" /\ op = NoOp /\ n \in store
    /\ Handshake(n) # "ok"
    /\ Unload(n)
    /\ UNCHANGED <<Elsewhere, dir, op, backup, disruptions, want>>

\* The primary's namespace is destroyed, created, or its log is written anew.
PrimaryChanges(n) ==
    /\ config.kind = "replica" /\ changes < MaxChanges
    /\ changes' = changes + 1
    /\ primary' = [primary EXCEPT ![n] = IF @ = 0 THEN changes + 2 ELSE 0]
    /\ UNCHANGED <<config, store, dir, op, conn, backup, dirty, ver, ops, disruptions,
                   want>>

-----------------------------------------------------------------------------
(* Clients and background tasks *)

\* A client commits. A connection whose namespace was unloaded writes to the database that
\* has its path now, and to the log it was opened with.
Commit ==
    /\ config.kind = "primary" /\ conn # NoConn /\ dir[conn.n].db # NoDb
    /\ conn.live \/ Zombies
    /\ \E t \in Txns :
        /\ Possible(dir[conn.n].db, t) /\ ver + Len(t) <= MaxVer
        /\ ver' = ver + Len(t)
        /\ LET new == Logged(dir[conn.n], t, ver)
           IN  /\ dir' = [dir EXCEPT ![conn.n] =
                            IF conn.live THEN new ELSE [@ EXCEPT !.db = new.db]]
               /\ want' = [want EXCEPT ![conn.n] = IF conn.live THEN {new.db} ELSE @ \cup {new.db}]
               /\ op' = IF op.kind = "fork" /\ op.pc \in {"copy", "stream", "snapshot", "rename"}
                           /\ op.n = conn.n
                        THEN [op EXCEPT !.seen = @ \cup {new.db}] ELSE op
    /\ UNCHANGED <<config, store, conn, backup, dirty, primary, ops, disruptions,
                   changes>>

\* run_periodic_compactions, and the thread of the compactor.
Compact(n) ==
    /\ n \in store /\ dir[n].first < NextNo(dir[n])
    /\ Len(dir[n].queue) + Cardinality(dir[n].files) < MaxFiles
    /\ dir' = [dir EXCEPT ![n].first = NextNo(dir[n]),
                          ![n].queue = Append(@, <<dir[n].first, NextNo(dir[n])>>)]
    /\ UNCHANGED <<Elsewhere, store, op, conn, backup, disruptions, want>>

Persist(n) ==
    /\ n \in store /\ dir[n].queue # <<>>
    /\ dir' = [dir EXCEPT ![n].queue = Tail(@), ![n].files = @ \cup {Head(dir[n].queue)}]
    /\ UNCHANGED <<Elsewhere, store, op, conn, backup, disruptions, want>>

\* The replicator of a namespace has brought the backup up to date.
Upload(n) ==
    /\ config.backups /\ n \in store /\ dir[n].db \notin {Empty, gens[n]}
    /\ gens' = [gens EXCEPT ![n] = dir[n].db]
    /\ UNCHANGED <<Elsewhere, store, dir, op, conn, tomb, deleting, disruptions, want>>

\* The process is killed and started again. Namespaces are loaded when they are asked for.
Crash ==
    /\ disruptions < MaxDisruptions
    /\ disruptions' = disruptions + 1
    /\ store' = {} /\ op' = NoOp /\ conn' = NoConn
    /\ deleting' = {} /\ dirty' = TRUE
    /\ UNCHANGED <<config, dir, gens, tomb, primary, ver, ops, changes, want>>

-----------------------------------------------------------------------------

OpStep ==
    \/ PutTombstone \/ RemoveDir \/ CreatePrimary \/ LoadDump \/ CreateReplica
    \/ BeginFork \/ CopyLoop \/ ReadFrame \/ ReadSnapshot \/ Rename \/ Cleanup

Request(n) ==
    \/ With(n) \/ WithLoad(n) \/ Destroy(n) \/ Reset(n)
    \/ \E opt \in {"latest", "dump"} : Create(n, opt)
    \/ \E to \in Names : ForkFrom(n, to)

Next ==
    \/ OpStep \/ Fault \/ Commit \/ Crash
    \/ \E n \in Names : \/ Request(n) \/ Compact(n) \/ Persist(n) \/ Upload(n)
                        \/ ReplicatorTask(n) \/ PrimaryChanges(n)
    \/ \E t \in deleting : CommitDeletion(t)

Spec == Init /\ [][Next]_vars

\* An operation that can go on does, and the compactor does its work.
FairSpec == Spec /\ WF_vars(OpStep) /\ WF_vars(\E n \in Names : Persist(n))

-----------------------------------------------------------------------------
(* Properties *)

\* A namespace that no operation is busy with holds what its clients left in it: nothing
\* that was committed goes missing and nothing that was destroyed comes back, whatever was
\* created, destroyed, restored or forked, failed or was interrupted in between.
NamespacesAsAsked ==
    \A n \in Names :
        \/ config.kind = "replica"
        \/ op # NoOp /\ op.n = n
        \/ op.kind = "fork" /\ op.to = n
        \/ dir[n].db \in want[n]

\* A fork holds a state that its source had while it was forked.
ForkIsCommitted == op.pc = "created" => dir[op.to].db \in op.seen

\* Operations of a primary end, and the store can be used again.
OperationsReturn == (config.kind = "primary" /\ op # NoOp) ~> op = NoOp

\* The same for a replica.
ReplicaOperationsReturn == (config.kind = "replica" /\ op # NoOp) ~> op = NoOp
=============================================================================
