--------------------------- MODULE WriteProxyProofs ---------------------------
(***************************************************************************)
(* Proofs about the clients of a replica, for any set of clients and of    *)
(* programs and any number of calls, failures and restarts: SQLite's write *)
(* lock is never held by a thread that cannot give it back, what a client  *)
(* believes of its transaction agrees with the connection that runs it,    *)
(* and a batch that failed is rolled back.                                 *)
(*                                                                         *)
(* What a client believes travels: the thread puts it into `out', execute  *)
(* into `reply', execute_remote into `state'. Agreement has to hold at     *)
(* each of the three places, and nothing may be left in the inbox that     *)
(* would change the connection meanwhile (Beliefs). A callback whose       *)
(* caller has gone may be left there, but then the thread ends before it   *)
(* gets to a later one (Callers).                                          *)
(***************************************************************************)
EXTENDS WriteProxy, Extremes, SequenceTheorems

\* What the fields of connections and calls range over.
Pgms == Programs \cup {RollbackProgram, <<>>}
Callback == [pgm : Pgms, rcv : BOOLEAN]
CallType == [pgm : Pgms, auth : Auths \cup {"full"}]
ReplyType == [ok : BOOLEAN, state : {"None", "Failed", "Init", "Txn"}, frame_no : Nat]
Result == [ok : {FALSE}, state : {"None", "Failed"}] \cup [ok : {TRUE}, state : {"Init", "Txn"}]

\* The types of the state.
Types ==
    /\ log \in Seq(Conns \cup {NoConn})
    /\ replica \in Nat
    /\ writer \in Conns \cup {NoConn}
    /\ conn \in [Conns -> ConnRecord]
    /\ inbox \in [Conns -> Seq(Callback)]
    /\ out \in [Conns -> Result]
    /\ pc \in [Clients -> Labels]
    /\ call \in [Clients -> CallType]
    /\ state \in [Clients -> States]
    /\ reply \in [Clients -> ReplyType]
    /\ known \subseteq Clients
    /\ restarted \in BOOLEAN

\* A thread that runs has a program to run, and has not timed out; results are those
\* of the program that runs.
RunsSomething(k) ==
    IF conn[k].th = "run" THEN inbox[k] # <<>> /\ ~conn[k].timed_out
                          ELSE conn[k].results = <<>>

\* BatchRollsBack, for one connection.
RollsBack(k) ==
    LET n == Len(conn[k].results) - 1
    IN  (conn[k].th = "run" /\ n > 0 /\ n + 1 = Len(Current(k))
            /\ Current(k)[n + 1] = Step(NotCond(OkCond(n)), "rollback")
            /\ ~conn[k].results[n])
        => conn[k].autocommit

\* What holds of every connection.
ConnOK(k) == RunsSomething(k) /\ RollsBack(k)

\* A client that the service does not know has no connection, unless it has gone.
Vacant(c) ==
    /\ c \notin known /\ pc[c] # "gone" => conn[Remote(c)].th = "none"
    /\ pc[c] = "create" => c \notin known
    /\ pc[c] = "remote" => c \in known

\* At most the last callback has a caller, which is the call under way.
Callers(c) ==
    /\ \A i \in DOMAIN inbox[Remote(c)] :
          inbox[Remote(c)][i].rcv =>
              /\ i = Len(inbox[Remote(c)])
              /\ pc[c] = "remote" /\ out[Remote(c)] = NoResult
    /\ out[Remote(c)] # NoResult => pc[c] = "remote"
    /\ reply[c].ok => pc[c] = "reply"

\* The connection is in the state s, and stays in it as far as the client can tell.
Agree(c, s) ==
    /\ inbox[Remote(c)] = <<>>
    /\ s \in {"Init", "Txn"}
    /\ s = "Init" => conn[Remote(c)].autocommit
    /\ s = "Txn" /\ ~restarted =>
          c \in known /\ (~conn[Remote(c)].autocommit \/ Refuses(Remote(c)))

\* Where a call holds the client's state.
AtRest == {"idle", "sync", "local", "undo", "rpc", "create"}

\* What the client is, or is going to be, told agrees with its connection.
Beliefs(c) ==
    /\ out[Remote(c)].ok => Agree(c, out[Remote(c)].state)
    /\ reply[c].ok => Agree(c, reply[c].state)
    /\ pc[c] \in AtRest /\ state[c] # "Invalid" => Agree(c, state[c])

\* What holds of every client.
ClientOK(c) == Vacant(c) /\ Callers(c) /\ Beliefs(c)

\* The inductive invariant.
Inv ==
    /\ Types /\ WriterIsLive
    /\ \A k \in Conns : ConnOK(k)
    /\ \A c \in Clients : ClientOK(c)

-----------------------------------------------------------------------------
(* Connections. *)

\* Connections of different clients, or of different sides, are different.
LEMMA ConnsDiffer ==
    /\ \A c \in Clients : Remote(c) \in Conns /\ Local(c) \in Conns
    /\ \A c \in Clients : Remote(c)[1] = "remote" /\ Remote(c)[2] = c /\ Local(c)[1] = "local"
    /\ \A c, d \in Clients : Remote(c) = Remote(d) => c = d
    /\ \A c, d \in Clients : Remote(c) # Local(d)
    /\ \A k \in Conns : k = Local(k[2]) \/ k = Remote(k[2])
    /\ \A k \in Conns : k[2] \in Clients
    /\ NoConn \notin Conns
    BY DEF Conns, NoConn, Remote, Local

\* A program that may be in an inbox.
LEMMA PgmsOK ==
    \A p \in Pgms : /\ Len(p) \in Nat /\ DOMAIN p = 1..Len(p)
                    /\ \A i \in DOMAIN p : p[i].stmt \in Statements
<1>1. \A p \in {RollbackProgram, <<>>} :
          /\ Len(p) \in Nat /\ DOMAIN p = 1..Len(p)
          /\ \A i \in DOMAIN p : p[i].stmt \in Statements
  <2>1. RollbackProgram = [i \in 1..1 |-> Step(IF i > 1 THEN OkCond(i - 1) ELSE NoCond, <<"rollback">>[i])]
      BY DEF RollbackProgram, make_batch_program
  <2>2. Len(RollbackProgram) = 1 /\ DOMAIN RollbackProgram = 1..1
      BY <2>1
  <2>3. RollbackProgram[1].stmt = "rollback"
      BY <2>1 DEF Step
  <2> QED BY <2>2, <2>3 DEF Statements
<1> QED BY <1>1, ProgramsAssumption DEF Pgms

\* A fresh connection is a connection.
LEMMA NewConnOK == \A th \in {"none", "idle", "run", "dead"} : NewConn(th) \in ConnRecord
    BY DEF NewConn, ConnRecord, NoSnapshot

\* So is one whose transaction has ended.
LEMMA EndedOK ==
    ASSUME NEW r \in ConnRecord
    PROVE  /\ Ended(r) \in ConnRecord
           /\ Ended(r).autocommit /\ Ended(r).th = r.th
           /\ Ended(r).timed_out = r.timed_out
<1>1. NoSnapshot \in Int
    BY DEF NoSnapshot
<1> QED BY <1>1 DEF Ended, ConnRecord

\* A rollback that waits for the failure of an earlier step runs when that has failed.
LEMMA RollbackCond ==
    ASSUME NEW n, NEW results, NEW ac, n \in DOMAIN results, results[n] = FALSE
    PROVE  eval_cond(NotCond(OkCond(n)), results, ac) = "yes"
<1> DEFINE top == NotCond(OkCond(n))
           S == Parts(Parts({top}))
           truth(b) == IF b THEN "yes" ELSE "no"
           parts(f, c) == IF c.op \in {"not", "and", "or"}
                         THEN {f[c.conds[i]] : i \in DOMAIN c.conds} ELSE {}
           F(f, c) == CASE c.op = "none" -> "yes"
                  [] c.op = "autocommit" -> truth(ac)
                  [] c.op \in {"ok", "err"} ->
                        IF c.step \notin DOMAIN results THEN "error"
                        ELSE truth(results[c.step] = (c.op = "ok"))
                  [] "error" \in parts(f, c) -> "error"
                  [] c.op = "not" -> truth("no" \in parts(f, c))
                  [] c.op = "and" -> truth("no" \notin parts(f, c))
                  [] c.op = "or" -> truth("yes" \in parts(f, c))
           ev == CHOOSE f : f = [c \in S |-> F(f, c)]
<1>1. eval_cond(top, results, ac) = ev[top]
    BY DEF eval_cond
<1>2. S = {top, OkCond(n)}
  <2>1. top.op = "not" /\ top.conds = <<OkCond(n)>> /\ OkCond(n).op = "ok" /\ OkCond(n).step = n
      BY DEF NotCond, OkCond
  <2>2. Parts({top}) = {top, OkCond(n)}
      BY <2>1 DEF Parts
  <2>3. Parts({top, OkCond(n)}) = {top, OkCond(n)}
      BY <2>1 DEF Parts
  <2> QED BY <2>2, <2>3
<1> DEFINE w == [c \in S |-> IF c = top THEN "yes" ELSE "no"]
<1>3. top.op = "not" /\ top.conds = <<OkCond(n)>> /\ OkCond(n).op = "ok" /\ OkCond(n).step = n
    BY DEF NotCond, OkCond
<1>6. w[top] = "yes" /\ w[OkCond(n)] = "no"
    BY <1>2, <1>3
<1>4. \A f : f[OkCond(n)] = "no" => F(f, top) = "yes"
  <2> SUFFICES ASSUME NEW f, f[OkCond(n)] = "no" PROVE F(f, top) = "yes"
      OBVIOUS
  <2>1. parts(f, top) = {"no"}
      BY <1>3
  <2> HIDE DEF parts
  <2> QED BY <1>3, <2>1
<1>5. \A f : F(f, OkCond(n)) = "no"
    BY <1>3
<1>7. w = [c \in S |-> F(w, c)]
  <2> HIDE DEF F, S
  <2>1. \A c \in S : w[c] = F(w, c)
      BY <1>2, <1>4, <1>5, <1>6
  <2> QED BY <2>1
<1>8. ev = [c \in S |-> F(ev, c)]
  <2> HIDE DEF F, S, w
  <2> QED BY <1>7
<1> HIDE DEF F, S, ev
<1>9. ev[OkCond(n)] = "no"
    BY <1>2, <1>5, <1>8
<1>10. ev[top] = "yes"
    BY <1>2, <1>4, <1>8, <1>9
<1> QED BY <1>1, <1>10

\* Initially nobody is connected.
LEMMA InitInv == Init => Inv
<1> SUFFICES ASSUME Init PROVE Inv
    OBVIOUS
<1> USE DEF Init
<1>1. Types
  <2>1. NoResult \in Result
      BY DEF NoResult, Result
  <2>2. conn \in [Conns -> ConnRecord]
      BY NewConnOK
  <2>3. call \in [Clients -> CallType]
      BY DEF NoCall, Pgms, CallType
  <2>4. log \in Seq(Conns \cup {NoConn}) /\ inbox \in [Conns -> Seq(Callback)]
      OBVIOUS
  <2> QED BY <2>1, <2>2, <2>3, <2>4 DEF Types, NoReply, ReplyType, Labels, States
<1>2. WriterIsLive /\ \A k \in Conns : ConnOK(k)
    BY DEF WriterIsLive, ConnOK, RunsSomething, RollsBack, NewConn
<1>3. \A c \in Clients : Vacant(c) /\ Callers(c)
    BY ConnsDiffer DEF Vacant, Callers, NewConn, NoResult, NoReply
<1>4. \A c \in Clients : Beliefs(c)
    BY ConnsDiffer DEF Beliefs, Agree, NewConn, NoResult, NoReply
<1> QED BY <1>1, <1>2, <1>3, <1>4 DEF Inv, ClientOK

-----------------------------------------------------------------------------
(* What a step of one client leaves alone. *)

\* Nothing that belongs to the client d changes.
Untouched(d) ==
    /\ pc'[d] = pc[d] /\ state'[d] = state[d] /\ reply'[d] = reply[d]
    /\ (d \in known') = (d \in known) /\ restarted' = restarted
    /\ \A k \in {Local(d), Remote(d)} :
          conn'[k] = conn[k] /\ inbox'[k] = inbox[k] /\ out'[k] = out[k]

\* It is enough to look at the client that takes a step, or whose thread does.
LEMMA Frame ==
    ASSUME Inv, NEW c \in Clients,
           \A d \in Clients \ {c} : Untouched(d),
           Types', WriterIsLive',
           ConnOK(Local(c))', ConnOK(Remote(c))', ClientOK(c)'
    PROVE  Inv'
<1>1. ASSUME NEW d \in Clients \ {c}
      PROVE  ConnOK(Local(d))' /\ ConnOK(Remote(d))' /\ ClientOK(d)'
  <2>1. Untouched(d)
      OBVIOUS
  <2>2. ConnOK(Local(d)) /\ ConnOK(Remote(d)) /\ ClientOK(d)
      BY ConnsDiffer DEF Inv
  <2>3. ConnOK(Local(d))' /\ ConnOK(Remote(d))'
      BY <2>1, <2>2 DEF Untouched, ConnOK, RunsSomething, RollsBack, Current
  <2>4. Vacant(d)' /\ Callers(d)'
      BY <2>1, <2>2 DEF Untouched, ClientOK, Vacant, Callers
  <2>5. Beliefs(d)'
      BY <2>1, <2>2 DEF Untouched, ClientOK, Beliefs, Agree, Refuses
  <2> QED BY <2>3, <2>4, <2>5 DEF ClientOK
<1>2. \A d \in Clients : ConnOK(Local(d))' /\ ConnOK(Remote(d))' /\ ClientOK(d)'
    BY <1>1
<1>3. \A k \in Conns : ConnOK(k)'
    BY <1>2, ConnsDiffer
<1> QED BY <1>2, <1>3 DEF Inv

\* The thread of a connection changes that connection, its inbox and its result.
Only(k) ==
    /\ \A j \in Conns \ {k} : conn'[j] = conn[j] /\ inbox'[j] = inbox[j] /\ out'[j] = out[j]
    /\ UNCHANGED <<proxyVars, serviceVars, boundVars>>

\* A step of one connection's thread leaves the other clients and connections alone.
LEMMA ThreadFrame ==
    ASSUME Inv, NEW k \in Conns, Only(k), Types', WriterIsLive', ConnOK(k)',
           \A c \in Clients : k = Remote(c) => ClientOK(c)'
    PROVE  Inv'
<1> DEFINE c == k[2]
<1>0. c \in Clients /\ (k = Local(c) \/ k = Remote(c)) /\ Local(c) # Remote(c)
      /\ Local(c) \in Conns /\ Remote(c) \in Conns
    BY ConnsDiffer
<1>1. \A d \in Clients \ {c} : Untouched(d)
  <2> SUFFICES ASSUME NEW d \in Clients \ {c} PROVE Untouched(d)
      OBVIOUS
  <2>1. Local(d) \in Conns \ {k} /\ Remote(d) \in Conns \ {k}
      BY <1>0, ConnsDiffer DEF Local, Remote
  <2> QED BY <2>1 DEF Untouched, Only, proxyVars, serviceVars, boundVars
<1>2. \A j \in Conns \ {k} : ConnOK(j)'
    BY DEF Inv, ConnOK, RunsSomething, RollsBack, Current, Only
<1>3. ConnOK(Local(c))' /\ ConnOK(Remote(c))'
    BY <1>0, <1>2
<1>4. CASE k = Remote(c)
    BY <1>0, <1>1, <1>3, <1>4, Frame
<1>5. CASE k = Local(c)
  <2>1. Remote(c) \in Conns \ {k} /\ ClientOK(c)
      BY <1>0, <1>5 DEF Inv
  <2>2. Vacant(c)' /\ Callers(c)'
      BY <2>1 DEF ClientOK, Vacant, Callers, Only, proxyVars, serviceVars, boundVars
  <2>3. Beliefs(c)'
      BY <2>1 DEF ClientOK, Beliefs, Agree, Refuses, Only, proxyVars, serviceVars, boundVars
  <2> QED BY <1>0, <1>1, <1>3, <2>2, <2>3, Frame DEF ClientOK
<1> QED BY <1>0, <1>4, <1>5

\* Types, for a step of a thread.
LEMMA ThreadTypes ==
    ASSUME Types, NEW k \in Conns, Only(k),
           log' \in Seq(Conns \cup {NoConn}), replica' = replica, writer' \in Conns \cup {NoConn},
           NEW r \in ConnRecord, conn' = [conn EXCEPT ![k] = r],
           NEW b \in Seq(Callback), inbox' = [inbox EXCEPT ![k] = b],
           NEW o \in Result, out' = [out EXCEPT ![k] = o]
    PROVE  Types'
    BY DEF Types, Only, proxyVars, serviceVars, boundVars

-----------------------------------------------------------------------------
(* The steps of a thread. *)

\* While a callback is in the inbox nobody relies on the state of the connection.
LEMMA BusyInbox ==
    ASSUME Inv, NEW c \in Clients, inbox[Remote(c)] # <<>>
    PROVE  /\ ~out[Remote(c)].ok /\ ~reply[c].ok
           /\ ~(pc[c] \in AtRest /\ state[c] # "Invalid")
    BY DEF Inv, ClientOK, Beliefs, Agree

\* A step of a program that leaves the inbox and the result alone.
LEMMA QuietStep ==
    ASSUME Inv, NEW k \in Conns, UNCHANGED <<inbox, out, proxyVars, serviceVars, boundVars>>,
           NEW r \in ConnRecord, conn' = [conn EXCEPT ![k] = r], r.th = "run",
           conn[k].th \in {"idle", "run"}, inbox[k] # <<>>, ~r.timed_out,
           log' \in Seq(Conns \cup {NoConn}), replica' = replica, writer' \in Conns \cup {NoConn},
           WriterIsLive', RollsBack(k)'
    PROVE  Inv'
<1>1. Only(k) /\ conn'[k] = r
    BY DEF Only, Inv, Types
<1>2. Types'
  <2>1. /\ inbox' = [inbox EXCEPT ![k] = inbox[k]] /\ inbox[k] \in Seq(Callback)
        /\ out' = [out EXCEPT ![k] = out[k]] /\ out[k] \in Result
      BY DEF Inv, Types
  <2> QED BY <1>1, <2>1, ThreadTypes DEF Inv
<1>3. ConnOK(k)'
    BY <1>1 DEF ConnOK, RunsSomething
<1>4. ASSUME NEW c \in Clients, k = Remote(c)
      PROVE  ClientOK(c)'
  <2>1. ClientOK(c)
      BY DEF Inv
  <2>2. Vacant(c)' /\ Callers(c)'
      BY <1>1, <1>4, <2>1 DEF ClientOK, Vacant, Callers, proxyVars, serviceVars
  <2>3. Beliefs(c)'
      BY <1>4, BusyInbox DEF Beliefs, proxyVars, serviceVars
  <2> QED BY <2>2, <2>3 DEF ClientOK
<1> QED BY <1>1, <1>2, <1>3, <1>4, ThreadFrame

\* The thread takes a program from its channel.
LEMMA ReceiveInv ==
    ASSUME Inv, NEW k \in Conns, Receive(k), UNCHANGED <<proxyVars, serviceVars, boundVars>>
    PROVE  Inv'
<1> DEFINE r == [conn[k] EXCEPT !.th = "run", !.before = conn[k].autocommit]
<1>1. conn[k] \in ConnRecord /\ conn \in [Conns -> ConnRecord] /\ ConnOK(k)
    BY DEF Inv, Types
<1>2. conn' = [conn EXCEPT ![k] = r]
    BY <1>1 DEF Receive
<1>3. /\ r \in ConnRecord /\ r.th = "run" /\ r.timed_out = conn[k].timed_out
      /\ r.autocommit = conn[k].autocommit /\ r.results = conn[k].results
    BY <1>1 DEF ConnRecord
<1>4. conn'[k] = r /\ \A j \in Conns \ {k} : conn'[j] = conn[j]
    BY <1>1, <1>2
<1> HIDE DEF r
<1>5. RollsBack(k)'
    BY <1>1, <1>3, <1>4 DEF Receive, ConnOK, RunsSomething, RollsBack
<1>6. WriterIsLive'
    BY <1>3, <1>4 DEF Inv, Types, WriterIsLive, Receive
<1> QED BY <1>1, <1>2, <1>3, <1>5, <1>6, QuietStep DEF Receive, Inv, Types

\* The callback that a thread is at, and the others.
LEMMA InboxFacts ==
    ASSUME Types, NEW k \in Conns, inbox[k] # <<>>
    PROVE  /\ inbox[k] \in Seq(Callback) /\ Len(inbox[k]) \in Nat \ {0}
           /\ DOMAIN inbox[k] = 1..Len(inbox[k])
           /\ Head(inbox[k]) = inbox[k][1] /\ Head(inbox[k]) \in Callback
           /\ Tail(inbox[k]) \in Seq(Callback)
           /\ Len(Tail(inbox[k])) = Len(inbox[k]) - 1
           /\ Len(inbox[k]) = 1 => Tail(inbox[k]) = <<>>
<1>1. inbox[k] \in Seq(Callback)
    BY DEF Types
<1>2. Len(inbox[k]) \in Nat \ {0} /\ DOMAIN inbox[k] = 1..Len(inbox[k])
    BY <1>1, EmptySeq, LenProperties
<1>3. Head(inbox[k]) = inbox[k][1] /\ Head(inbox[k]) \in Callback
    BY <1>1, <1>2, ElementOfSeq
<1>4. Tail(inbox[k]) \in Seq(Callback) /\ Len(Tail(inbox[k])) = Len(inbox[k]) - 1
    BY <1>1, HeadTailProperties
<1>5. Len(inbox[k]) = 1 => Tail(inbox[k]) = <<>>
  <2> SUFFICES ASSUME Len(inbox[k]) = 1 PROVE Tail(inbox[k]) = <<>>
      OBVIOUS
  <2>1. Len(Tail(inbox[k])) = 0
      BY <1>4
  <2> QED BY <1>4, <2>1, EmptySeq
<1> QED BY <1>1, <1>2, <1>3, <1>4, <1>5

\* What is known of the step that a thread is at.
LEMMA RunningFacts ==
    ASSUME Inv, NEW k \in Conns, Running(k)
    PROVE  /\ conn[k].th = "run" /\ inbox[k] # <<>> /\ ~conn[k].timed_out
           /\ conn[k] \in ConnRecord /\ conn \in [Conns -> ConnRecord]
           /\ Len(conn[k].results) \in Nat /\ Len(conn[k].results) < Len(Current(k))
           /\ DOMAIN conn[k].results = 1..Len(conn[k].results)
           /\ \A x \in BOOLEAN :
                /\ Append(conn[k].results, x) \in Seq(BOOLEAN)
                /\ Len(Append(conn[k].results, x)) = Len(conn[k].results) + 1
                /\ \A n \in 1..Len(conn[k].results) :
                      Append(conn[k].results, x)[n] = conn[k].results[n]
           /\ NextStep(k).stmt \in Statements
<1>1. conn[k] \in ConnRecord /\ conn \in [Conns -> ConnRecord] /\ ConnOK(k)
    BY DEF Inv, Types
<1>2. conn[k].th = "run" /\ inbox[k] # <<>> /\ ~conn[k].timed_out
    BY <1>1 DEF Running, ConnOK, RunsSomething
<1>3. conn[k].results \in Seq(BOOLEAN)
    BY <1>1 DEF ConnRecord
<1>4. /\ Len(conn[k].results) \in Nat /\ Len(conn[k].results) < Len(Current(k))
      /\ DOMAIN conn[k].results = 1..Len(conn[k].results)
    BY <1>3 DEF Running
<1>5. Current(k) \in Pgms
    BY <1>2, InboxFacts DEF Inv, Callback, Current
<1>6. NextStep(k).stmt \in Statements
    BY <1>4, <1>5, PgmsOK DEF NextStep
<1> QED BY <1>1, <1>2, <1>3, <1>4, <1>6

\* The last step of a batch that failed is enabled, whatever is blocked.
LEMMA RollbackEnabled ==
    ASSUME Inv, NEW k \in Conns, Running(k),
           NextStep(k) = Step(NotCond(OkCond(Len(conn[k].results))), "rollback"),
           Len(conn[k].results) > 0, ~conn[k].results[Len(conn[k].results)]
    PROVE  /\ Enabled(k) /\ NextStep(k).stmt = "rollback"
           /\ \A cfg : ~Blocked(cfg, NextStep(k).stmt)
<1> DEFINE n == Len(conn[k].results)
<1>1. n \in DOMAIN conn[k].results
    BY RunningFacts
<1>2. conn[k].results[n] = FALSE
    BY <1>1, RunningFacts DEF ConnRecord
<1>3. NextStep(k).cond = NotCond(OkCond(n)) /\ NextStep(k).stmt = "rollback"
    BY DEF Step
<1>4. Enabled(k)
    BY <1>1, <1>2, <1>3, RollbackCond DEF Enabled
<1>5. kind("rollback") = "TxnEnd"
    BY DEF kind
<1>6. \A cfg : ~Blocked(cfg, "rollback")
    BY <1>5 DEF Blocked
<1> QED BY <1>3, <1>4, <1>6

\* When the next result is that of the last step of such a batch, this was it.
LEMMA LastOfBatch ==
    ASSUME Inv, NEW k \in Conns, Running(k), inbox' = inbox,
           NEW x \in BOOLEAN, conn'[k].results = Append(conn[k].results, x),
           ~RollsBack(k)'
    PROVE  /\ ~conn'[k].autocommit /\ Enabled(k) /\ NextStep(k).stmt = "rollback"
           /\ \A cfg : ~Blocked(cfg, NextStep(k).stmt)
<1> DEFINE n == Len(conn[k].results)
<1>1. Len(conn'[k].results) - 1 = n /\ n \in Nat
    BY RunningFacts
<1>2. /\ n > 0 /\ Current(k)[n + 1] = Step(NotCond(OkCond(n)), "rollback")
      /\ ~conn'[k].results[n] /\ ~conn'[k].autocommit
    BY <1>1 DEF RollsBack, Current
<1>3. ~conn[k].results[n]
    BY <1>1, <1>2, RunningFacts
<1> QED BY <1>2, <1>3, RollbackEnabled DEF NextStep

\* A step that is skipped, or that fails, adds a result and nothing else.
LEMMA NoEffectInv ==
    ASSUME Inv, NEW k \in Conns, StepSkipped(k) \/ StepFails(k),
           UNCHANGED <<proxyVars, serviceVars, boundVars>>
    PROVE  Inv'
<1> DEFINE r == [conn[k] EXCEPT !.results = Append(conn[k].results, FALSE)]
<1>0. Running(k) /\ inbox' = inbox
    BY DEF StepSkipped, StepFails
<1>1. conn[k] \in ConnRecord /\ conn \in [Conns -> ConnRecord]
    BY <1>0, RunningFacts
<1>2. conn' = [conn EXCEPT ![k] = r]
    BY <1>1 DEF StepSkipped, StepFails
<1>3. /\ r \in ConnRecord /\ r.th = conn[k].th /\ r.timed_out = conn[k].timed_out
      /\ r.autocommit = conn[k].autocommit /\ r.results = Append(conn[k].results, FALSE)
    BY <1>0, <1>1, RunningFacts DEF ConnRecord
<1>4. conn'[k] = r /\ \A j \in Conns \ {k} : conn'[j] = conn[j]
    BY <1>1, <1>2
<1> HIDE DEF r
<1>5. RollsBack(k)'
  <2> SUFFICES ASSUME ~RollsBack(k)' PROVE FALSE
      OBVIOUS
  <2>1. /\ ~conn[k].autocommit /\ Enabled(k) /\ NextStep(k).stmt = "rollback"
        /\ \A cfg : ~Blocked(cfg, NextStep(k).stmt)
      BY <1>0, <1>3, <1>4, LastOfBatch
  <2>2. Runs(k, "rollback")
      BY <2>1 DEF Runs
  <2> QED BY <2>1, <2>2 DEF StepSkipped, StepFails
<1>6. WriterIsLive'
    BY <1>3, <1>4 DEF Inv, Types, WriterIsLive, StepSkipped, StepFails
<1>7. UNCHANGED <<inbox, out, log, replica, writer>>
    BY DEF StepSkipped, StepFails
<1>8. log' \in Seq(Conns \cup {NoConn}) /\ writer' \in Conns \cup {NoConn}
    BY <1>7 DEF Inv, Types
<1> QED BY <1>0, <1>2, <1>3, <1>5, <1>6, <1>7, <1>8, RunningFacts, QuietStep

\* Every statement leaves a connection, and a lock that is held by an open transaction.
LEMMA EffectFacts ==
    ASSUME Inv, NEW k \in Conns, Running(k), NEW stmt \in Statements,
           Runs(k, stmt), Effect(k, stmt)
    PROVE  \E r \in ConnRecord :
              /\ conn' = [conn EXCEPT ![k] = r]
              /\ r.th = "run" /\ ~r.timed_out /\ r.results = Append(conn[k].results, TRUE)
              /\ stmt = "rollback" => r.autocommit
              /\ log' \in Seq(Conns \cup {NoConn})
              /\ \/ writer' = writer /\ (r.autocommit => conn[k].autocommit)
                 \/ writer' = k /\ ~r.autocommit
                 \/ writer' = (IF writer = k THEN NoConn ELSE writer)
<1> DEFINE done(new) == [new EXCEPT !.results = Append(@, TRUE)]
<1>1. /\ conn[k] \in ConnRecord /\ conn[k].th = "run" /\ ~conn[k].timed_out
      /\ Append(conn[k].results, TRUE) \in Seq(BOOLEAN)
    BY RunningFacts
<1>2. log \in Seq(Conns \cup {NoConn}) /\ Append(log, k) \in Seq(Conns \cup {NoConn})
    BY DEF Inv, Types
<1>3. ASSUME NEW new \in ConnRecord, new.results = conn[k].results
      PROVE  /\ done(new) \in ConnRecord /\ done(new).th = new.th
             /\ done(new).timed_out = new.timed_out /\ done(new).autocommit = new.autocommit
             /\ done(new).results = Append(conn[k].results, TRUE)
    BY <1>1, <1>3 DEF ConnRecord
<1>4. ReadVersion(k) \in Int
  <2>1. replica \in Int
      BY DEF Inv, Types
  <2> QED BY <1>1, <1>2, <2>1 DEF ReadVersion, Version, ConnRecord
<1>5. ASSUME NEW new \in ConnRecord, new.results = conn[k].results,
             new.th = "run", ~new.timed_out, stmt = "rollback" => new.autocommit,
             conn' = [conn EXCEPT ![k] = done(new)], log' \in {log, Append(log, k)},
             \/ writer' = writer /\ (new.autocommit => conn[k].autocommit)
             \/ writer' = k /\ ~new.autocommit
             \/ writer' = (IF writer = k THEN NoConn ELSE writer)
      PROVE  \E r \in ConnRecord :
              /\ conn' = [conn EXCEPT ![k] = r]
              /\ r.th = "run" /\ ~r.timed_out /\ r.results = Append(conn[k].results, TRUE)
              /\ stmt = "rollback" => r.autocommit
              /\ log' \in Seq(Conns \cup {NoConn})
              /\ \/ writer' = writer /\ (r.autocommit => conn[k].autocommit)
                 \/ writer' = k /\ ~r.autocommit
                 \/ writer' = (IF writer = k THEN NoConn ELSE writer)
  <2>1. /\ done(new) \in ConnRecord /\ done(new).th = new.th
        /\ done(new).timed_out = new.timed_out /\ done(new).autocommit = new.autocommit
        /\ done(new).results = Append(conn[k].results, TRUE)
      BY <1>3, <1>5
  <2> HIDE DEF done
  <2> QED BY <1>2, <1>5, <2>1
<1>6. CASE stmt = "begin"
  <2> DEFINE new == [conn[k] EXCEPT !.autocommit = FALSE]
  <2>1. new \in ConnRecord /\ new.results = conn[k].results /\ new.th = "run"
        /\ ~new.timed_out /\ ~new.autocommit
      BY <1>1 DEF ConnRecord
  <2>2. conn' = [conn EXCEPT ![k] = done(new)] /\ log' = log /\ writer' = writer
      BY <1>6 DEF Effect
  <2> HIDE DEF new, done
  <2> QED BY <1>5, <1>6, <2>1, <2>2
<1>7. CASE stmt = "read"
  <2> DEFINE new == IF conn[k].autocommit THEN conn[k]
                    ELSE [conn[k] EXCEPT !.snapshot = ReadVersion(k)]
  <2>1. new \in ConnRecord /\ new.results = conn[k].results /\ new.th = "run"
        /\ ~new.timed_out /\ new.autocommit = conn[k].autocommit
      BY <1>1, <1>4 DEF ConnRecord
  <2>2. conn' = [conn EXCEPT ![k] = done(new)] /\ log' = log /\ writer' = writer
      BY <1>7 DEF Effect
  <2> HIDE DEF new, done
  <2> QED BY <1>5, <1>7, <2>1, <2>2
<1>8. CASE stmt = "write" /\ conn[k].autocommit
  <2>1. conn' = [conn EXCEPT ![k] = done(conn[k])] /\ log' = Append(log, k) /\ writer' = writer
      BY <1>8 DEF Effect
  <2> HIDE DEF done
  <2> QED BY <1>1, <1>5, <1>8, <2>1
<1>9. CASE stmt = "write" /\ ~conn[k].autocommit
  <2> DEFINE new == [conn[k] EXCEPT !.snapshot = ReadVersion(k), !.wrote = TRUE]
  <2>1. new \in ConnRecord /\ new.results = conn[k].results /\ new.th = "run"
        /\ ~new.timed_out /\ ~new.autocommit
      BY <1>1, <1>4, <1>9 DEF ConnRecord
  <2>2. conn' = [conn EXCEPT ![k] = done(new)] /\ log' = log /\ writer' = k
      BY <1>9 DEF Effect
  <2> HIDE DEF new, done
  <2> QED BY <1>5, <1>9, <2>1, <2>2
<1>10. CASE stmt \in {"commit", "rollback"}
  <2> DEFINE new == Ended(conn[k])
  <2>1. new \in ConnRecord /\ new.th = "run" /\ ~new.timed_out /\ new.autocommit
      BY <1>1, EndedOK
  <2>2. new.results = conn[k].results
      BY <1>1 DEF ConnRecord, Ended
  <2>3. conn' = [conn EXCEPT ![k] = done(new)] /\ log' \in {log, Append(log, k)}
        /\ writer' = IF writer = k THEN NoConn ELSE writer
      BY <1>10 DEF Effect, Release
  <2> HIDE DEF new, done
  <2> QED BY <1>5, <2>1, <2>2, <2>3
<1>11. CASE stmt = "other"
  <2>1. conn' = [conn EXCEPT ![k] = done(conn[k])] /\ log' = log /\ writer' = writer
      BY <1>11 DEF Effect
  <2> HIDE DEF done
  <2> QED BY <1>1, <1>5, <1>11, <2>1
<1>12. stmt # "bad"
    BY DEF Runs
<1> QED BY <1>6, <1>7, <1>8, <1>9, <1>10, <1>11, <1>12 DEF Statements

\* A statement runs: it may begin, commit or roll back a transaction, or take the write
\* lock.
LEMMA StepRunsInv ==
    ASSUME Inv, NEW k \in Conns, StepRuns(k), UNCHANGED <<proxyVars, serviceVars, boundVars>>
    PROVE  Inv'
<1>1. /\ Running(k) /\ NextStep(k).stmt \in Statements /\ conn[k].th = "run"
      /\ inbox[k] # <<>> /\ conn \in [Conns -> ConnRecord]
    BY RunningFacts DEF StepRuns
<1>2. PICK r \in ConnRecord :
          /\ conn' = [conn EXCEPT ![k] = r]
          /\ r.th = "run" /\ ~r.timed_out /\ r.results = Append(conn[k].results, TRUE)
          /\ NextStep(k).stmt = "rollback" => r.autocommit
          /\ log' \in Seq(Conns \cup {NoConn})
          /\ \/ writer' = writer /\ (r.autocommit => conn[k].autocommit)
             \/ writer' = k /\ ~r.autocommit
             \/ writer' = (IF writer = k THEN NoConn ELSE writer)
    BY <1>1, EffectFacts DEF StepRuns
<1>3. conn'[k] = r /\ \A j \in Conns \ {k} : conn'[j] = conn[j]
    BY <1>1, <1>2
<1>4. UNCHANGED <<inbox, out, replica>> /\ writer' \in Conns \cup {NoConn}
    BY <1>2 DEF StepRuns, Inv, Types
<1>5. RollsBack(k)'
    BY <1>1, <1>2, <1>3, <1>4, LastOfBatch
<1>6. WriterIsLive'
    BY <1>2, <1>3, ConnsDiffer DEF Inv, Types, WriterIsLive
<1> QED BY <1>1, <1>2, <1>4, <1>5, <1>6, QuietStep

\* A thread that ends gives back the write lock, and refuses what it is sent.
LEMMA CloseFacts ==
    ASSUME Types, NEW k \in Conns, NEW r \in ConnRecord, NEW th \in {"none", "dead"},
           Close(k, r, th)
    PROVE  \E q \in ConnRecord :
              /\ conn' = [conn EXCEPT ![k] = q]
              /\ q.th = th /\ q.results = <<>> /\ q.autocommit
              /\ writer' = (IF writer = k THEN NoConn ELSE writer)
              /\ writer' \in Conns \cup {NoConn}
              /\ inbox' = [inbox EXCEPT ![k] = <<>>]
<1> DEFINE q == [Ended(r) EXCEPT !.th = th, !.results = <<>>]
<1>1. Ended(r) \in ConnRecord /\ Ended(r).autocommit
    BY EndedOK
<1> HIDE DEF Ended
<1>0. <<>> \in Seq(BOOLEAN)
    BY EmptySeq
<1>2. q \in ConnRecord /\ q.th = th /\ q.results = <<>> /\ q.autocommit
    BY <1>0, <1>1 DEF ConnRecord
<1>3. conn' = [conn EXCEPT ![k] = q]
    BY DEF Close
<1> HIDE DEF q
<1> QED BY <1>2, <1>3 DEF Close, Release, Types

\* The connection whose record a thread writes loses the lock, or keeps its transaction.
LEMMA LockStays ==
    ASSUME Inv, NEW k \in Conns, NEW q \in ConnRecord, conn' = [conn EXCEPT ![k] = q],
           \/ writer' = (IF writer = k THEN NoConn ELSE writer)
           \/ /\ writer' = writer /\ q.th \in {"idle", "run"}
              /\ q.timed_out = conn[k].timed_out /\ q.autocommit = conn[k].autocommit
    PROVE  WriterIsLive'
    BY ConnsDiffer DEF Inv, Types, WriterIsLive

\* resp.send: the result goes to the caller, who is then told the truth, or the thread ends.
LEMMA RespondInv ==
    ASSUME Inv, NEW k \in Conns, NEW r \in ConnRecord, NEW result \in Result,
           inbox[k] # <<>>, conn[k].th \in {"idle", "run"},
           r.autocommit = conn[k].autocommit, r.timed_out = conn[k].timed_out,
           result # NoResult,
           result.ok => result.state = IF r.autocommit THEN "Init" ELSE "Txn",
           Respond(k, r, result),
           UNCHANGED <<log, replica, proxyVars, serviceVars, boundVars>>
    PROVE  Inv'
<1>1. /\ inbox[k] \in Seq(Callback) /\ Len(inbox[k]) \in Nat \ {0}
      /\ DOMAIN inbox[k] = 1..Len(inbox[k])
      /\ Head(inbox[k]) = inbox[k][1]
      /\ Tail(inbox[k]) \in Seq(Callback)
      /\ Len(inbox[k]) = 1 => Tail(inbox[k]) = <<>>
    BY InboxFacts DEF Inv
<1>2. /\ conn \in [Conns -> ConnRecord] /\ inbox \in [Conns -> Seq(Callback)]
      /\ out \in [Conns -> Result] /\ Types
    BY DEF Inv, Types
<1>3. log' \in Seq(Conns \cup {NoConn}) /\ replica' = replica
    BY <1>2 DEF Types
<1>4. CASE Head(inbox[k]).rcv
  <2> DEFINE q == [r EXCEPT !.th = "idle", !.results = <<>>]
  <2>1. /\ q \in ConnRecord /\ q.th = "idle" /\ q.results = <<>>
        /\ q.autocommit = conn[k].autocommit /\ q.timed_out = conn[k].timed_out
    <3>1. <<>> \in Seq(BOOLEAN)
        BY EmptySeq
    <3> QED BY <3>1 DEF ConnRecord
  <2>2. /\ conn' = [conn EXCEPT ![k] = q] /\ writer' = writer
        /\ inbox' = [inbox EXCEPT ![k] = Tail(inbox[k])]
        /\ out' = [out EXCEPT ![k] = result]
      BY <1>4 DEF Respond
  <2> HIDE DEF q
  <2>3. Only(k) /\ conn'[k] = q /\ inbox'[k] = Tail(inbox[k]) /\ out'[k] = result
      BY <1>2, <2>2 DEF Only
  <2>4. Types'
      BY <1>1, <1>2, <1>3, <2>1, <2>2, <2>3, ThreadTypes DEF Types
  <2>5. WriterIsLive'
      BY <2>1, <2>2, LockStays
  <2>6. ConnOK(k)'
      BY <2>1, <2>3 DEF ConnOK, RunsSomething, RollsBack
  <2>7. ASSUME NEW c \in Clients, k = Remote(c)
        PROVE  ClientOK(c)'
    <3>1. ClientOK(c)
        BY DEF Inv
    <3>2. pc[c] = "remote" /\ Len(inbox[k]) = 1 /\ c \in known
      <4>1. 1 \in DOMAIN inbox[Remote(c)] /\ inbox[Remote(c)][1].rcv
          BY <1>1, <1>4, <2>7
      <4>2. pc[c] = "remote" /\ Len(inbox[k]) = 1
          BY <2>7, <3>1, <4>1 DEF ClientOK, Callers
      <4> QED BY <3>1, <4>2 DEF ClientOK, Vacant
    <3>3. inbox'[k] = <<>>
        BY <1>1, <2>3, <3>2
    <3>4. Vacant(c)' /\ Callers(c)'
        BY <2>7, <3>1, <3>2, <3>3 DEF ClientOK, Vacant, Callers, proxyVars, serviceVars
    <3>5. result.ok => Agree(c, result.state)'
        BY <2>1, <2>3, <2>7, <3>2, <3>3 DEF Agree, serviceVars
    <3>6. Beliefs(c)'
        BY <2>3, <2>7, <3>1, <3>2, <3>5, BusyInbox DEF Beliefs, AtRest, proxyVars, serviceVars
    <3> QED BY <3>4, <3>6 DEF ClientOK
  <2> QED BY <2>3, <2>4, <2>5, <2>6, <2>7, ThreadFrame
<1>5. CASE ~Head(inbox[k]).rcv
  <2>0. Failed \in Result /\ Failed # NoResult /\ ~Failed.ok
      BY DEF Failed, Result, NoResult
  <2>1. PICK q \in ConnRecord :
            /\ conn' = [conn EXCEPT ![k] = q]
            /\ q.th = "dead" /\ q.results = <<>> /\ q.autocommit
            /\ writer' = (IF writer = k THEN NoConn ELSE writer)
            /\ writer' \in Conns \cup {NoConn}
            /\ inbox' = [inbox EXCEPT ![k] = <<>>]
      BY <1>2, <1>5, CloseFacts DEF Respond
  <2>2. PICK o \in Result :
            /\ out' = [out EXCEPT ![k] = o]
            /\ o = out[k] \/ (o = Failed /\ inbox[k][Len(inbox[k])].rcv)
    <3>1. CASE Len(inbox[k]) > 1 /\ inbox[k][Len(inbox[k])].rcv
        BY <1>5, <2>0, <3>1 DEF Respond
    <3>2. CASE ~(Len(inbox[k]) > 1 /\ inbox[k][Len(inbox[k])].rcv)
        BY <1>2, <1>5, <3>2 DEF Respond
    <3> QED BY <3>1, <3>2
  <2>3. Only(k) /\ conn'[k] = q /\ inbox'[k] = <<>> /\ out'[k] = o
      BY <1>2, <2>1, <2>2 DEF Only
  <2>4. Types'
    <3>1. <<>> \in Seq(Callback)
        BY EmptySeq
    <3> QED BY <1>2, <1>3, <2>1, <2>2, <2>3, <3>1, ThreadTypes
  <2>5. WriterIsLive'
      BY <2>1, LockStays
  <2>6. ConnOK(k)'
      BY <2>1, <2>3 DEF ConnOK, RunsSomething, RollsBack
  <2>7. ASSUME NEW c \in Clients, k = Remote(c)
        PROVE  ClientOK(c)'
    <3>1. ClientOK(c)
        BY DEF Inv
    <3>2. o # NoResult => pc[c] = "remote"
        BY <1>1, <2>2, <2>7, <3>1 DEF ClientOK, Callers
    <3>3. ~o.ok
        BY <2>0, <2>2, <2>7, BusyInbox
    <3>4. Vacant(c)' /\ Callers(c)'
        BY <2>1, <2>3, <2>7, <3>1, <3>2 DEF ClientOK, Vacant, Callers, proxyVars, serviceVars
    <3>5. Beliefs(c)'
        BY <2>3, <2>7, <3>3, BusyInbox DEF Beliefs, proxyVars, serviceVars
    <3> QED BY <3>4, <3>5 DEF ClientOK
  <2> QED BY <2>3, <2>4, <2>5, <2>6, <2>7, ThreadFrame
<1> QED BY <1>4, <1>5

\* The thread answers: refused, too large or finished.
LEMMA AnswerInv ==
    ASSUME Inv, NEW k \in Conns, ReceiveTimedOut(k) \/ StepTooLarge(k) \/ Finish(k),
           UNCHANGED <<proxyVars, serviceVars, boundVars>>
    PROVE  Inv'
<1>1. conn[k] \in ConnRecord /\ ConnOK(k)
    BY DEF Inv, Types
<1>2. Failed \in Result /\ Failed # NoResult /\ ~Failed.ok
    BY DEF Failed, Result, NoResult
<1>3. CASE ReceiveTimedOut(k)
    BY <1>1, <1>2, <1>3, RespondInv DEF ReceiveTimedOut
<1>4. CASE StepTooLarge(k)
  <2> DEFINE r == [conn[k] EXCEPT !.snapshot = IF conn[k].autocommit THEN conn[k].snapshot
                                               ELSE ReadVersion(k)]
  <2>1. Running(k) /\ Respond(k, r, Failed) /\ UNCHANGED <<log, replica>>
      BY <1>4 DEF StepTooLarge
  <2>2. conn[k].snapshot \in Int /\ ReadVersion(k) \in Int
    <3>1. replica \in Int /\ Len(log) \in Int
        BY DEF Inv, Types
    <3> QED BY <1>1, <3>1 DEF ReadVersion, Version, ConnRecord
  <2>3. /\ r \in ConnRecord /\ r.autocommit = conn[k].autocommit
        /\ r.timed_out = conn[k].timed_out
      BY <1>1, <2>2 DEF ConnRecord
  <2> HIDE DEF r
  <2> QED BY <1>2, <2>1, <2>3, RunningFacts, RespondInv
<1>5. CASE Finish(k)
  <2> DEFINE r == [conn[k] EXCEPT !.deadline = (conn[k].before /\ ~conn[k].autocommit)
                                                \/ conn[k].deadline]
             result == [ok |-> TRUE, state |-> IF ~conn[k].autocommit THEN "Txn" ELSE "Init"]
  <2>1. Respond(k, r, result) /\ UNCHANGED <<log, replica>> /\ conn[k].th = "run"
      BY <1>5 DEF Finish
  <2>2. /\ r \in ConnRecord /\ r.autocommit = conn[k].autocommit
        /\ r.timed_out = conn[k].timed_out
      BY <1>1 DEF ConnRecord
  <2>3. /\ result \in Result /\ result # NoResult
        /\ result.state = IF conn[k].autocommit THEN "Init" ELSE "Txn"
      BY DEF Result, NoResult
  <2>4. inbox[k] # <<>>
      BY <1>1, <2>1 DEF ConnOK, RunsSomething
  <2> HIDE DEF r, result
  <2> QED BY <2>1, <2>2, <2>3, <2>4, RespondInv
<1> QED BY <1>3, <1>4, <1>5

\* With nothing in the inbox: the transaction is rolled back, and what its client was
\* told of it stays true because the connection refuses all that follows.
LEMMA TimeoutInv ==
    ASSUME Inv, NEW k \in Conns, Timeout(k), UNCHANGED <<proxyVars, serviceVars, boundVars>>
    PROVE  Inv'
<1> DEFINE q == [Ended(conn[k]) EXCEPT !.timed_out = TRUE, !.deadline = FALSE]
<1>1. conn[k] \in ConnRecord /\ ConnOK(k) /\ Types /\ out \in [Conns -> Result]
    BY DEF Inv, Types
<1>2. /\ Ended(conn[k]) \in ConnRecord /\ Ended(conn[k]).autocommit
      /\ Ended(conn[k]).th = "idle"
    BY <1>1, EndedOK DEF Timeout
<1>3. Ended(conn[k]).results = <<>>
    BY <1>1 DEF Timeout, Ended, ConnOK, RunsSomething, ConnRecord
<1>4. q \in ConnRecord /\ q.autocommit /\ q.timed_out /\ q.th = "idle" /\ q.results = <<>>
    BY <1>2, <1>3 DEF ConnRecord
<1>5. /\ conn' = [conn EXCEPT ![k] = q] /\ UNCHANGED <<log, replica, inbox, out>>
      /\ writer' = IF writer = k THEN NoConn ELSE writer
      /\ inbox[k] = <<>>
    BY DEF Timeout, Release
<1> HIDE DEF q
<1>6. Only(k) /\ conn'[k] = q
    BY <1>1, <1>5 DEF Only, Types
<1>7. Types'
  <2>1. /\ inbox' = [inbox EXCEPT ![k] = inbox[k]] /\ inbox[k] \in Seq(Callback)
        /\ out' = [out EXCEPT ![k] = out[k]] /\ out[k] \in Result
        /\ log' \in Seq(Conns \cup {NoConn}) /\ writer' \in Conns \cup {NoConn}
      BY <1>1, <1>5 DEF Types
  <2> QED BY <1>1, <1>4, <1>5, <1>6, <2>1, ThreadTypes
<1>8. WriterIsLive'
    BY <1>4, <1>5, LockStays
<1>9. ConnOK(k)'
    BY <1>4, <1>6 DEF ConnOK, RunsSomething, RollsBack
<1>10. ASSUME NEW c \in Clients, k = Remote(c)
       PROVE  ClientOK(c)'
  <2>1. ClientOK(c)
      BY DEF Inv
  <2>2. conn[k].th = "idle"
      BY DEF Timeout
  <2>3. Vacant(c)' /\ Callers(c)'
      BY <1>4, <1>5, <1>6, <1>10, <2>1, <2>2 DEF ClientOK, Vacant, Callers, proxyVars, serviceVars
  <2>4. \A s : Agree(c, s) => Agree(c, s)'
      BY <1>4, <1>5, <1>6, <1>10 DEF Agree, Refuses, serviceVars, boundVars
  <2>5. Beliefs(c)'
      BY <1>5, <2>1, <2>4 DEF ClientOK, Beliefs, proxyVars, serviceVars
  <2> QED BY <2>3, <2>5 DEF ClientOK
<1> QED BY <1>6, <1>7, <1>8, <1>9, <1>10, ThreadFrame

\* The thread ends when nobody can send to it any more, and SQLite rolls back.
LEMMA DisconnectedInv ==
    ASSUME Inv, NEW k \in Conns, SendersDropped(k), Disconnected(k),
           UNCHANGED <<proxyVars, serviceVars, boundVars>>
    PROVE  Inv'
<1>1. /\ conn[k] \in ConnRecord /\ Types /\ inbox[k] = <<>> /\ conn[k].th = "idle"
      /\ UNCHANGED <<log, replica, out>>
    BY DEF Inv, Types, Disconnected
<1>2. PICK q \in ConnRecord :
          /\ conn' = [conn EXCEPT ![k] = q]
          /\ q.th = "none" /\ q.results = <<>> /\ q.autocommit
          /\ writer' = (IF writer = k THEN NoConn ELSE writer)
          /\ writer' \in Conns \cup {NoConn}
          /\ inbox' = [inbox EXCEPT ![k] = <<>>]
    BY <1>1, CloseFacts DEF Disconnected
<1>3. Only(k) /\ conn'[k] = q /\ inbox'[k] = <<>>
    BY <1>1, <1>2 DEF Only, Types
<1>4. Types'
  <2>1. <<>> \in Seq(Callback)
      BY EmptySeq
  <2>2. out' = [out EXCEPT ![k] = out[k]] /\ out[k] \in Result /\ log' \in Seq(Conns \cup {NoConn})
      BY <1>1 DEF Types
  <2> QED BY <1>1, <1>2, <1>3, <2>1, <2>2, ThreadTypes
<1>5. WriterIsLive'
    BY <1>2, LockStays
<1>6. ConnOK(k)'
    BY <1>2, <1>3 DEF ConnOK, RunsSomething, RollsBack
<1>7. ASSUME NEW c \in Clients, k = Remote(c)
      PROVE  ClientOK(c)'
  <2>1. ClientOK(c)
      BY DEF Inv
  <2>2. c \notin known
      BY <1>7, ConnsDiffer DEF SendersDropped
  <2>3. Vacant(c)' /\ Callers(c)'
      BY <1>1, <1>2, <1>3, <1>7, <2>1 DEF ClientOK, Vacant, Callers, proxyVars, serviceVars
  <2>4. \A s : Agree(c, s) => Agree(c, s)'
      BY <1>2, <1>3, <1>7, <2>2 DEF Agree, Refuses, serviceVars, boundVars
  <2>5. Beliefs(c)'
      BY <1>1, <2>1, <2>4 DEF ClientOK, Beliefs, proxyVars, serviceVars
  <2> QED BY <2>3, <2>5 DEF ClientOK
<1> QED BY <1>3, <1>4, <1>5, <1>6, <1>7, ThreadFrame

\* Every step of a connection's thread.
LEMMA ThreadInv ==
    ASSUME Inv, NEW k \in Conns, ThreadStep(k) \/ TooLarge(k)
    PROVE  Inv'
    BY ReceiveInv, NoEffectInv, StepRunsInv, AnswerInv, TimeoutInv, DisconnectedInv
    DEF ThreadStep, TooLarge, Thread

-----------------------------------------------------------------------------
(* The steps of a call. *)

\* A connection's thread does not notice that its inbox grows.
LEMMA InboxGrows ==
    ASSUME Inv, NEW k \in Conns, conn'[k] = conn[k],
           \/ inbox'[k] = inbox[k]
           \/ /\ inbox[k] # <<>> => inbox'[k] # <<>>
              /\ inbox[k] # <<>> => Head(inbox'[k]).pgm = Head(inbox[k]).pgm
    PROVE  ConnOK(k)'
<1>1. ConnOK(k)
    BY DEF Inv
<1>2. RunsSomething(k)'
    BY <1>1 DEF ConnOK, RunsSomething
<1>3. RollsBack(k)'
    BY <1>1 DEF ConnOK, RunsSomething, RollsBack, Current
<1> QED BY <1>2, <1>3 DEF ConnOK

\* A callback that is sent.
LEMMA SendFacts ==
    ASSUME Types, NEW k \in Conns, NEW p \in Pgms
    PROVE  LET b == Append(inbox[k], [pgm |-> p, rcv |-> TRUE])
           IN  /\ b \in Seq(Callback) /\ b # <<>>
               /\ Len(inbox[k]) \in Nat /\ DOMAIN inbox[k] = 1..Len(inbox[k])
               /\ Len(b) = Len(inbox[k]) + 1 /\ DOMAIN b = 1..(Len(inbox[k]) + 1)
               /\ \A i \in DOMAIN inbox[k] : b[i] = inbox[k][i]
               /\ inbox[k] # <<>> => Head(b).pgm = Head(inbox[k]).pgm
<1> DEFINE e == [pgm |-> p, rcv |-> TRUE]
           b == Append(inbox[k], e)
<1>1. e \in Callback
    BY DEF Callback
<1>2. inbox[k] \in Seq(Callback)
    BY DEF Types
<1> HIDE DEF e
<1>3. /\ b \in Seq(Callback) /\ Len(b) = Len(inbox[k]) + 1
      /\ \A i \in 1..Len(inbox[k]) : b[i] = inbox[k][i]
    BY <1>1, <1>2, AppendProperties
<1>4. Len(inbox[k]) \in Nat /\ DOMAIN inbox[k] = 1..Len(inbox[k]) /\ DOMAIN b = 1..Len(b)
    BY <1>2, <1>3, LenProperties
<1>5. b # <<>>
    BY <1>3, <1>4
<1>6. inbox[k] # <<>> => Head(b) = Head(inbox[k])
  <2> SUFFICES ASSUME inbox[k] # <<>> PROVE Head(b) = Head(inbox[k])
      OBVIOUS
  <2>1. Len(inbox[k]) \in Nat \ {0} /\ Head(inbox[k]) = inbox[k][1]
      BY InboxFacts
  <2>2. b[1] = inbox[k][1]
      BY <1>3, <2>1
  <2> QED BY <1>3, <1>5, <2>1, <2>2
<1> QED BY <1>3, <1>4, <1>5, <1>6 DEF e

\* A step of a call that leaves the connections alone.
LEMMA CallFrame ==
    ASSUME Inv, NEW c \in Clients, UNCHANGED <<conn, writer, restarted>>, Types',
           \A d \in Clients \ {c} :
               /\ pc'[d] = pc[d] /\ state'[d] = state[d] /\ reply'[d] = reply[d]
               /\ (d \in known') = (d \in known),
           \A k \in Conns \ {Local(c), Remote(c)} :
               inbox'[k] = inbox[k] /\ out'[k] = out[k],
           ConnOK(Local(c))', ConnOK(Remote(c))', ClientOK(c)'
    PROVE  Inv'
<1>1. WriterIsLive'
    BY DEF Inv, WriterIsLive
<1>2. \A d \in Clients \ {c} : Untouched(d)
  <2> SUFFICES ASSUME NEW d \in Clients \ {c} PROVE Untouched(d)
      OBVIOUS
  <2>1. {Local(d), Remote(d)} \subseteq Conns \ {Local(c), Remote(c)}
      BY ConnsDiffer DEF Local, Remote
  <2> QED BY <2>1 DEF Untouched
<1> QED BY <1>1, <1>2, Frame

\* The client's own variables.
LEMMA CallTypes ==
    ASSUME Types, NEW c \in Clients, UNCHANGED <<log, replica, writer, conn, restarted>>,
           inbox' \in [Conns -> Seq(Callback)], out' \in [Conns -> Result],
           NEW l \in Labels, pc' = [pc EXCEPT ![c] = l],
           NEW cl \in CallType, call' = call \/ call' = [call EXCEPT ![c] = cl],
           NEW s \in States, state' = state \/ state' = [state EXCEPT ![c] = s],
           NEW y \in ReplyType,
           reply' = reply \/ reply' = [reply EXCEPT ![c] = y],
           known' \subseteq Clients
    PROVE  /\ Types'
           /\ pc'[c] = l
           /\ \A d \in Clients \ {c} :
                  pc'[d] = pc[d] /\ state'[d] = state[d] /\ reply'[d] = reply[d]
<1>0. /\ pc \in [Clients -> Labels] /\ call \in [Clients -> CallType]
      /\ state \in [Clients -> States] /\ reply \in [Clients -> ReplyType]
    BY DEF Types
<1>1. pc' \in [Clients -> Labels] /\ pc'[c] = l /\ \A d \in Clients \ {c} : pc'[d] = pc[d]
    BY <1>0
<1>2. call' \in [Clients -> CallType]
  <2>1. CASE call' = call
      BY <1>0, <2>1
  <2>2. CASE call' = [call EXCEPT ![c] = cl]
      BY <1>0, <2>2
  <2> QED BY <2>1, <2>2
<1>3. state' \in [Clients -> States] /\ \A d \in Clients \ {c} : state'[d] = state[d]
  <2>1. CASE state' = state
      BY <1>0, <2>1
  <2>2. CASE state' = [state EXCEPT ![c] = s]
      BY <1>0, <2>2
  <2> QED BY <2>1, <2>2
<1>4. reply' \in [Clients -> ReplyType] /\ \A d \in Clients \ {c} : reply'[d] = reply[d]
  <2>1. CASE reply' = reply
      BY <1>0, <2>1
  <2>2. CASE reply' = [reply EXCEPT ![c] = y]
      BY <1>0, <2>2
  <2> QED BY <2>1, <2>2
<1>5. Types'
    BY <1>1, <1>2, <1>3, <1>4 DEF Types
<1> QED BY <1>1, <1>3, <1>4, <1>5

\* What a call returns to, and what it forgets, are of their types.
LEMMA NothingOK ==
    /\ NoCall \in CallType
    /\ NoReply \in ReplyType
    /\ ~NoReply.ok
    /\ NoResult \in Result /\ ~NoResult.ok
    BY DEF NoCall, Pgms, CallType, NoReply, ReplyType, NoResult, Result

\* A step of a call that may send a callback or take a result.
LEMMA CallInv ==
    ASSUME Inv, NEW c \in Clients, UNCHANGED <<log, replica, writer, conn, restarted>>,
           NEW k \in {Local(c), Remote(c)}, NEW p \in Pgms, NEW o \in Result,
           \/ inbox' = inbox
           \/ inbox' = [inbox EXCEPT ![k] = Append(inbox[k], [pgm |-> p, rcv |-> TRUE])],
           out' = out \/ out' = [out EXCEPT ![k] = o],
           NEW l \in Labels, pc' = [pc EXCEPT ![c] = l],
           NEW cl \in CallType, call' = call \/ call' = [call EXCEPT ![c] = cl],
           NEW s \in States, state' = state \/ state' = [state EXCEPT ![c] = s],
           NEW y \in ReplyType, reply' = reply \/ reply' = [reply EXCEPT ![c] = y],
           known' \subseteq Clients, \A d \in Clients \ {c} : (d \in known') = (d \in known),
           ClientOK(c)'
    PROVE  Inv'
<1>0. Types /\ k \in Conns
    BY ConnsDiffer DEF Inv
<1>1. /\ inbox \in [Conns -> Seq(Callback)] /\ out \in [Conns -> Result]
    BY <1>0 DEF Types
<1>2. inbox' \in [Conns -> Seq(Callback)] /\ \A j \in Conns \ {k} : inbox'[j] = inbox[j]
  <2>1. Append(inbox[k], [pgm |-> p, rcv |-> TRUE]) \in Seq(Callback)
      BY <1>0, SendFacts
  <2> QED BY <1>0, <1>1, <2>1
<1>3. out' \in [Conns -> Result] /\ \A j \in Conns \ {k} : out'[j] = out[j]
    BY <1>0, <1>1
<1>4. /\ Types'
      /\ \A d \in Clients \ {c} :
             pc'[d] = pc[d] /\ state'[d] = state[d] /\ reply'[d] = reply[d]
    BY <1>0, <1>2, <1>3, CallTypes
<1>5. ConnOK(k)'
    BY <1>0, <1>1, SendFacts, InboxGrows
<1>6. \A j \in Conns \ {k} : ConnOK(j)'
    BY <1>2, InboxGrows
<1>7. ConnOK(Local(c))' /\ ConnOK(Remote(c))'
    BY <1>5, <1>6, ConnsDiffer
<1> QED BY <1>2, <1>3, <1>4, <1>7, CallFrame

\* Before a call goes to the primary nothing has been sent there.
LEMMA RestFacts ==
    ASSUME Inv, NEW c \in Clients, pc[c] # "remote"
    PROVE  /\ ClientOK(c) /\ out[Remote(c)] = NoResult
           /\ \A i \in DOMAIN inbox[Remote(c)] : ~inbox[Remote(c)][i].rcv
           /\ pc[c] # "reply" => ~reply[c].ok
           /\ pc \in [Clients -> Labels] /\ call[c] \in CallType /\ state[c] \in States
           /\ reply[c] \in ReplyType /\ call[c].pgm \in Pgms
<1>1. ClientOK(c)
    BY DEF Inv
<1>2. call[c] \in CallType
    BY DEF Inv, Types
<1>3. call[c].pgm \in Pgms
    BY <1>2 DEF CallType
<1> QED BY <1>1, <1>2, <1>3 DEF Inv, Types, ClientOK, Callers

\* Steps that move a call from one place where it holds the client's state to another.
LEMMA RestInv ==
    ASSUME Inv, NEW c \in Clients,
           UNCHANGED <<log, replica, writer, conn, state, serviceVars, restarted>>,
           pc[c] \in AtRest, NEW l \in AtRest \ {"create"}, pc' = [pc EXCEPT ![c] = l],
           NEW cl \in CallType, call' = call \/ call' = [call EXCEPT ![c] = cl],
           NEW p \in Pgms, NEW o \in Result,
           \/ inbox' = inbox
           \/ inbox' = [inbox EXCEPT ![Local(c)] =
                           Append(inbox[Local(c)], [pgm |-> p, rcv |-> TRUE])],
           out' = out \/ out' = [out EXCEPT ![Local(c)] = o]
    PROVE  Inv'
<1>1. /\ ClientOK(c) /\ out[Remote(c)] = NoResult /\ ~reply[c].ok
      /\ \A i \in DOMAIN inbox[Remote(c)] : ~inbox[Remote(c)][i].rcv
      /\ pc'[c] = l /\ l \in Labels /\ known \subseteq Clients
      /\ state[c] \in States /\ reply[c] \in ReplyType
    BY RestFacts DEF AtRest, Labels, Inv, Types
<1>2. inbox'[Remote(c)] = inbox[Remote(c)] /\ out'[Remote(c)] = out[Remote(c)]
    BY ConnsDiffer DEF Inv, Types
<1>3. Vacant(c)' /\ Callers(c)'
    BY <1>1, <1>2 DEF ClientOK, Vacant, Callers, AtRest, serviceVars
<1>4. Beliefs(c)'
    BY <1>1, <1>2 DEF ClientOK, Beliefs, Agree, Refuses, serviceVars, NoResult
<1>5. ClientOK(c)' /\ UNCHANGED <<known, reply>>
    BY <1>3, <1>4 DEF ClientOK, serviceVars
<1> QED BY <1>1, <1>5, CallInv

\* A client calls execute_program.
LEMMA ExecuteInv ==
    ASSUME Inv, NEW c \in Clients, Execute(c)
    PROVE  Inv'
<1>1. PICK p \in Programs, a \in Auths :
          /\ call' = [call EXCEPT ![c] = [pgm |-> p, auth |-> a]]
          /\ pc' = [pc EXCEPT ![c] =
                       IF state[c] = "Init" /\ is_read_only(p) THEN "sync" ELSE "rpc"]
    BY DEF Execute
<1>2. [pgm |-> p, auth |-> a] \in CallType /\ p \in Pgms
    BY DEF CallType, Pgms
<1>3. UNCHANGED <<log, replica, writer, conn, state, serviceVars, restarted, inbox, out>>
    BY DEF Execute, connVars
<1>4. pc[c] \in AtRest /\ \A b : (IF b THEN "sync" ELSE "rpc") \in AtRest \ {"create"}
    BY DEF Execute, AtRest
<1> QED BY <1>1, <1>2, <1>3, <1>4, NothingOK, RestInv

\* The steps of a call that runs on the replica.
LEMMA LocalInv ==
    ASSUME Inv, NEW c \in Clients,
           SyncDone(c) \/ SyncFails(c) \/ LocalDone(c) \/ LocalUndone(c)
    PROVE  Inv'
<1>1. /\ pc[c] \in AtRest /\ {"idle", "local", "undo", "rpc"} \subseteq AtRest \ {"create"}
      /\ UNCHANGED <<log, replica, writer, conn, state, serviceVars, restarted>>
    BY DEF SyncDone, SyncFails, LocalDone, LocalUndone, AtRest, connVars, boundVars
<1>2. call[c].pgm \in Pgms /\ NoCall \in CallType /\ NoResult \in Result /\ Failed \in Result
      /\ RollbackProgram \in Pgms
    BY <1>1, RestFacts, NothingOK DEF AtRest, Failed, Result, Pgms
<1>3. PICK l \in {"idle", "local", "undo", "rpc"} : pc' = [pc EXCEPT ![c] = l]
    BY DEF SyncDone, SyncFails, LocalDone, LocalUndone, Goto, Return
<1>4. call' = call \/ call' = [call EXCEPT ![c] = NoCall]
    BY DEF SyncDone, SyncFails, LocalDone, LocalUndone, Goto, Return
<1>5. PICK p \in Pgms :
          \/ inbox' = inbox
          \/ inbox' = [inbox EXCEPT ![Local(c)] =
                           Append(inbox[Local(c)], [pgm |-> p, rcv |-> TRUE])]
    BY <1>2 DEF SyncDone, SyncFails, LocalDone, LocalUndone, Send, connVars
<1>6. PICK o \in Result : out' = out \/ out' = [out EXCEPT ![Local(c)] = o]
    BY <1>2 DEF SyncDone, SyncFails, LocalDone, LocalUndone, Send, Take, connVars
<1>7. l \in AtRest \ {"create"}
    BY <1>1
<1> QED BY <1>1, <1>2, <1>3, <1>4, <1>5, <1>6, <1>7, RestInv

\* execute_remote returns: the client takes over what it was told, or gives up.
LEMMA ReplyInv ==
    ASSUME Inv, NEW c \in Clients, ReplyOk(c) \/ ReplyTooLarge(c) \/ ReplyError(c)
    PROVE  Inv'
<1>1. /\ pc[c] = "reply" /\ pc' = [pc EXCEPT ![c] = "idle"]
      /\ call' = [call EXCEPT ![c] = NoCall]
      /\ UNCHANGED <<connVars, restarted, known>>
    BY DEF ReplyOk, ReplyTooLarge, ReplyError, Return, connVars, serviceVars, boundVars
<1>2. /\ ClientOK(c) /\ out[Remote(c)] = NoResult
      /\ \A i \in DOMAIN inbox[Remote(c)] : ~inbox[Remote(c)][i].rcv
      /\ call[c].pgm \in Pgms /\ state \in [Clients -> States] /\ reply \in [Clients -> ReplyType]
      /\ pc'[c] = "idle" /\ known \subseteq Clients
    BY <1>1, RestFacts DEF Inv, Types
<1>3. \/ /\ reply[c].ok /\ state' = [state EXCEPT ![c] = reply[c].state]
         /\ reply' = [reply EXCEPT ![c] = NoReply]
      \/ ~reply[c].ok /\ state' = [state EXCEPT ![c] = "Invalid"] /\ reply' = reply
    BY DEF ReplyOk, ReplyTooLarge, ReplyError, serviceVars
<1>4. ~reply'[c].ok
    BY <1>2, <1>3, NothingOK
<1>5. /\ Vacant(c)' /\ Callers(c)'
    BY <1>1, <1>2, <1>4 DEF ClientOK, Vacant, Callers, connVars
<1>6. \A t : Agree(c, t) => Agree(c, t)'
    BY <1>1 DEF Agree, Refuses, connVars
<1>7. state'[c] # "Invalid" => reply[c].ok /\ state'[c] = reply[c].state
    BY <1>2, <1>3
<1>8. Beliefs(c)'
    BY <1>1, <1>2, <1>4, <1>6, <1>7, NothingOK DEF ClientOK, Beliefs, connVars
<1>9. PICK s \in States : state' = [state EXCEPT ![c] = s]
  <2>1. reply[c].ok => reply[c].state \in {"Init", "Txn"}
      BY <1>2 DEF ClientOK, Beliefs, Agree
  <2> QED BY <1>3, <2>1 DEF States
<1>10. "idle" \in Labels /\ UNCHANGED <<log, replica, writer, conn, inbox, out>>
    BY <1>1 DEF Labels, connVars
<1> QED BY <1>1, <1>2, <1>3, <1>5, <1>8, <1>9, <1>10, NothingOK, CallInv DEF ClientOK

\* Steps that leave the connections and what the client believes alone, and go where
\* the client does not rely on it.
LEMMA AwayInv ==
    ASSUME Inv, NEW c \in Clients, UNCHANGED <<connVars, call, state, reply, restarted>>,
           NEW l \in {"create", "reply", "drop", "gone"}, pc' = [pc EXCEPT ![c] = l],
           pc[c] \in AtRest \/ pc[c] = "drop",
           l = "create" => pc[c] \in AtRest /\ c \notin known,
           known' = known \/ (l = "gone" /\ known' = known \ {c}),
           pc[c] = "drop" => l = "gone"
    PROVE  Inv'
<1>1. /\ ClientOK(c) /\ out[Remote(c)] = NoResult /\ ~reply[c].ok
      /\ \A i \in DOMAIN inbox[Remote(c)] : ~inbox[Remote(c)][i].rcv
      /\ call[c].pgm \in Pgms /\ call[c] \in CallType /\ state[c] \in States
      /\ reply[c] \in ReplyType
      /\ pc'[c] = l /\ l \in Labels /\ known \subseteq Clients
    BY RestFacts DEF AtRest, Labels, Inv, Types
<1>2. Vacant(c)' /\ Callers(c)'
    BY <1>1 DEF ClientOK, Vacant, Callers, AtRest, connVars
<1>3. l = "create" => known' = known
    OBVIOUS
<1>4. Beliefs(c)'
    BY <1>1, <1>3, NothingOK DEF ClientOK, Beliefs, Agree, Refuses, AtRest, connVars
<1>5. UNCHANGED <<log, replica, writer, conn, inbox, out>>
    BY DEF connVars
<1>6. known' \subseteq Clients /\ \A d \in Clients \ {c} : (d \in known') = (d \in known)
    BY <1>1
<1> QED BY <1>1, <1>2, <1>4, <1>5, <1>6, NothingOK, CallInv DEF ClientOK

\* Clients and calls that go away, or wait for a connection.
LEMMA LeaveInv ==
    ASSUME Inv, NEW c \in Clients,
           \/ Drop(c) \/ RpcNew(c) \/ CreateTimeout(c) \/ Disconnect(c) \/ DisconnectLost(c)
    PROVE  Inv'
<1>1. UNCHANGED <<connVars, call, state, reply, restarted>>
    BY DEF Drop, RpcNew, CreateTimeout, Disconnect, DisconnectLost, Goto, serviceVars, boundVars
<1>2. CASE Drop(c)
    BY <1>1, <1>2, AwayInv DEF Drop, Goto, serviceVars, AtRest
<1>3. CASE RpcNew(c)
    BY <1>1, <1>3, AwayInv DEF RpcNew, Goto, AtRest
<1>4. CASE CreateTimeout(c)
    BY <1>1, <1>4, AwayInv DEF CreateTimeout, Goto, AtRest
<1>5. CASE Disconnect(c)
    BY <1>1, <1>5, AwayInv DEF Disconnect, Goto
<1>6. CASE DisconnectLost(c)
    BY <1>1, <1>6, AwayInv DEF DisconnectLost, Goto, serviceVars
<1> QED BY <1>2, <1>3, <1>4, <1>5, <1>6

\* execute returns: what the thread said is now on its way.
LEMMA RpcDoneInv ==
    ASSUME Inv, NEW c \in Clients, RpcDone(c)
    PROVE  Inv'
<1> DEFINE o == out[Remote(c)]
           y == [ok |-> o.ok, state |-> o.state, frame_no |-> Len(log)]
<1>1. /\ pc[c] = "remote" /\ o # NoResult /\ reply' = [reply EXCEPT ![c] = y]
      /\ out' = [out EXCEPT ![Remote(c)] = NoResult] /\ pc' = [pc EXCEPT ![c] = "reply"]
      /\ UNCHANGED <<log, replica, writer, conn, inbox, restarted, state, call, known>>
    BY DEF RpcDone, Take, Goto, boundVars
<1>2. /\ ClientOK(c) /\ o \in Result /\ Remote(c) \in Conns /\ call[c] \in CallType
      /\ call[c].pgm \in Pgms /\ state[c] \in States /\ known \subseteq Clients
    BY ConnsDiffer DEF Inv, Types, CallType
<1>3. y \in ReplyType /\ y.ok = o.ok /\ y.state = o.state
  <2>1. Len(log) \in Nat
      BY DEF Inv, Types
  <2> QED BY <1>2, <2>1 DEF Result, ReplyType
<1> HIDE DEF y
<1>4. reply'[c] = y /\ out'[Remote(c)] = NoResult /\ pc'[c] = "reply"
    BY <1>1, <1>2 DEF Inv, Types
<1>5. Vacant(c)' /\ Callers(c)'
    BY <1>1, <1>2, <1>4 DEF ClientOK, Vacant, Callers
<1>6. Beliefs(c)'
    BY <1>1, <1>2, <1>3, <1>4, NothingOK DEF ClientOK, Beliefs, Agree, Refuses, AtRest
<1>7. "reply" \in Labels
    BY DEF Labels
<1> QED BY <1>1, <1>2, <1>3, <1>5, <1>6, <1>7, NothingOK, CallInv DEF ClientOK

\* A program that is sent to the connection's thread, or refused.
LEMMA RunRemoteFacts ==
    ASSUME Inv, NEW c \in Clients, pc[c] \in {"rpc", "create"}, RunRemote(c),
           c \in known', reply' = reply
    PROVE  /\ ClientOK(c)' /\ call' = call
           /\ \E l \in Labels : pc' = [pc EXCEPT ![c] = l]
           /\ \/ inbox' = inbox
              \/ inbox' = [inbox EXCEPT ![Remote(c)] =
                              Append(inbox[Remote(c)], [pgm |-> call[c].pgm, rcv |-> TRUE])]
           /\ out' = out \/ out' = [out EXCEPT ![Remote(c)] = Failed]
           /\ Failed \in Result
<1> DEFINE k == Remote(c)
           b == Append(inbox[k], [pgm |-> call[c].pgm, rcv |-> TRUE])
<1>1. /\ ClientOK(c) /\ out[k] = NoResult /\ ~reply[c].ok
      /\ \A i \in DOMAIN inbox[k] : ~inbox[k][i].rcv
      /\ call[c].pgm \in Pgms /\ pc \in [Clients -> Labels] /\ k \in Conns
    BY RestFacts, ConnsDiffer
<1>2. /\ inbox \in [Conns -> Seq(Callback)] /\ out \in [Conns -> Result] /\ Types
    BY DEF Inv, Types
<1>3. /\ Len(b) = Len(inbox[k]) + 1 /\ DOMAIN b = 1..(Len(inbox[k]) + 1)
      /\ Len(inbox[k]) \in Nat /\ DOMAIN inbox[k] = 1..Len(inbox[k])
      /\ \A i \in DOMAIN inbox[k] : b[i] = inbox[k][i]
    BY <1>1, <1>2, SendFacts
<1>4. Failed \in Result /\ ~Failed.ok /\ ~NoResult.ok
    BY DEF Failed, Result, NoResult
<1>5. \/ pc' = [pc EXCEPT ![c] = "remote"] /\ inbox' = inbox /\ out' = [out EXCEPT ![k] = Failed]
      \/ pc' = [pc EXCEPT ![c] = "remote"] /\ inbox' = [inbox EXCEPT ![k] = b] /\ out' = out
      \/ pc' = [pc EXCEPT ![c] = "reply"] /\ inbox' = inbox /\ out' = out
    BY DEF RunRemote, Goto, Send
<1> HIDE DEF b
<1>6. \/ pc'[c] = "remote" /\ inbox'[k] = inbox[k] /\ out'[k] = Failed
      \/ pc'[c] = "remote" /\ inbox'[k] = b /\ out'[k] = NoResult
      \/ pc'[c] = "reply" /\ inbox'[k] = inbox[k] /\ out'[k] = NoResult
    BY <1>1, <1>2, <1>5
<1>7. Vacant(c)'
    BY <1>6 DEF Vacant
<1>8. Callers(c)'
  <2>1. \A i \in DOMAIN b : b[i].rcv => i = Len(b)
      BY <1>1, <1>3
  <2> QED BY <1>1, <1>6, <2>1 DEF Callers
<1>9. Beliefs(c)'
    BY <1>1, <1>4, <1>6 DEF Beliefs, AtRest
<1>10. call' = call /\ {"remote", "reply"} \subseteq Labels
    BY DEF RunRemote, Goto, Labels
<1> QED BY <1>4, <1>5, <1>7, <1>8, <1>9, <1>10 DEF ClientOK, b

\* The service sends a program to a connection that it has for the client.
LEMMA RpcKnownInv ==
    ASSUME Inv, NEW c \in Clients, RpcKnown(c)
    PROVE  Inv'
<1>1. /\ pc[c] \in {"rpc", "create"} /\ RunRemote(c) /\ c \in known' /\ reply' = reply
      /\ UNCHANGED <<log, replica, writer, conn, restarted, state, known>>
    BY DEF RpcKnown, boundVars
<1>2. /\ ClientOK(c)' /\ call' = call
      /\ \/ inbox' = inbox
         \/ inbox' = [inbox EXCEPT ![Remote(c)] =
                         Append(inbox[Remote(c)], [pgm |-> call[c].pgm, rcv |-> TRUE])]
      /\ out' = out \/ out' = [out EXCEPT ![Remote(c)] = Failed]
      /\ Failed \in Result
    BY <1>1, RunRemoteFacts
<1>3. PICK l \in Labels : pc' = [pc EXCEPT ![c] = l]
    BY <1>1, RunRemoteFacts
<1>4. /\ call[c].pgm \in Pgms /\ call[c] \in CallType /\ state[c] \in States
      /\ reply[c] \in ReplyType /\ known \subseteq Clients
    BY <1>1, RestFacts DEF Inv, Types
<1> QED BY <1>1, <1>2, <1>3, <1>4, CallInv

\* A new connection: the thread it replaces, if any, has ended and has no lock.
LEMMA CreateInv ==
    ASSUME Inv, NEW c \in Clients, Create(c)
    PROVE  Inv'
<1> DEFINE k == Remote(c)
           q == NewConn("idle")
           b == Append(inbox[k], [pgm |-> call[c].pgm, rcv |-> TRUE])
<1>1. /\ pc[c] \in {"rpc", "create"} /\ pc[c] = "create" /\ RunRemote(c)
      /\ c \in known' /\ reply' = reply
      /\ conn' = [conn EXCEPT ![k] = q] /\ known' = known \cup {c}
      /\ UNCHANGED <<log, replica, writer, restarted, state>>
    BY DEF Create, boundVars
<1>2. /\ ClientOK(c)' /\ call' = call
      /\ inbox' = inbox \/ inbox' = [inbox EXCEPT ![k] = b]
      /\ out' = out \/ out' = [out EXCEPT ![k] = Failed]
      /\ Failed \in Result
    BY <1>1, RunRemoteFacts
<1>3. PICK l \in Labels : pc' = [pc EXCEPT ![c] = l]
    BY <1>1, RunRemoteFacts
<1>4. /\ call[c].pgm \in Pgms /\ ClientOK(c) /\ k \in Conns /\ Local(c) \in Conns \ {k}
      /\ c \notin known
    BY <1>1, RestFacts, ConnsDiffer DEF ClientOK, Vacant
<1>5. /\ conn \in [Conns -> ConnRecord] /\ inbox \in [Conns -> Seq(Callback)]
      /\ out \in [Conns -> Result] /\ pc \in [Clients -> Labels] /\ Types
    BY DEF Inv, Types
<1>6. q \in ConnRecord /\ q.th = "idle" /\ q.results = <<>>
    BY NewConnOK DEF NewConn
<1>7. b \in Seq(Callback)
    BY <1>4, <1>5, SendFacts
<1> HIDE DEF q, b
<1>8. /\ conn' \in [Conns -> ConnRecord] /\ inbox' \in [Conns -> Seq(Callback)]
      /\ out' \in [Conns -> Result] /\ pc' \in [Clients -> Labels]
      /\ conn'[k] = q
      /\ \A j \in Conns \ {k} : conn'[j] = conn[j] /\ inbox'[j] = inbox[j] /\ out'[j] = out[j]
      /\ \A d \in Clients \ {c} : pc'[d] = pc[d]
  <2>1. conn' \in [Conns -> ConnRecord] /\ conn'[k] = q /\ \A j \in Conns \ {k} : conn'[j] = conn[j]
      BY <1>1, <1>4, <1>5, <1>6
  <2>2. inbox' \in [Conns -> Seq(Callback)] /\ \A j \in Conns \ {k} : inbox'[j] = inbox[j]
      BY <1>2, <1>4, <1>5, <1>7
  <2>3. out' \in [Conns -> Result] /\ \A j \in Conns \ {k} : out'[j] = out[j]
      BY <1>2, <1>4, <1>5
  <2>4. pc' \in [Clients -> Labels] /\ \A d \in Clients \ {c} : pc'[d] = pc[d]
      BY <1>3, <1>5
  <2> QED BY <2>1, <2>2, <2>3, <2>4
<1>9. Types'
    BY <1>1, <1>2, <1>5, <1>8 DEF Types
<1>10. WriterIsLive'
  <2>1. conn[k].th = "none"
      BY <1>1, <1>4 DEF ClientOK, Vacant
  <2> QED BY <1>1, <1>8, <2>1 DEF Inv, Types, WriterIsLive
<1>11. ConnOK(k)'
    BY <1>6, <1>8 DEF ConnOK, RunsSomething, RollsBack
<1>12. ConnOK(Local(c))'
    BY <1>4, <1>8, InboxGrows
<1>13. \A d \in Clients \ {c} : Untouched(d)
  <2> SUFFICES ASSUME NEW d \in Clients \ {c} PROVE Untouched(d)
      OBVIOUS
  <2>1. {Local(d), Remote(d)} \subseteq Conns \ {k}
      BY ConnsDiffer
  <2> QED BY <1>1, <1>8, <2>1 DEF Untouched
<1> QED BY <1>2, <1>9, <1>10, <1>11, <1>12, <1>13, Frame

\* A call that breaks off: nobody waits for its program any more.
LEMMA BreakInv ==
    ASSUME Inv, NEW c \in Clients, Break(c)
    PROVE  Inv'
<1> DEFINE k == Remote(c)
           last == Len(inbox[k])
           e == [inbox[k][last] EXCEPT !.rcv = FALSE]
           b == IF pc[c] = "remote" /\ out[k] = NoResult
                THEN [inbox[k] EXCEPT ![last] = e] ELSE inbox[k]
<1>1. /\ pc[c] \in {"rpc", "create", "remote", "reply"}
      /\ pc' = [pc EXCEPT ![c] = "idle"] /\ call' = [call EXCEPT ![c] = NoCall]
      /\ state' = [state EXCEPT ![c] = "Invalid"]
      /\ reply' = [reply EXCEPT ![c] = NoReply]
      /\ out' = [out EXCEPT ![k] = NoResult]
      /\ UNCHANGED <<log, replica, writer, conn, known, restarted>>
    BY DEF Break, Return, DropHandler, Take
<1>2. /\ ClientOK(c) /\ k \in Conns /\ Types /\ known \subseteq Clients
      /\ inbox \in [Conns -> Seq(Callback)] /\ out \in [Conns -> Result]
      /\ inbox[k] \in Seq(Callback)
    BY ConnsDiffer DEF Inv, Types
<1>3. inbox' = [inbox EXCEPT ![k] = b]
    BY <1>2 DEF Break, DropHandler
<1>4. last \in Nat /\ DOMAIN inbox[k] = 1..last
    BY <1>2, LenProperties
<1>5. /\ b \in Seq(Callback) /\ DOMAIN b = DOMAIN inbox[k]
      /\ \A i \in DOMAIN b : ~b[i].rcv /\ b[i].pgm = inbox[k][i].pgm
  <2>1. CASE pc[c] = "remote" /\ out[k] = NoResult /\ inbox[k] # <<>>
    <3>1. last \in 1..last /\ inbox[k][last] \in Callback
        BY <1>2, <2>1, InboxFacts, ElementOfSeq
    <3>2. e \in Callback /\ ~e.rcv /\ e.pgm = inbox[k][last].pgm
        BY <3>1 DEF Callback
    <3> HIDE DEF e
    <3>3. /\ b \in Seq(Callback) /\ Len(b) = last
          /\ \A i \in 1..last : b[i] = IF i = last THEN e ELSE inbox[k][i]
        BY <1>2, <2>1, <3>1, <3>2, ExceptSeq
    <3>4. DOMAIN b = 1..last
        BY <3>3, LenProperties
    <3>5. \A i \in 1..last : i # last => ~inbox[k][i].rcv
        BY <1>2, <1>4 DEF ClientOK, Callers
    <3> QED BY <1>4, <3>2, <3>3, <3>4, <3>5
  <2>2. CASE inbox[k] = <<>>
    <3>1. last = 0
        BY <2>2, EmptySeq
    <3>2. DOMAIN b = {} /\ DOMAIN inbox[k] = {}
        BY <1>4, <3>1
    <3>3. b = inbox[k]
        BY <1>2, <1>4, <3>2, <3>1
    <3> QED BY <1>2, <3>2, <3>3
  <2>3. CASE ~(pc[c] = "remote" /\ out[k] = NoResult)
    <3>1. b = inbox[k] /\ \A i \in DOMAIN b : ~inbox[k][i].rcv
        BY <1>2, <2>3 DEF ClientOK, Callers
    <3> QED BY <1>2, <3>1
  <2> QED BY <2>1, <2>2, <2>3
<1> HIDE DEF b
<1>6. /\ inbox' \in [Conns -> Seq(Callback)] /\ inbox'[k] = b
      /\ \A j \in Conns \ {k} : inbox'[j] = inbox[j]
    BY <1>2, <1>3, <1>5
<1>7. /\ out' \in [Conns -> Result] /\ out'[k] = NoResult
      /\ \A j \in Conns \ {k} : out'[j] = out[j]
    BY <1>1, <1>2, NothingOK
<1>8. /\ Types' /\ pc'[c] = "idle"
      /\ \A d \in Clients \ {c} :
             pc'[d] = pc[d] /\ state'[d] = state[d] /\ reply'[d] = reply[d]
  <2>1. "idle" \in Labels /\ "Invalid" \in States
      BY DEF Labels, States
  <2> QED BY <1>1, <1>2, <1>6, <1>7, <2>1, NothingOK, CallTypes
<1>9. ConnOK(k)'
  <2>1. inbox[k] # <<>> => b # <<>> /\ Head(b).pgm = Head(inbox[k]).pgm
    <3> SUFFICES ASSUME inbox[k] # <<>>
                 PROVE  b # <<>> /\ Head(b).pgm = Head(inbox[k]).pgm
        OBVIOUS
    <3>1. 1 \in DOMAIN inbox[k] /\ Head(inbox[k]) = inbox[k][1]
        BY <1>2, InboxFacts
    <3>2. b # <<>> /\ Head(b) = b[1]
        BY <1>5, <3>1
    <3> QED BY <1>5, <3>1, <3>2
  <2> QED BY <1>1, <1>2, <1>6, <2>1, InboxGrows
<1>10. ConnOK(Local(c))'
    BY <1>1, <1>6, ConnsDiffer, InboxGrows
<1>11. state'[c] = "Invalid" /\ ~reply'[c].ok
    BY <1>1, NothingOK DEF Inv, Types
<1>12. ClientOK(c)'
  <2>1. Vacant(c)'
      BY <1>1, <1>2, <1>8 DEF ClientOK, Vacant
  <2>2. Callers(c)'
      BY <1>5, <1>6, <1>7, <1>11 DEF Callers
  <2>3. Beliefs(c)'
      BY <1>7, <1>11, NothingOK DEF Beliefs
  <2> QED BY <2>1, <2>2, <2>3 DEF ClientOK
<1> QED BY <1>1, <1>6, <1>7, <1>8, <1>9, <1>10, <1>12, CallFrame

-----------------------------------------------------------------------------
(* The primary, the replicator and other clients. *)

\* After a restart no client has a connection; who relied on one has a call that
\* failed, or is excused.
LEMMA RestartInv ==
    ASSUME Inv, Restart
    PROVE  Inv'
<1> DEFINE hit(c) == pc[c] \in {"rpc", "create", "remote", "reply"}
<1>1. /\ restarted' = TRUE /\ writer' = NoConn /\ known' = {} /\ UNCHANGED <<log, replica>>
      /\ reply' = [c \in Clients |-> NoReply]
      /\ pc' = [c \in Clients |-> IF hit(c) THEN "idle" ELSE pc[c]]
      /\ call' = [c \in Clients |-> IF hit(c) THEN NoCall ELSE call[c]]
      /\ state' = [c \in Clients |-> IF hit(c) THEN "Invalid" ELSE state[c]]
      /\ conn' = [k \in Conns |-> IF k[1] = "remote" THEN NewConn("none") ELSE conn[k]]
      /\ inbox' = [k \in Conns |-> IF k[1] = "remote" THEN <<>> ELSE inbox[k]]
      /\ out' = [k \in Conns |-> IF k[1] = "remote" THEN NoResult ELSE out[k]]
  <2> DEFINE H == {c \in Clients : pc[c] \in {"rpc", "create", "remote", "reply"}}
  <2>1. \A c \in Clients : c \in H <=> hit(c)
      OBVIOUS
  <2>2. /\ pc' = [c \in Clients |-> IF c \in H THEN "idle" ELSE pc[c]]
        /\ call' = [c \in Clients |-> IF c \in H THEN NoCall ELSE call[c]]
        /\ state' = [c \in Clients |-> IF c \in H THEN "Invalid" ELSE state[c]]
      BY DEF Restart
  <2>3. /\ pc' = [c \in Clients |-> IF hit(c) THEN "idle" ELSE pc[c]]
        /\ call' = [c \in Clients |-> IF hit(c) THEN NoCall ELSE call[c]]
        /\ state' = [c \in Clients |-> IF hit(c) THEN "Invalid" ELSE state[c]]
      BY <2>1, <2>2
  <2> QED BY <2>3 DEF Restart
<1>2. Types'
  <2>1. NewConn("none") \in ConnRecord /\ NoCall \in CallType /\ NoReply \in ReplyType
        /\ NoResult \in Result /\ <<>> \in Seq(Callback)
      BY NewConnOK, NothingOK, EmptySeq
  <2>2. /\ conn' \in [Conns -> ConnRecord] /\ inbox' \in [Conns -> Seq(Callback)]
        /\ out' \in [Conns -> Result]
      BY <1>1, <2>1 DEF Inv, Types
  <2>3. /\ pc' \in [Clients -> Labels] /\ state' \in [Clients -> States]
      BY <1>1 DEF Inv, Types, Labels, States
  <2>4. call' \in [Clients -> CallType] /\ reply' \in [Clients -> ReplyType]
      BY <1>1, <2>1 DEF Inv, Types
  <2> QED BY <1>1, <2>2, <2>3, <2>4 DEF Inv, Types
<1>3. WriterIsLive'
    BY <1>1 DEF WriterIsLive
<1>4. ASSUME NEW k \in Conns
      PROVE  ConnOK(k)'
  <2>1. CASE k[1] = "remote"
    <3>1. conn'[k] = NewConn("none")
        BY <1>1, <2>1
    <3>2. conn'[k].th = "none" /\ conn'[k].results = <<>>
        BY <3>1 DEF NewConn
    <3> QED BY <3>2 DEF ConnOK, RunsSomething, RollsBack
  <2>2. CASE k[1] # "remote"
    <3>1. conn'[k] = conn[k] /\ inbox'[k] = inbox[k]
        BY <1>1, <2>2
    <3> QED BY <3>1, InboxGrows
  <2> QED BY <2>1, <2>2
<1>5. ASSUME NEW c \in Clients
      PROVE  ClientOK(c)'
  <2>1. /\ conn'[Remote(c)] = NewConn("none") /\ inbox'[Remote(c)] = <<>>
        /\ out'[Remote(c)] = NoResult /\ reply'[c] = NoReply
      BY <1>1, ConnsDiffer
  <2>2. conn'[Remote(c)].th = "none" /\ conn'[Remote(c)].autocommit
      BY <2>1 DEF NewConn
  <2>3. /\ pc'[c] = IF hit(c) THEN "idle" ELSE pc[c]
        /\ state'[c] = IF hit(c) THEN "Invalid" ELSE state[c]
      BY <1>1
  <2>4. Vacant(c)' /\ Callers(c)'
      BY <1>1, <2>1, <2>2, <2>3, NothingOK DEF Vacant, Callers
  <2>5. ClientOK(c)
      BY DEF Inv
  <2>6. Beliefs(c)'
      BY <1>1, <2>1, <2>2, <2>3, <2>5, NothingOK DEF ClientOK, Beliefs, Agree
  <2> QED BY <2>4, <2>6 DEF ClientOK
<1> QED BY <1>2, <1>3, <1>4, <1>5 DEF Inv

\* Other writers, the replicator, the configuration, and stuttering.
LEMMA EnvironmentInv ==
    ASSUME Inv,
           OtherWrite \/ Inject \/ ReplicatorExits \/ Store \/ Idle \/ UNCHANGED vars
    PROVE  Inv'
<1>1. /\ UNCHANGED <<conn, inbox, out, writer, pc, call, state, reply, known, restarted>>
      /\ replica' \in {replica, replica + 1} /\ log' \in {log, Append(log, NoConn)}
    BY DEF OtherWrite, Inject, ReplicatorExits, Store, Idle, vars, connVars, proxyVars,
           serviceVars, boundVars
<1>2. Types'
  <2>1. log' \in Seq(Conns \cup {NoConn})
    <3>1. log \in Seq(Conns \cup {NoConn}) /\ NoConn \in Conns \cup {NoConn}
        BY DEF Inv, Types
    <3>2. Append(log, NoConn) \in Seq(Conns \cup {NoConn})
        BY <3>1, AppendProperties
    <3> QED BY <1>1, <3>1, <3>2
  <2>2. replica' \in Nat
      BY <1>1 DEF Inv, Types
  <2> QED BY <1>1, <2>1, <2>2 DEF Inv, Types
<1>3. WriterIsLive'
    BY <1>1 DEF Inv, WriterIsLive
<1>4. \A k \in Conns : ConnOK(k)'
    BY <1>1, InboxGrows
<1>5. \A c \in Clients : Vacant(c)' /\ Callers(c)'
    BY <1>1 DEF Inv, ClientOK, Vacant, Callers
<1>6. \A c \in Clients : Beliefs(c)'
    BY <1>1 DEF Inv, ClientOK, Beliefs, Agree, Refuses
<1> QED BY <1>2, <1>3, <1>4, <1>5, <1>6 DEF Inv, ClientOK

-----------------------------------------------------------------------------
(* The theorems. *)

\* Inv is inductive.
LEMMA NextInv == Inv /\ [Next]_vars => Inv'
<1> SUFFICES ASSUME Inv, [Next]_vars PROVE Inv'
    OBVIOUS
<1>1. ASSUME NEW k \in Conns, ThreadStep(k) \/ TooLarge(k) PROVE Inv'
    BY <1>1, ThreadInv
<1>2. ASSUME NEW c \in Clients, Execute(c) \/ Proxy(c) \/ ReplyTooLarge(c) PROVE Inv'
    BY <1>2, ExecuteInv, LocalInv, ReplyInv DEF Proxy
<1>3. ASSUME NEW c \in Clients, Service(c) PROVE Inv'
    BY <1>3, RpcKnownInv, LeaveInv, CreateInv, RpcDoneInv DEF Service
<1>4. ASSUME NEW c \in Clients, Break(c) \/ Drop(c) \/ DisconnectLost(c) PROVE Inv'
    BY <1>4, BreakInv, LeaveInv
<1>5. ASSUME Restart \/ OtherWrite \/ Inject \/ ReplicatorExits \/ Store \/ Idle
             \/ UNCHANGED vars
      PROVE Inv'
    BY <1>5, RestartInv, EnvironmentInv
<1> QED BY <1>1, <1>2, <1>3, <1>4, <1>5 DEF Next

\* The inductive invariant holds in every behaviour.
LEMMA InvHolds == Spec => []Inv
    BY InitInv, NextInv, PTL DEF Spec

\* SQLite's write lock is held by a transaction that can still be committed, for any
\* number of clients: a thread that ends or times out gives it back.
THEOREM LockIsLive == Spec => []WriterIsLive
<1>1. Inv => WriterIsLive
    BY DEF Inv
<1> QED BY <1>1, InvHolds, PTL

\* A client that believes to be in a transaction has it open on the primary, or a
\* connection there that refuses everything: execute_remote stores what it was told,
\* and nothing that changes the connection is left behind by a call that broke off.
THEOREM TransactionsStayWhole == Spec => []TxnStaysWhole
<1>1. Inv => TxnStaysWhole
  <2> SUFFICES ASSUME Inv, ~restarted, NEW c \in Clients, state[c] = "Txn", pc[c] = "idle"
               PROVE  c \in known /\ (~conn[Remote(c)].autocommit \/ Refuses(Remote(c)))
      BY DEF TxnStaysWhole
  <2>1. Agree(c, "Txn")
      BY DEF Inv, ClientOK, Beliefs, AtRest
  <2> QED BY <2>1 DEF Agree
<1> QED BY <1>1, InvHolds, PTL

\* A program runs on the replica only if its client has no transaction open on the
\* primary.
THEOREM ReadsAreOutsideTransactions == Spec => []NoTxnBehindReads
<1>1. Inv => NoTxnBehindReads
  <2> SUFFICES ASSUME Inv, NEW c \in Clients, state[c] = "Init",
                      pc[c] \in {"sync", "local", "undo"}
               PROVE  conn[Remote(c)].autocommit
      BY DEF NoTxnBehindReads
  <2>1. Agree(c, "Init")
      BY DEF Inv, ClientOK, Beliefs, AtRest
  <2> QED BY <2>1 DEF Agree
<1> QED BY <1>1, InvHolds, PTL

\* execute_batch_or_rollback leaves no transaction open when a step before its last
\* failed, whatever the batch is and whatever is blocked meanwhile.
THEOREM FailedBatchesRollBack == Spec => []BatchRollsBack
<1>1. Inv => BatchRollsBack
    BY DEF Inv, ConnOK, RollsBack, BatchRollsBack
<1> QED BY <1>1, InvHolds, PTL

-----------------------------------------------------------------------------
(* The replica shows a client its own writes (ReadYourWrites), for any      *)
(* number of clients, programs and failures, as long as frame numbers do    *)
(* not reach FrameNo::MAX and the replica has applied a frame (a fresh      *)
(* replica announces FrameNo::MAX and lets every read through).             *)
(*                                                                          *)
(* A frame number takes four hands: the primary's answer bounds the         *)
(* client's newest frame, last_write_frame_no bounds the answer, the        *)
(* replicator's announcement bounds that, and the snapshot of the read,     *)
(* taken after the announcement, bounds them all.                           *)

\* The replica has more than it announces.
Announced == applied \in Nat /\ replica \in Nat /\ applied < replica

\* Frame numbers are numbers.
FrameTypes == last_write \in [Clients -> Nat] /\ acked \in [Clients -> Nat]

\* No frame of the client is newer than the answer that it is about to get.
AnswerIsNewest(c) ==
    reply[c].ok =>
        /\ reply[c].frame_no <= Len(log)
        /\ \A i \in DOMAIN log : log[i] = Remote(c) => i <= reply[c].frame_no

\* The client waits for what it was told of.
WaitsForWrites(c) ==
    acked[c] = 0 \/ (last_write[c] # FrameNoMax /\ acked[c] <= last_write[c])

\* A program is on the replica only once the replica has what the client was told of;
\* it is alone there, and its transaction reads nothing older.
LocalReads(c) ==
    LET k == Local(c)
    IN  /\ inbox[k] # <<>> => /\ pc[c] \in {"local", "undo"}
                              /\ Len(inbox[k]) = 1 /\ out[k] = NoResult
        /\ out[k] # NoResult => pc[c] \in {"local", "undo"}
        /\ conn[k].autocommit => conn[k].snapshot = NoSnapshot
        /\ conn[k].th = "run" /\ conn[k].before =>
               conn[k].snapshot = NoSnapshot \/ conn[k].snapshot >= acked[c]
        /\ pc[c] \in {"local", "undo"} => acked[c] <= replica

\* What holds of every client.
ReadOK(c) == AnswerIsNewest(c) /\ WaitsForWrites(c) /\ LocalReads(c)

\* The inductive invariant, next to Inv.
RInv == Announced /\ FrameTypes /\ \A c \in Clients : ReadOK(c)

-----------------------------------------------------------------------------

\* It holds initially, on a replica that has applied a frame.
LEMMA InitRInv == ~FreshReplica /\ Init => RInv
<1> SUFFICES ASSUME ~FreshReplica, Init PROVE RInv
    OBVIOUS
<1>1. Announced /\ FrameTypes
    BY DEF Init, Announced, FrameTypes, FrameNoMax
<1>2. ASSUME NEW c \in Clients
      PROVE  ReadOK(c)
  <2>1. Local(c) \in Conns /\ Remote(c) \in Conns
      BY ConnsDiffer
  <2>2. conn[Local(c)].autocommit /\ conn[Local(c)].snapshot = NoSnapshot
      BY <2>1 DEF Init, NewConn
  <2> QED BY <2>1, <2>2 DEF Init, ReadOK, AnswerIsNewest, WaitsForWrites, LocalReads, NoReply
<1> QED BY <1>1, <1>2 DEF RInv

\* The newest frame of a client is one of its frames, or 0.
LEMMA NewestFacts ==
    ASSUME Types, NEW c
    PROVE  /\ Newest(c) \in Nat
           /\ Newest(c) = 0 \/ (Newest(c) \in DOMAIN log /\ log[Newest(c)] = Remote(c))
<1> DEFINE S == {0} \cup {i \in DOMAIN log : log[i] = Remote(c)}
           n == Len(log)
<1>1. n \in Nat /\ DOMAIN log = 1..n
    BY LenProperties DEF Types
<1>2. S \subseteq 0..n /\ S # {}
    BY <1>1
<1> HIDE DEF S, n
<1>3. \E x \in S : \A z \in S : x >= z
    BY <1>1, <1>2, GreatestBelow
<1>4. Max(S) \in S
    BY <1>3 DEF Max
<1> QED BY <1>1, <1>2, <1>4 DEF Newest, S

-----------------------------------------------------------------------------
(* The steps of a thread. *)

\* Only the thread of a client's connection on the replica matters to its reads; no
\* thread commits a frame of a client that is about to be answered.
LEMMA ThreadReads ==
    ASSUME Inv, RInv, NEW k \in Conns, Only(k), replica' = replica,
           log' = log \/ (log' = Append(log, k) /\ inbox[k] # <<>>),
           \A c \in Clients : k = Local(c) => LocalReads(c)'
    PROVE  RInv'
<1>1. UNCHANGED <<applied, last_write, acked, reply, pc, state>>
    BY DEF Only, proxyVars, viewVars, serviceVars
<1>2. Announced' /\ FrameTypes'
    BY <1>1 DEF RInv, Announced, FrameTypes
<1>3. ASSUME NEW c \in Clients
      PROVE  ReadOK(c)'
  <2>1. ReadOK(c) /\ Local(c) \in Conns
      BY ConnsDiffer DEF RInv
  <2>2. WaitsForWrites(c)'
      BY <1>1, <2>1 DEF ReadOK, WaitsForWrites
  <2>3. LocalReads(c)'
    <3>1. CASE k = Local(c)
        BY <3>1
    <3>2. CASE k # Local(c)
        BY <1>1, <2>1, <3>2 DEF Only, ReadOK, LocalReads
    <3> QED BY <3>1, <3>2
  <2>4. AnswerIsNewest(c)'
    <3>1. CASE log' = log
        BY <1>1, <2>1, <3>1 DEF ReadOK, AnswerIsNewest
    <3>2. CASE log' = Append(log, k) /\ inbox[k] # <<>>
      <4> SUFFICES ASSUME reply[c].ok
                   PROVE  /\ reply[c].frame_no <= Len(log')
                          /\ \A i \in DOMAIN log' : log'[i] = Remote(c) => i <= reply[c].frame_no
          BY <1>1 DEF AnswerIsNewest
      <4>1. inbox[Remote(c)] = <<>>
          BY BusyInbox
      <4>2. k # Remote(c)
          BY <3>2, <4>1
      <4>3. log \in Seq(Conns \cup {NoConn}) /\ reply[c] \in ReplyType
          BY DEF Inv, Types
      <4>4. /\ Len(log') = Len(log) + 1 /\ log'[Len(log) + 1] = k
            /\ \A j \in 1..Len(log) : log'[j] = log[j]
            /\ DOMAIN log' = 1..(Len(log) + 1) /\ DOMAIN log = 1..Len(log) /\ Len(log) \in Nat
          BY <3>2, <4>3, AppendProperties, LenProperties
      <4>5. \A i \in DOMAIN log' : log'[i] = Remote(c) => i \in DOMAIN log /\ log[i] = Remote(c)
          BY <4>2, <4>4
      <4>6. reply[c].frame_no \in Nat
          BY <4>3 DEF ReplyType
      <4> QED BY <2>1, <4>4, <4>5, <4>6 DEF ReadOK, AnswerIsNewest
    <3> QED BY <3>1, <3>2
  <2> QED BY <2>2, <2>3, <2>4 DEF ReadOK
<1> QED BY <1>2, <1>3 DEF RInv

\* What a read of a program on the replica returns.
LEMMA FreshRead ==
    ASSUME Inv, RInv, NEW c \in Clients, Running(Local(c)), conn[Local(c)].before
    PROVE  ReadVersion(Local(c)) >= acked[c]
<1>1. Local(c) \in Conns /\ Local(c)[1] = "local"
    BY ConnsDiffer
<1>2. inbox[Local(c)] # <<>> /\ conn[Local(c)].th = "run"
    BY <1>1, RunningFacts
<1>3. acked[c] \in Nat /\ replica \in Nat /\ LocalReads(c)
    BY DEF RInv, Announced, FrameTypes, ReadOK
<1>4. replica >= acked[c]
    BY <1>2, <1>3 DEF LocalReads
<1> QED BY <1>1, <1>2, <1>3, <1>4 DEF LocalReads, ReadVersion, Version

\* The step of a program changes one record.
LEMMA OneRecord ==
    ASSUME Inv, NEW k \in Conns, NEW q, conn' = [conn EXCEPT ![k] = q],
           UNCHANGED <<inbox, out, proxyVars, serviceVars, boundVars>>
    PROVE  Only(k) /\ conn'[k] = q /\ inbox'[k] = inbox[k] /\ out'[k] = out[k]
    BY DEF Only, Inv, Types

\* The thread takes a program: its snapshot is at least as new as the write waited for.
LEMMA ReceiveReads ==
    ASSUME Inv, RInv, NEW k \in Conns, Receive(k), UNCHANGED <<proxyVars, serviceVars, boundVars>>
    PROVE  RInv'
<1> DEFINE r == [conn[k] EXCEPT !.th = "run", !.before = conn[k].autocommit]
<1>1. conn[k] \in ConnRecord /\ conn \in [Conns -> ConnRecord]
    BY DEF Inv, Types
<1>2. conn' = [conn EXCEPT ![k] = r] /\ UNCHANGED <<inbox, out, log, replica>>
    BY <1>1 DEF Receive
<1>3. /\ r.autocommit = conn[k].autocommit /\ r.snapshot = conn[k].snapshot
      /\ r.before = conn[k].autocommit
    BY <1>1 DEF ConnRecord
<1> HIDE DEF r
<1>4. Only(k) /\ conn'[k] = r /\ inbox'[k] = inbox[k] /\ out'[k] = out[k]
    BY <1>2, OneRecord
<1>5. ASSUME NEW c \in Clients, k = Local(c)
      PROVE  LocalReads(c)'
    BY <1>2, <1>3, <1>4, <1>5 DEF RInv, ReadOK, LocalReads, proxyVars, viewVars
<1> QED BY <1>2, <1>4, <1>5, ThreadReads

\* A step that is skipped, or that fails, reads nothing.
LEMMA NoEffectReads ==
    ASSUME Inv, RInv, NEW k \in Conns, StepSkipped(k) \/ StepFails(k),
           UNCHANGED <<proxyVars, serviceVars, boundVars>>
    PROVE  RInv'
<1> DEFINE r == [conn[k] EXCEPT !.results = Append(conn[k].results, FALSE)]
<1>1. conn[k] \in ConnRecord /\ conn \in [Conns -> ConnRecord]
    BY DEF Inv, Types
<1>2. conn' = [conn EXCEPT ![k] = r] /\ UNCHANGED <<inbox, out, log, replica>>
    BY <1>1 DEF StepSkipped, StepFails
<1>3. /\ r.autocommit = conn[k].autocommit /\ r.snapshot = conn[k].snapshot
      /\ r.before = conn[k].before /\ r.th = conn[k].th
    BY <1>1 DEF ConnRecord
<1> HIDE DEF r
<1>4. Only(k) /\ conn'[k] = r /\ inbox'[k] = inbox[k] /\ out'[k] = out[k]
    BY <1>2, OneRecord
<1>5. ASSUME NEW c \in Clients, k = Local(c)
      PROVE  LocalReads(c)'
    BY <1>2, <1>3, <1>4, <1>5 DEF RInv, ReadOK, LocalReads, proxyVars, viewVars
<1> QED BY <1>2, <1>4, <1>5, ThreadReads

\* A statement leaves the snapshot, ends it with the transaction, or takes it now.
LEMMA EffectReads ==
    ASSUME Inv, NEW k \in Conns, Running(k), NEW stmt \in Statements,
           Runs(k, stmt), Effect(k, stmt)
    PROVE  \E r :
              /\ conn' = [conn EXCEPT ![k] = r]
              /\ r.before = conn[k].before
              /\ (conn[k].autocommit => conn[k].snapshot = NoSnapshot)
                 => (r.autocommit => r.snapshot = NoSnapshot)
              /\ r.snapshot \in {NoSnapshot, conn[k].snapshot, ReadVersion(k)}
              /\ log' \in {log, Append(log, k)}
<1> DEFINE done(new) == [new EXCEPT !.results = Append(@, TRUE)]
<1>1. conn[k] \in ConnRecord
    BY RunningFacts
<1>2. ASSUME NEW new \in ConnRecord, conn' = [conn EXCEPT ![k] = done(new)],
             new.before = conn[k].before,
             (conn[k].autocommit => conn[k].snapshot = NoSnapshot)
             => (new.autocommit => new.snapshot = NoSnapshot),
             new.snapshot \in {NoSnapshot, conn[k].snapshot, ReadVersion(k)},
             log' \in {log, Append(log, k)}
      PROVE  \E r :
              /\ conn' = [conn EXCEPT ![k] = r]
              /\ r.before = conn[k].before
              /\ (conn[k].autocommit => conn[k].snapshot = NoSnapshot)
                 => (r.autocommit => r.snapshot = NoSnapshot)
              /\ r.snapshot \in {NoSnapshot, conn[k].snapshot, ReadVersion(k)}
              /\ log' \in {log, Append(log, k)}
  <2>1. /\ done(new).before = new.before /\ done(new).autocommit = new.autocommit
        /\ done(new).snapshot = new.snapshot
      BY <1>2 DEF ConnRecord
  <2> HIDE DEF done
  <2> QED BY <1>2, <2>1
<1>3. ReadVersion(k) \in Int
  <2>1. replica \in Int /\ Len(log) \in Int
      BY DEF Inv, Types
  <2> QED BY <1>1, <2>1 DEF ReadVersion, Version, ConnRecord
<1>4. CASE stmt = "begin"
  <2> DEFINE new == [conn[k] EXCEPT !.autocommit = FALSE]
  <2>1. /\ new \in ConnRecord /\ new.before = conn[k].before /\ ~new.autocommit
        /\ new.snapshot = conn[k].snapshot
      BY <1>1 DEF ConnRecord
  <2>2. conn' = [conn EXCEPT ![k] = done(new)] /\ log' = log
      BY <1>4 DEF Effect
  <2> HIDE DEF new, done
  <2> QED BY <1>2, <2>1, <2>2
<1>5. CASE stmt \in {"read", "other", "write"} /\ (conn[k].autocommit \/ stmt = "other")
  <2>1. conn' = [conn EXCEPT ![k] = done(conn[k])] /\ log' \in {log, Append(log, k)}
      BY <1>5 DEF Effect
  <2> HIDE DEF done
  <2> QED BY <1>1, <1>2, <2>1
<1>6. CASE stmt = "read" /\ ~conn[k].autocommit
  <2> DEFINE new == [conn[k] EXCEPT !.snapshot = ReadVersion(k)]
  <2>1. /\ new \in ConnRecord /\ new.before = conn[k].before /\ ~new.autocommit
        /\ new.snapshot = ReadVersion(k)
      BY <1>1, <1>3, <1>6 DEF ConnRecord
  <2>2. conn' = [conn EXCEPT ![k] = done(new)] /\ log' = log
      BY <1>6 DEF Effect
  <2> HIDE DEF new, done
  <2> QED BY <1>2, <2>1, <2>2
<1>7. CASE stmt = "write" /\ ~conn[k].autocommit
  <2> DEFINE new == [conn[k] EXCEPT !.snapshot = ReadVersion(k), !.wrote = TRUE]
  <2>1. /\ new \in ConnRecord /\ new.before = conn[k].before /\ ~new.autocommit
        /\ new.snapshot = ReadVersion(k)
      BY <1>1, <1>3, <1>7 DEF ConnRecord
  <2>2. conn' = [conn EXCEPT ![k] = done(new)] /\ log' = log
      BY <1>7 DEF Effect
  <2> HIDE DEF new, done
  <2> QED BY <1>2, <2>1, <2>2
<1>8. CASE stmt \in {"commit", "rollback"}
  <2> DEFINE new == Ended(conn[k])
  <2>1. new \in ConnRecord
      BY <1>1, EndedOK
  <2>2. new.before = conn[k].before /\ new.snapshot = NoSnapshot
      BY <1>1 DEF ConnRecord, Ended
  <2>3. conn' = [conn EXCEPT ![k] = done(new)] /\ log' \in {log, Append(log, k)}
      BY <1>8 DEF Effect
  <2> HIDE DEF new, done
  <2> QED BY <1>2, <2>1, <2>2, <2>3
<1>9. stmt # "bad"
    BY DEF Runs
<1> QED BY <1>4, <1>5, <1>6, <1>7, <1>8, <1>9 DEF Statements

\* A statement runs.
LEMMA StepRunsReads ==
    ASSUME Inv, RInv, NEW k \in Conns, StepRuns(k), UNCHANGED <<proxyVars, serviceVars, boundVars>>
    PROVE  RInv'
<1>1. /\ Running(k) /\ NextStep(k).stmt \in Statements /\ conn[k].th = "run"
      /\ inbox[k] # <<>> /\ UNCHANGED <<inbox, out, replica>>
    BY RunningFacts DEF StepRuns
<1>2. PICK r :
          /\ conn' = [conn EXCEPT ![k] = r]
          /\ r.before = conn[k].before
          /\ (conn[k].autocommit => conn[k].snapshot = NoSnapshot)
             => (r.autocommit => r.snapshot = NoSnapshot)
          /\ r.snapshot \in {NoSnapshot, conn[k].snapshot, ReadVersion(k)}
          /\ log' \in {log, Append(log, k)}
    BY <1>1, EffectReads DEF StepRuns
<1>3. Only(k) /\ conn'[k] = r /\ inbox'[k] = inbox[k] /\ out'[k] = out[k]
    BY <1>1, <1>2, OneRecord
<1>4. ASSUME NEW c \in Clients, k = Local(c)
      PROVE  LocalReads(c)'
  <2>1. LocalReads(c) /\ UNCHANGED <<pc, acked>>
      BY DEF RInv, ReadOK, proxyVars, viewVars
  <2>2. conn[k].before => ReadVersion(k) >= acked[c]
      BY <1>1, <1>4, FreshRead
  <2> QED BY <1>1, <1>2, <1>3, <1>4, <2>1, <2>2 DEF LocalReads
<1> QED BY <1>1, <1>2, <1>3, <1>4, ThreadReads

\* The result of the only program that is there.
LEMMA RespondReads ==
    ASSUME Inv, RInv, NEW k \in Conns, NEW r \in ConnRecord, NEW result,
           inbox[k] # <<>>,
           (conn[k].autocommit => conn[k].snapshot = NoSnapshot)
             => (r.autocommit => r.snapshot = NoSnapshot),
           Respond(k, r, result),
           UNCHANGED <<log, replica, proxyVars, serviceVars, boundVars>>
    PROVE  RInv'
<1>1. Len(inbox[k]) = 1 => Tail(inbox[k]) = <<>>
    BY InboxFacts DEF Inv
<1>2. PICK q : /\ conn' = [conn EXCEPT ![k] = q] /\ q.th # "run"
               /\ (conn[k].autocommit => conn[k].snapshot = NoSnapshot)
                  => (q.autocommit => q.snapshot = NoSnapshot)
  <2>1. CASE Head(inbox[k]).rcv
    <3> DEFINE q == [r EXCEPT !.th = "idle", !.results = <<>>]
    <3>1. q.th = "idle" /\ q.autocommit = r.autocommit /\ q.snapshot = r.snapshot
        BY DEF ConnRecord
    <3>2. conn' = [conn EXCEPT ![k] = q]
        BY <2>1 DEF Respond
    <3> HIDE DEF q
    <3> QED BY <3>1, <3>2
  <2>2. CASE ~Head(inbox[k]).rcv
    <3> DEFINE q == [Ended(r) EXCEPT !.th = "dead", !.results = <<>>]
    <3>1. q.th = "dead" /\ q.snapshot = NoSnapshot
        BY DEF ConnRecord, Ended
    <3>2. conn' = [conn EXCEPT ![k] = q]
        BY <2>2 DEF Respond, Close
    <3> HIDE DEF q
    <3> QED BY <3>1, <3>2
  <2> QED BY <2>1, <2>2
<1>3. PICK b : inbox' = [inbox EXCEPT ![k] = b] /\ b \in {<<>>, Tail(inbox[k])}
    BY DEF Respond, Close
<1>4. out' = out \/ \E o : out' = [out EXCEPT ![k] = o]
    BY DEF Respond
<1>5. Only(k) /\ conn'[k] = q /\ inbox'[k] = b
    BY <1>2, <1>3, <1>4 DEF Only, Inv, Types
<1>6. ASSUME NEW c \in Clients, k = Local(c)
      PROVE  LocalReads(c)'
  <2>1. LocalReads(c) /\ UNCHANGED <<pc, acked>>
      BY DEF RInv, ReadOK, proxyVars, viewVars
  <2>2. pc[c] \in {"local", "undo"} /\ Len(inbox[k]) = 1
      BY <1>6, <2>1 DEF LocalReads
  <2> QED BY <1>1, <1>2, <1>3, <1>5, <1>6, <2>1, <2>2 DEF LocalReads
<1> QED BY <1>5, <1>6, ThreadReads

\* The thread answers: refused, too large or finished.
LEMMA AnswerReads ==
    ASSUME Inv, RInv, NEW k \in Conns, ReceiveTimedOut(k) \/ StepTooLarge(k) \/ Finish(k),
           UNCHANGED <<proxyVars, serviceVars, boundVars>>
    PROVE  RInv'
<1>1. conn[k] \in ConnRecord /\ ConnOK(k)
    BY DEF Inv, Types
<1>2. inbox[k] # <<>> /\ UNCHANGED <<log, replica>>
    BY <1>1 DEF ReceiveTimedOut, StepTooLarge, Finish, Running, ConnOK, RunsSomething
<1>3. CASE ReceiveTimedOut(k)
    BY <1>1, <1>2, <1>3, RespondReads DEF ReceiveTimedOut
<1>4. CASE StepTooLarge(k)
  <2> DEFINE r == [conn[k] EXCEPT !.snapshot = IF conn[k].autocommit THEN conn[k].snapshot
                                               ELSE ReadVersion(k)]
  <2>1. Respond(k, r, Failed)
      BY <1>4 DEF StepTooLarge
  <2>2. conn[k].snapshot \in Int /\ ReadVersion(k) \in Int
    <3>1. replica \in Int /\ Len(log) \in Int
        BY DEF Inv, Types
    <3> QED BY <1>1, <3>1 DEF ReadVersion, Version, ConnRecord
  <2>3. /\ r \in ConnRecord /\ r.autocommit = conn[k].autocommit
        /\ r.autocommit => r.snapshot = conn[k].snapshot
      BY <1>1, <2>2 DEF ConnRecord
  <2> HIDE DEF r
  <2> QED BY <1>2, <2>1, <2>3, RespondReads
<1>5. CASE Finish(k)
  <2> DEFINE r == [conn[k] EXCEPT !.deadline = (conn[k].before /\ ~conn[k].autocommit)
                                                \/ conn[k].deadline]
             result == [ok |-> TRUE, state |-> IF ~conn[k].autocommit THEN "Txn" ELSE "Init"]
  <2>1. Respond(k, r, result)
      BY <1>5 DEF Finish
  <2>2. /\ r \in ConnRecord /\ r.autocommit = conn[k].autocommit
        /\ r.snapshot = conn[k].snapshot
      BY <1>1 DEF ConnRecord
  <2> HIDE DEF r, result
  <2> QED BY <1>2, <2>1, <2>2, RespondReads
<1> QED BY <1>3, <1>4, <1>5

\* The transaction ends, and its snapshot with it.
LEMMA EndReads ==
    ASSUME Inv, RInv, NEW k \in Conns, Timeout(k) \/ Disconnected(k),
           UNCHANGED <<proxyVars, serviceVars, boundVars>>
    PROVE  RInv'
<1>1. conn[k] \in ConnRecord /\ conn[k].th = "idle" /\ inbox[k] = <<>>
      /\ UNCHANGED <<log, replica, out>>
    BY DEF Inv, Types, Timeout, Disconnected
<1>2. PICK q : conn' = [conn EXCEPT ![k] = q] /\ q.th # "run" /\ q.snapshot = NoSnapshot
  <2>1. CASE Timeout(k)
    <3> DEFINE q == [Ended(conn[k]) EXCEPT !.timed_out = TRUE, !.deadline = FALSE]
    <3>1. q.th = "idle" /\ q.snapshot = NoSnapshot
        BY <1>1 DEF ConnRecord, Ended
    <3>2. conn' = [conn EXCEPT ![k] = q]
        BY <2>1 DEF Timeout
    <3> HIDE DEF q
    <3> QED BY <3>1, <3>2
  <2>2. CASE Disconnected(k)
    <3> DEFINE q == [Ended(conn[k]) EXCEPT !.th = "none", !.results = <<>>]
    <3>1. q.th = "none" /\ q.snapshot = NoSnapshot
        BY <1>1 DEF ConnRecord, Ended
    <3>2. conn' = [conn EXCEPT ![k] = q]
        BY <2>2 DEF Disconnected, Close
    <3> HIDE DEF q
    <3> QED BY <3>1, <3>2
  <2> QED BY <2>1, <2>2
<1>3. inbox' = inbox \/ inbox' = [inbox EXCEPT ![k] = <<>>]
    BY DEF Timeout, Disconnected, Close
<1>4. Only(k) /\ conn'[k] = q /\ inbox'[k] = <<>> /\ out'[k] = out[k]
    BY <1>1, <1>2, <1>3 DEF Only, Inv, Types
<1>5. ASSUME NEW c \in Clients, k = Local(c)
      PROVE  LocalReads(c)'
    BY <1>1, <1>2, <1>4, <1>5 DEF RInv, ReadOK, LocalReads, proxyVars, viewVars
<1> QED BY <1>1, <1>4, <1>5, ThreadReads

\* Every step of a connection's thread.
LEMMA ThreadRInv ==
    ASSUME Inv, RInv, NEW k \in Conns, ThreadStep(k) \/ TooLarge(k)
    PROVE  RInv'
    BY ReceiveReads, NoEffectReads, StepRunsReads, AnswerReads, EndReads
    DEF ThreadStep, TooLarge, Thread

-----------------------------------------------------------------------------
(* The steps of a call. *)

\* The client d has no call that starts, ends or is answered on the replica.
SameLocally(d) ==
    /\ (pc'[d] \in {"local", "undo"}) = (pc[d] \in {"local", "undo"})
    /\ conn'[Local(d)] = conn[Local(d)] /\ inbox'[Local(d)] = inbox[Local(d)]
    /\ out'[Local(d)] = out[Local(d)]

\* A step that touches no local connection, no frame number and brings no new answer.
LEMMA SameReads ==
    ASSUME RInv, UNCHANGED <<log, replica, applied, last_write, acked>>,
           \A d \in Clients : SameLocally(d),
           \A d \in Clients : reply'[d].ok => reply'[d] = reply[d]
    PROVE  RInv'
<1>1. Announced' /\ FrameTypes'
    BY DEF RInv, Announced, FrameTypes
<1>2. \A d \in Clients : AnswerIsNewest(d)' /\ WaitsForWrites(d)'
    BY DEF RInv, ReadOK, AnswerIsNewest, WaitsForWrites
<1>3. \A d \in Clients : LocalReads(d)'
    BY DEF RInv, ReadOK, LocalReads, SameLocally
<1> QED BY <1>1, <1>2, <1>3 DEF RInv, ReadOK

\* The calls that have nothing to do with the replica.
LEMMA ElsewhereReads ==
    ASSUME Inv, RInv, NEW c \in Clients,
           \/ Execute(c) \/ SyncFails(c) \/ ReplyTooLarge(c) \/ ReplyError(c) \/ Break(c)
           \/ Drop(c) \/ RpcKnown(c) \/ RpcNew(c) \/ Create(c) \/ CreateTimeout(c)
           \/ Disconnect(c) \/ DisconnectLost(c)
    PROVE  RInv'
<1>0. /\ pc \in [Clients -> Labels] /\ reply \in [Clients -> ReplyType]
      /\ conn \in [Conns -> ConnRecord] /\ inbox \in [Conns -> Seq(Callback)]
      /\ out \in [Conns -> Result]
      /\ \A d \in Clients : Local(d) \in Conns /\ Local(d) # Remote(c)
    BY ConnsDiffer DEF Inv, Types
<1>1. UNCHANGED <<log, replica, applied, last_write, acked>>
    BY DEF Execute, SyncFails, ReplyTooLarge, ReplyError, Break, Drop, RpcKnown, RpcNew,
           Create, CreateTimeout, Disconnect, DisconnectLost, connVars, viewVars
<1>2. reply' = reply \/ reply' = [reply EXCEPT ![c] = NoReply]
  <2>1. CASE Execute(c) \/ SyncFails(c) \/ ReplyTooLarge(c) \/ ReplyError(c)
      BY <2>1 DEF Execute, SyncFails, ReplyTooLarge, ReplyError, serviceVars
  <2>2. CASE Break(c) \/ Drop(c)
      BY <2>2 DEF Break, DropHandler, Drop, serviceVars
  <2>3. CASE RpcKnown(c) \/ RpcNew(c) \/ Create(c) \/ CreateTimeout(c)
      BY <2>3 DEF RpcKnown, RpcNew, Create, CreateTimeout, serviceVars
  <2>4. CASE Disconnect(c) \/ DisconnectLost(c)
      BY <2>4 DEF Disconnect, DisconnectLost, serviceVars
  <2> QED BY <2>1, <2>2, <2>3, <2>4
<1>3. \A d \in Clients : reply'[d].ok => reply'[d] = reply[d]
    BY <1>0, <1>2, NothingOK
<1>4. PICK l : pc' = [pc EXCEPT ![c] = l] /\ l \notin {"local", "undo"}
  <2>1. CASE Execute(c)
    <3>1. pc' = [pc EXCEPT ![c] = "sync"] \/ pc' = [pc EXCEPT ![c] = "rpc"]
        BY <2>1 DEF Execute
    <3> QED BY <3>1
  <2>2. CASE RpcKnown(c) \/ Create(c)
      BY <2>2 DEF RpcKnown, Create, RunRemote, Goto
  <2>3. CASE ~(Execute(c) \/ RpcKnown(c) \/ Create(c))
      BY <2>3 DEF SyncFails, ReplyTooLarge, ReplyError, Break, Drop, RpcNew, CreateTimeout,
                  Disconnect, DisconnectLost, Goto, Return
  <2> QED BY <2>1, <2>2, <2>3
<1>5. pc[c] \notin {"local", "undo"}
    BY DEF Execute, SyncFails, ReplyTooLarge, ReplyError, Break, Drop, RpcKnown, RpcNew,
           Create, CreateTimeout, Disconnect, DisconnectLost
<1>6. conn' = conn \/ \E q : conn' = [conn EXCEPT ![Remote(c)] = q]
    BY DEF Execute, SyncFails, ReplyTooLarge, ReplyError, Break, Drop, RpcKnown, RpcNew,
           Create, CreateTimeout, Disconnect, DisconnectLost, connVars
<1>7. inbox' = inbox \/ \E b : inbox' = [inbox EXCEPT ![Remote(c)] = b]
  <2>1. CASE Break(c)
      BY <1>0, <2>1 DEF Break, DropHandler
  <2>2. CASE RpcKnown(c) \/ Create(c)
      BY <2>2 DEF RpcKnown, Create, RunRemote, Send
  <2>3. CASE ~(Break(c) \/ RpcKnown(c) \/ Create(c))
      BY <2>3 DEF Execute, SyncFails, ReplyTooLarge, ReplyError, Drop, RpcNew, CreateTimeout,
                  Disconnect, DisconnectLost, connVars
  <2> QED BY <2>1, <2>2, <2>3
<1>8. out' = out \/ \E o : out' = [out EXCEPT ![Remote(c)] = o]
  <2>1. CASE Break(c)
      BY <2>1 DEF Break, DropHandler, Take
  <2>2. CASE RpcKnown(c) \/ Create(c)
      BY <2>2 DEF RpcKnown, Create, RunRemote, Send
  <2>3. CASE ~(Break(c) \/ RpcKnown(c) \/ Create(c))
      BY <2>3 DEF Execute, SyncFails, ReplyTooLarge, ReplyError, Drop, RpcNew, CreateTimeout,
                  Disconnect, DisconnectLost, connVars
  <2> QED BY <2>1, <2>2, <2>3
<1>9. \A d \in Clients : SameLocally(d)
  <2> SUFFICES ASSUME NEW d \in Clients PROVE SameLocally(d)
      OBVIOUS
  <2>1. (pc'[d] \in {"local", "undo"}) = (pc[d] \in {"local", "undo"})
      BY <1>0, <1>4, <1>5
  <2>2. /\ conn'[Local(d)] = conn[Local(d)] /\ inbox'[Local(d)] = inbox[Local(d)]
        /\ out'[Local(d)] = out[Local(d)]
      BY <1>0, <1>6, <1>7, <1>8
  <2> QED BY <2>1, <2>2 DEF SameLocally
<1> QED BY <1>1, <1>3, <1>9, SameReads

\* One client's part of RInv changes.
LEMMA OneClientReads ==
    ASSUME RInv, NEW c \in Clients, UNCHANGED log, replica' = replica, applied' = applied,
           FrameTypes', ReadOK(c)',
           \A d \in Clients \ {c} :
               /\ SameLocally(d) /\ reply'[d] = reply[d]
               /\ last_write'[d] = last_write[d] /\ acked'[d] = acked[d]
    PROVE  RInv'
<1>1. Announced'
    BY DEF RInv, Announced
<1>2. \A d \in Clients \ {c} : AnswerIsNewest(d)' /\ WaitsForWrites(d)'
    BY DEF RInv, ReadOK, AnswerIsNewest, WaitsForWrites
<1>3. \A d \in Clients \ {c} : LocalReads(d)'
    BY DEF RInv, ReadOK, LocalReads, SameLocally
<1> QED BY <1>1, <1>2, <1>3 DEF RInv, ReadOK

\* The primary answers with the number of its next frame.
LEMMA RpcDoneReads ==
    ASSUME Inv, RInv, NEW c \in Clients, RpcDone(c)
    PROVE  RInv'
<1> DEFINE y == [ok |-> out[Remote(c)].ok, state |-> out[Remote(c)].state,
                 frame_no |-> Len(log)]
<1>1. /\ pc[c] = "remote" /\ pc' = [pc EXCEPT ![c] = "reply"]
      /\ reply' = [reply EXCEPT ![c] = y] /\ out' = [out EXCEPT ![Remote(c)] = NoResult]
      /\ UNCHANGED <<log, replica, conn, inbox, applied, last_write, acked>>
    BY DEF RpcDone, Goto, Take, viewVars
<1>2. /\ pc \in [Clients -> Labels] /\ reply \in [Clients -> ReplyType]
      /\ out \in [Conns -> Result] /\ log \in Seq(Conns \cup {NoConn})
      /\ \A d \in Clients : Local(d) \in Conns /\ Local(d) # Remote(c)
    BY ConnsDiffer DEF Inv, Types
<1>3. reply'[c].frame_no = Len(log) /\ \A d \in Clients \ {c} : reply'[d] = reply[d]
    BY <1>1, <1>2
<1>4. \A d \in Clients : SameLocally(d)
    BY <1>1, <1>2 DEF SameLocally
<1>5. AnswerIsNewest(c)'
  <2>1. Len(log) \in Nat /\ DOMAIN log = 1..Len(log)
      BY <1>2, LenProperties
  <2> QED BY <1>1, <1>3, <2>1 DEF AnswerIsNewest
<1>6. WaitsForWrites(c)' /\ LocalReads(c)' /\ FrameTypes'
    BY <1>1, <1>4 DEF RInv, FrameTypes, ReadOK, WaitsForWrites, LocalReads, SameLocally
<1> QED BY <1>1, <1>3, <1>4, <1>5, <1>6, OneClientReads DEF ReadOK

\* The answer arrives: the client waits for all of its frames from now on.
LEMMA ReplyOkReads ==
    ASSUME Inv, RInv, NEW c \in Clients, ReplyOk(c), Len(log) < FrameNoMax
    PROVE  RInv'
<1> DEFINE new == reply[c].frame_no
<1>1. /\ pc[c] = "reply" /\ reply[c].ok /\ pc' = [pc EXCEPT ![c] = "idle"]
      /\ last_write' = IF last_write[c] = FrameNoMax \/ new > last_write[c]
                       THEN [last_write EXCEPT ![c] = new] ELSE last_write
      /\ acked' = [acked EXCEPT ![c] = Newest(c)]
      /\ reply' = [reply EXCEPT ![c] = NoReply]
      /\ UNCHANGED <<log, replica, conn, inbox, out, applied>>
    BY DEF ReplyOk, Return, update_last_write_frame_no, connVars
<1>2. /\ pc \in [Clients -> Labels] /\ reply \in [Clients -> ReplyType]
      /\ log \in Seq(Conns \cup {NoConn}) /\ Types /\ ReadOK(c)
      /\ last_write \in [Clients -> Nat] /\ acked \in [Clients -> Nat]
    BY DEF Inv, Types, RInv, FrameTypes
<1>3. new \in Nat /\ Newest(c) \in Nat /\ Len(log) \in Nat
    BY <1>2, NewestFacts DEF ReplyType
<1>4. new <= Len(log) /\ Newest(c) <= new
    BY <1>1, <1>2, <1>3, NewestFacts DEF ReadOK, AnswerIsNewest
<1>5. new # FrameNoMax
    BY <1>3, <1>4 DEF FrameNoMax
<1>6. /\ acked' \in [Clients -> Nat] /\ last_write' \in [Clients -> Nat]
      /\ acked'[c] = Newest(c) /\ last_write'[c] # FrameNoMax /\ last_write'[c] >= new
      /\ \A d \in Clients \ {c} : last_write'[d] = last_write[d] /\ acked'[d] = acked[d]
  <2>1. acked' \in [Clients -> Nat] /\ acked'[c] = Newest(c)
        /\ \A d \in Clients \ {c} : acked'[d] = acked[d]
      BY <1>1, <1>2, <1>3
  <2>2. CASE last_write[c] = FrameNoMax \/ new > last_write[c]
    <3>1. last_write' = [last_write EXCEPT ![c] = new]
        BY <1>1, <2>2
    <3> QED BY <1>2, <1>3, <1>5, <2>1, <3>1
  <2>3. CASE ~(last_write[c] = FrameNoMax \/ new > last_write[c])
    <3>1. last_write' = last_write
        BY <1>1, <2>3
    <3> QED BY <1>2, <1>3, <2>1, <2>3, <3>1
  <2> QED BY <2>2, <2>3
<1>7. WaitsForWrites(c)'
    BY <1>3, <1>4, <1>6 DEF WaitsForWrites
<1>8. AnswerIsNewest(c)' /\ \A d \in Clients \ {c} : reply'[d] = reply[d]
    BY <1>1, <1>2, NothingOK DEF AnswerIsNewest
<1>9. \A d \in Clients : SameLocally(d)
    BY <1>1, <1>2 DEF SameLocally
<1>10. LocalReads(c)'
  <2>1. pc'[c] = "idle" /\ inbox[Local(c)] = <<>> /\ Local(c) \in Conns
      BY <1>1, <1>2, ConnsDiffer DEF ReadOK, LocalReads
  <2>2. conn[Local(c)].th # "run"
      BY <2>1 DEF Inv, ConnOK, RunsSomething
  <2> QED BY <1>1, <1>2, <2>1, <2>2 DEF ReadOK, LocalReads
<1> QED BY <1>1, <1>6, <1>7, <1>8, <1>9, <1>10, OneClientReads DEF ReadOK, FrameTypes

\* The replicator has announced the client's writes, so the replica has them.
LEMMA SyncDoneReads ==
    ASSUME Inv, RInv, NEW c \in Clients, SyncDone(c)
    PROVE  RInv'
<1> DEFINE k == Local(c)
           b == Append(inbox[k], [pgm |-> call[c].pgm, rcv |-> TRUE])
<1>1. /\ pc[c] = "sync" /\ CaughtUp(c)
      /\ UNCHANGED <<log, replica, conn, reply, applied, last_write, acked>>
      /\ \/ pc' = [pc EXCEPT ![c] = "idle"] /\ UNCHANGED <<inbox, out>>
         \/ /\ pc' = [pc EXCEPT ![c] = "local"]
            /\ inbox' = inbox /\ out' = [out EXCEPT ![k] = Failed]
         \/ /\ pc' = [pc EXCEPT ![c] = "local"]
            /\ inbox' = [inbox EXCEPT ![k] = b] /\ out' = out
    BY DEF SyncDone, Goto, Return, Send, serviceVars, viewVars
<1>2. /\ pc \in [Clients -> Labels] /\ inbox \in [Conns -> Seq(Callback)] /\ Types
      /\ out \in [Conns -> Result] /\ k \in Conns /\ ReadOK(c) /\ call[c].pgm \in Pgms
      /\ \A d \in Clients \ {c} : Local(d) \in Conns \ {k}
    BY <1>1, RestFacts, ConnsDiffer DEF Inv, Types, RInv, Local
<1>3. inbox[k] = <<>> /\ out[k] = NoResult
    BY <1>1, <1>2 DEF ReadOK, LocalReads
<1>4. Len(b) = 1
  <2>1. Len(b) = Len(inbox[k]) + 1
      BY <1>2, SendFacts
  <2> QED BY <1>3, <2>1, EmptySeq
<1>5. acked[c] <= replica
    BY <1>1, <1>2 DEF RInv, Announced, FrameTypes, ReadOK, WaitsForWrites, CaughtUp
<1> HIDE DEF b
<1>6. LocalReads(c)'
  <2>1. CASE pc' = [pc EXCEPT ![c] = "idle"] /\ UNCHANGED <<inbox, out>>
      BY <1>1, <1>2, <1>3, <2>1 DEF ReadOK, LocalReads
  <2>2. CASE /\ pc' = [pc EXCEPT ![c] = "local"]
             /\ inbox' = inbox /\ out' = [out EXCEPT ![k] = Failed]
      BY <1>1, <1>2, <1>3, <1>5, <2>2 DEF ReadOK, LocalReads
  <2>3. CASE /\ pc' = [pc EXCEPT ![c] = "local"]
             /\ inbox' = [inbox EXCEPT ![k] = b] /\ out' = out
      BY <1>1, <1>2, <1>3, <1>4, <1>5, <2>3 DEF ReadOK, LocalReads
  <2> QED BY <1>1, <2>1, <2>2, <2>3
<1>7. AnswerIsNewest(c)' /\ WaitsForWrites(c)' /\ FrameTypes'
    BY <1>1, <1>2 DEF RInv, FrameTypes, ReadOK, AnswerIsNewest, WaitsForWrites
<1>8. \A d \in Clients \ {c} : SameLocally(d)
    BY <1>1, <1>2 DEF SameLocally
<1> QED BY <1>1, <1>6, <1>7, <1>8, OneClientReads DEF ReadOK

\* A call on the replica ends.
LEMMA LocalDoneReads ==
    ASSUME Inv, RInv, NEW c \in Clients, LocalDone(c) \/ LocalUndone(c)
    PROVE  RInv'
<1> DEFINE k == Local(c)
           b == Append(inbox[k], [pgm |-> RollbackProgram, rcv |-> TRUE])
<1>1. /\ pc[c] \in {"local", "undo"} /\ out[k] # NoResult
      /\ UNCHANGED <<log, replica, conn, reply, applied, last_write, acked>>
      /\ out' = [out EXCEPT ![k] = NoResult]
      /\ \/ inbox' = inbox /\ \E l \in {"idle", "rpc"} : pc' = [pc EXCEPT ![c] = l]
         \/ inbox' = [inbox EXCEPT ![k] = b] /\ pc' = [pc EXCEPT ![c] = "undo"]
    BY DEF LocalDone, LocalUndone, Goto, Return, Take, serviceVars, viewVars
<1>2. /\ pc \in [Clients -> Labels] /\ inbox \in [Conns -> Seq(Callback)] /\ Types
      /\ out \in [Conns -> Result] /\ k \in Conns /\ ReadOK(c) /\ RollbackProgram \in Pgms
      /\ \A d \in Clients \ {c} : Local(d) \in Conns \ {k}
    BY <1>1, ConnsDiffer DEF Inv, Types, RInv, Local, Pgms
<1>3. inbox[k] = <<>>
    BY <1>1, <1>2 DEF ReadOK, LocalReads
<1>4. Len(b) = 1
  <2>1. Len(b) = Len(inbox[k]) + 1
      BY <1>2, SendFacts
  <2> QED BY <1>3, <2>1, EmptySeq
<1> HIDE DEF b
<1>5. LocalReads(c)'
  <2>1. CASE inbox' = inbox /\ \E l \in {"idle", "rpc"} : pc' = [pc EXCEPT ![c] = l]
      BY <1>1, <1>2, <1>3, <2>1 DEF ReadOK, LocalReads
  <2>2. CASE inbox' = [inbox EXCEPT ![k] = b] /\ pc' = [pc EXCEPT ![c] = "undo"]
      BY <1>1, <1>2, <1>4, <2>2 DEF ReadOK, LocalReads
  <2> QED BY <1>1, <2>1, <2>2
<1>6. AnswerIsNewest(c)' /\ WaitsForWrites(c)' /\ FrameTypes'
    BY <1>1, <1>2 DEF RInv, FrameTypes, ReadOK, AnswerIsNewest, WaitsForWrites
<1>7. \A d \in Clients \ {c} : SameLocally(d)
    BY <1>1, <1>2 DEF SameLocally
<1> QED BY <1>1, <1>5, <1>6, <1>7, OneClientReads DEF ReadOK

-----------------------------------------------------------------------------
(* The primary, the replicator and other clients. *)

\* The log grows, the replica follows; nothing is taken back.
LEMMA EnvironmentReads ==
    ASSUME Inv, RInv,
           \/ Restart \/ OtherWrite \/ Inject \/ ReplicatorExits \/ Store \/ Idle
           \/ UNCHANGED vars
    PROVE  RInv'
<1>0. /\ pc \in [Clients -> Labels] /\ log \in Seq(Conns \cup {NoConn})
      /\ \A d \in Clients : Local(d) \in Conns /\ Local(d)[1] = "local"
      /\ NoConn \notin Conns /\ \A d \in Clients : Remote(d) \in Conns
    BY ConnsDiffer DEF Inv, Types
<1>1. CASE Restart
  <2>1. /\ UNCHANGED <<log, replica, applied, last_write, acked>>
        /\ reply' = [c \in Clients |-> NoReply]
        /\ conn' = [k \in Conns |-> IF k[1] = "remote" THEN NewConn("none") ELSE conn[k]]
        /\ inbox' = [k \in Conns |-> IF k[1] = "remote" THEN <<>> ELSE inbox[k]]
        /\ out' = [k \in Conns |-> IF k[1] = "remote" THEN NoResult ELSE out[k]]
      BY <1>1 DEF Restart, viewVars
  <2>2. \A d \in Clients : pc'[d] = IF pc[d] \in {"rpc", "create", "remote", "reply"}
                                    THEN "idle" ELSE pc[d]
      BY <1>1 DEF Restart
  <2>3. \A d \in Clients : SameLocally(d)
      BY <1>0, <2>1, <2>2 DEF SameLocally
  <2>4. \A d \in Clients : reply'[d].ok => reply'[d] = reply[d]
      BY <2>1, NothingOK
  <2> QED BY <2>1, <2>3, <2>4, SameReads
<1>2. CASE OtherWrite
  <2>1. /\ log' = Append(log, NoConn)
        /\ UNCHANGED <<replica, applied, last_write, acked, reply, pc, conn, inbox, out>>
      BY <1>2 DEF OtherWrite, proxyVars, viewVars, serviceVars
  <2>2. /\ Len(log') = Len(log) + 1 /\ log'[Len(log) + 1] = NoConn
        /\ \A j \in 1..Len(log) : log'[j] = log[j]
        /\ DOMAIN log' = 1..(Len(log) + 1) /\ DOMAIN log = 1..Len(log) /\ Len(log) \in Nat
      BY <1>0, <2>1, AppendProperties, LenProperties
  <2>3. ASSUME NEW c \in Clients
        PROVE  AnswerIsNewest(c)'
    <3>1. \A i \in DOMAIN log' : log'[i] = Remote(c) => i \in DOMAIN log /\ log[i] = Remote(c)
        BY <1>0, <2>2
    <3>2. reply[c].frame_no \in Nat
        BY DEF Inv, Types, ReplyType
    <3> QED BY <2>1, <2>2, <3>1, <3>2 DEF RInv, ReadOK, AnswerIsNewest
  <2>4. \A c \in Clients : WaitsForWrites(c)' /\ LocalReads(c)'
      BY <2>1 DEF RInv, ReadOK, WaitsForWrites, LocalReads
  <2>5. Announced' /\ FrameTypes'
      BY <2>1 DEF RInv, Announced, FrameTypes
  <2> QED BY <2>3, <2>4, <2>5 DEF RInv, ReadOK
<1>3. CASE Inject
  <2>1. /\ replica' = replica + 1 /\ applied' = replica
        /\ UNCHANGED <<log, last_write, acked, reply, pc, conn, inbox, out>>
      BY <1>3 DEF Inject, serviceVars
  <2>2. Announced' /\ FrameTypes'
      BY <2>1 DEF RInv, Announced, FrameTypes
  <2>3. \A c \in Clients : AnswerIsNewest(c)' /\ WaitsForWrites(c)'
      BY <2>1 DEF RInv, ReadOK, AnswerIsNewest, WaitsForWrites
  <2>4. ASSUME NEW c \in Clients
        PROVE  LocalReads(c)'
    <3>1. acked[c] \in Nat /\ replica \in Nat /\ LocalReads(c)
        BY DEF RInv, FrameTypes, Announced, ReadOK
    <3> QED BY <2>1, <3>1 DEF LocalReads
  <2> QED BY <2>2, <2>3, <2>4 DEF RInv, ReadOK
<1>4. CASE ReplicatorExits \/ Store \/ Idle \/ UNCHANGED vars
  <2>1. UNCHANGED <<log, replica, applied, last_write, acked, reply, pc, conn, inbox, out>>
      BY <1>4 DEF ReplicatorExits, Store, Idle, vars, connVars, proxyVars, viewVars, serviceVars
  <2> QED BY <2>1, SameReads DEF SameLocally
<1> QED BY <1>1, <1>2, <1>3, <1>4

-----------------------------------------------------------------------------
(* The theorem. *)

\* Every step keeps the invariant.
LEMMA NextRInv == Inv /\ RInv /\ Len(log) < FrameNoMax /\ [Next]_vars => RInv'
<1> SUFFICES ASSUME Inv, RInv, Len(log) < FrameNoMax, [Next]_vars PROVE RInv'
    OBVIOUS
<1>1. ASSUME NEW k \in Conns, ThreadStep(k) \/ TooLarge(k) PROVE RInv'
    BY <1>1, ThreadRInv
<1>2. ASSUME NEW c \in Clients, Execute(c) \/ Proxy(c) \/ ReplyTooLarge(c) PROVE RInv'
    BY <1>2, ElsewhereReads, SyncDoneReads, LocalDoneReads, ReplyOkReads DEF Proxy
<1>3. ASSUME NEW c \in Clients, Service(c) PROVE RInv'
    BY <1>3, ElsewhereReads, RpcDoneReads DEF Service
<1>4. ASSUME NEW c \in Clients, Break(c) \/ Drop(c) \/ DisconnectLost(c) PROVE RInv'
    BY <1>4, ElsewhereReads
<1>5. ASSUME Restart \/ OtherWrite \/ Inject \/ ReplicatorExits \/ Store \/ Idle
             \/ UNCHANGED vars
      PROVE RInv'
    BY <1>5, EnvironmentReads
<1> QED BY <1>1, <1>2, <1>3, <1>4, <1>5 DEF Next

\* The replica shows a client its own writes, for any number of clients, of failures
\* and of restarts, as long as frame numbers stay below FrameNo::MAX and the replica
\* has applied a frame since it started.
THEOREM ReadsSeeOwnWrites ==
    ~FreshReplica /\ Spec /\ [](Len(log) < FrameNoMax) => ReadYourWrites
<1> DEFINE Fresh ==
        \A c \in Clients :
          LET k == Local(c)
          IN  (Running(k) /\ conn[k].before /\ conn'[k].results = Append(conn[k].results, TRUE)
                          /\ NextStep(k).stmt = "read")
              => ReadVersion(k) >= acked[c]
<1>1. Inv /\ RInv => Fresh
    BY FreshRead
<1>2. ReadYourWrites <=> [][Fresh]_vars
    BY DEF ReadYourWrites
<1> HIDE DEF Fresh
<1> QED BY <1>1, <1>2, InitRInv, NextRInv, InvHolds, PTL DEF Spec
=============================================================================
