------------------------------ MODULE MysqlPool ------------------------------
(***************************************************************************)
(* bingo::database::mysql: mysql_pool keeps connectors in a queue, threads *)
(* borrow one for every query through db_factory, and mysql_timer has the  *)
(* heartbeat check those that lie in the queue.                            *)
(*                                                                         *)
(* make_connector_pool() pushes without mu_ and then runs the timer's      *)
(* io_service for good, so it never returns when it does not fail; threads *)
(* are assumed to wait with their first query until the pool is made (the  *)
(* test sleeps five seconds), and the pool is not destroyed meanwhile. The *)
(* heartbeat holds mu_ from its first connector to its last one.           *)
(***************************************************************************)
EXTENDS Naturals, Sequences, FiniteSets, SequencesExt

CONSTANTS
    Connectors,  \* the n connectors make_connector_pool() makes
    Threads,     \* threads that query
    Nobody       \* no connector

ASSUME MysqlPoolAssumption ==
    /\ IsFiniteSet(Connectors) /\ Connectors # {}
    /\ Nobody \notin Connectors

VARIABLES
    server,              \* the database server: "up" or "down"
    maker,               \* make_connector_pool(): "making" or "running"
    conns_,              \* the queue of the pool
    mysql_conn_,         \* per connector: "null", "good", or "lost": the server dropped it
    is_connect_success,
    heartbeat,           \* connectors the heartbeat has still to look at
    thread,              \* where each thread stands in query_result()
    conn,                \* the connector each thread has borrowed
    transaction,         \* what became of the statements of each thread's transaction
    crashed,             \* the process is gone
    refused              \* history: a connect() of make_connector_pool() has failed

poolVars == <<conns_, mysql_conn_, is_connect_success>>
threadVars == <<thread, conn, transaction>>
vars == <<server, maker, poolVars, heartbeat, threadVars, crashed, refused>>

Made == ToSet(conns_) \cup {conn[t] : t \in Threads}

Init ==
    /\ server \in {"up", "down"}
    /\ maker = "making"
    /\ conns_ = <<>>
    /\ mysql_conn_ = [c \in Connectors |-> "null"]
    /\ is_connect_success = [c \in Connectors |-> FALSE]
    /\ heartbeat = 0
    /\ thread = [t \in Threads |-> "idle"]
    /\ conn = [t \in Threads |-> Nobody]
    /\ transaction = [t \in Threads |-> "none"]
    /\ crashed = FALSE
    /\ refused = FALSE

\* The server goes down and drops every connection, or comes back.
ServerDown ==
    /\ server = "up" /\ server' = "down"
    /\ mysql_conn_' = [c \in Connectors |-> IF mysql_conn_[c] = "good" THEN "lost"
                                            ELSE mysql_conn_[c]]
    /\ UNCHANGED <<maker, conns_, is_connect_success, heartbeat, threadVars,
                   crashed, refused>>

ServerUp ==
    /\ server = "down" /\ server' = "up"
    /\ UNCHANGED <<maker, poolVars, heartbeat, threadVars, crashed, refused>>

-----------------------------------------------------------------------------
(* mysql_connector and the mutex of the pool *)

\* Mutation: get_connector() and free_connector() do not lock mu_.
NoMutex == TRUE
MutexFree == heartbeat = 0

\* Mutation: is_connect_success is set before mysql_real_connect.
ConnectMarksFirst(c) ==
    /\ mysql_conn_' = [mysql_conn_ EXCEPT ![c] = IF server = "up" THEN "good" ELSE "null"]
    /\ is_connect_success' = [is_connect_success EXCEPT ![c] = TRUE]

\* connect(): a new handle; is_connect_success is set but never reset here.
Connect(c) ==
    IF server = "up"
    THEN /\ mysql_conn_' = [mysql_conn_ EXCEPT ![c] = "good"]
         /\ is_connect_success' = [is_connect_success EXCEPT ![c] = TRUE]
    ELSE /\ mysql_conn_' = [mysql_conn_ EXCEPT ![c] = "null"]
         /\ UNCHANGED is_connect_success

-----------------------------------------------------------------------------
(* make_connector_pool() *)

\* One round of the loop. connect() returns a bool, so "connect() == -1" never
\* holds and the connector is pushed, connected or not.
MakeConnector(c) ==
    /\ maker = "making" /\ c \notin Made
    /\ Connect(c)
    /\ refused' = (refused \/ server = "down")
    /\ conns_' = Append(conns_, c)
    /\ UNCHANGED <<server, maker, heartbeat, threadVars, crashed>>

\* schedule_timer() and ios_.run().
MakeFinished ==
    /\ maker = "making" /\ Connectors \subseteq Made
    /\ maker' = "running"
    /\ UNCHANGED <<server, poolVars, heartbeat, threadVars, crashed, refused>>

-----------------------------------------------------------------------------
(* check_heartbeat(), every minute *)

\* It locks mu_ and takes the size of the queue as the number of its rounds.
HeartbeatStart ==
    /\ maker = "running" /\ heartbeat = 0 /\ conns_ # <<>> /\ ~crashed
    /\ heartbeat' = Len(conns_)
    /\ UNCHANGED <<server, maker, poolVars, threadVars, crashed, refused>>

\* Mutation: the connector goes back to the front of the queue.
PushFront(c) == conns_' = <<c>> \o Tail(conns_)
PushBack(c) == conns_' = Append(Tail(conns_), c)

\* Mutation: a query that fails is not noted.
QueryUnchecked(c) == UNCHANGED is_connect_success

\* "select version();": an error marks the connector for the next heartbeat.
QueryVersion(c) ==
    is_connect_success' = [is_connect_success EXCEPT ![c] = (mysql_conn_[c] = "good")]

\* One round: reconnect the oldest connector of the queue, or query over it.
HeartbeatRound ==
    LET c == Head(conns_) IN
      /\ heartbeat > 0 /\ ~crashed
      /\ IF is_connect_success[c] THEN QueryVersion(c) /\ UNCHANGED mysql_conn_
         ELSE Connect(c)
      /\ PushBack(c)
      /\ heartbeat' = heartbeat - 1
      /\ UNCHANGED <<server, maker, threadVars, crashed, refused>>

-----------------------------------------------------------------------------
(* db_factory::query_result() *)

\* get_connector(). On an empty queue query_result() returns false at once.
GetConnector(t) ==
    /\ maker = "running" /\ MutexFree /\ ~crashed
    /\ thread[t] = "idle" /\ conns_ # <<>>
    /\ conn' = [conn EXCEPT ![t] = Head(conns_)]
    /\ conns_' = Tail(conns_)
    /\ thread' = [thread EXCEPT ![t] = "query"]
    /\ transaction' = [transaction EXCEPT ![t] = "none"]
    /\ UNCHANGED <<server, maker, mysql_conn_, is_connect_success, heartbeat,
                   crashed, refused>>

\* A query without transaction, over a handle: its result or an error.
Query(t) ==
    /\ ~crashed /\ thread[t] = "query" /\ mysql_conn_[conn[t]] # "null"
    /\ thread' = [thread EXCEPT ![t] = "free"]
    /\ UNCHANGED <<server, maker, poolVars, heartbeat, conn, transaction, crashed, refused>>

\* mysql_query(NULL, ...): query_result() does not look at is_connect_success.
QueryNull(t) ==
    /\ ~crashed /\ thread[t] = "query" /\ mysql_conn_[conn[t]] = "null"
    /\ crashed' = TRUE
    /\ UNCHANGED <<server, maker, poolVars, heartbeat, threadVars, refused>>

\* query_result(sqls): the transaction and its statements are executed.
Execute(t) ==
    /\ ~crashed /\ thread[t] = "query" /\ mysql_conn_[conn[t]] = "good"
    /\ thread' = [thread EXCEPT ![t] = "commit"]
    /\ transaction' = [transaction EXCEPT ![t] = "open"]
    /\ UNCHANGED <<server, maker, poolVars, heartbeat, conn, crashed, refused>>

\* A statement fails: rollback, return false.
ExecuteFails(t) ==
    /\ ~crashed /\ thread[t] = "query" /\ mysql_conn_[conn[t]] # "null"
    /\ thread' = [thread EXCEPT ![t] = "free"]
    /\ transaction' = [transaction EXCEPT ![t] = "rolled back"]
    /\ UNCHANGED <<server, maker, poolVars, heartbeat, conn, crashed, refused>>

\* "commit;" without a look at its result, return true. What the server has not
\* committed when a connection breaks, it rolls back.
Commit(t) ==
    /\ ~crashed /\ thread[t] = "commit"
    /\ thread' = [thread EXCEPT ![t] = "returns true"]
    /\ transaction' = [transaction EXCEPT ![t] =
                         IF mysql_conn_[conn[t]] = "good" THEN "committed" ELSE "rolled back"]
    /\ UNCHANGED <<server, maker, poolVars, heartbeat, conn, crashed, refused>>

\* Mutation: the connector is pushed and stays with the thread.
FreeKeeps(t) ==
    /\ MutexFree /\ ~crashed
    /\ thread[t] \in {"free", "returns true"}
    /\ conns_' = Append(conns_, conn[t])
    /\ thread' = [thread EXCEPT ![t] = "query"]
    /\ UNCHANGED <<server, maker, mysql_conn_, is_connect_success, heartbeat, conn,
                   transaction, crashed, refused>>

FreeConnector(t) ==
    /\ MutexFree /\ ~crashed
    /\ thread[t] \in {"free", "returns true"}
    /\ conns_' = Append(conns_, conn[t])
    /\ conn' = [conn EXCEPT ![t] = Nobody]
    /\ thread' = [thread EXCEPT ![t] = "idle"]
    /\ UNCHANGED <<server, maker, mysql_conn_, is_connect_success, heartbeat,
                   transaction, crashed, refused>>

-----------------------------------------------------------------------------
ThreadStep(t) ==
    \/ Query(t) \/ QueryNull(t) \/ Execute(t) \/ ExecuteFails(t) \/ Commit(t)
    \/ FreeConnector(t)

Next ==
    \/ ServerDown \/ ServerUp
    \/ \E c \in Connectors : MakeConnector(c)
    \/ MakeFinished
    \/ HeartbeatStart \/ HeartbeatRound
    \/ \E t \in Threads : GetConnector(t) \/ ThreadStep(t)

\* The timer goes off, queries return and the pool is made; no thread has to query.
Fairness ==
    /\ WF_vars(\E c \in Connectors : MakeConnector(c)) /\ WF_vars(MakeFinished)
    /\ WF_vars(HeartbeatStart) /\ WF_vars(HeartbeatRound)
    /\ \A t \in Threads : WF_vars(ThreadStep(t))

SafeSpec == Init /\ [][Next]_vars
Spec == SafeSpec /\ Fairness
-----------------------------------------------------------------------------
(* Properties *)

\* Every variable has its type.
TypeOK ==
    /\ server \in {"up", "down"}
    /\ maker \in {"making", "running"}
    /\ conns_ \in Seq(Connectors)
    /\ mysql_conn_ \in [Connectors -> {"null", "good", "lost"}]
    /\ is_connect_success \in [Connectors -> BOOLEAN]
    /\ heartbeat \in 0..Len(conns_)
    /\ thread \in [Threads -> {"idle", "query", "commit", "free", "returns true"}]
    /\ conn \in [Threads -> Connectors \cup {Nobody}]
    /\ transaction \in [Threads -> {"none", "open", "committed", "rolled back"}]
    /\ crashed \in BOOLEAN /\ refused \in BOOLEAN

\* A connection is used by one thread at a time (a MYSQL handle is not thread
\* safe) and never gets lost: every connector lies in the queue once or is in
\* the hands of one thread, through borrowing, heartbeats and lost connections.
OneBorrower ==
    /\ IsInjective(conns_)
    /\ \A t, u \in Threads :
         conn[t] # Nobody => conn[t] \notin ToSet(conns_) /\ (t # u => conn[t] # conn[u])
    /\ maker = "running" => Made \ {Nobody} = Connectors

\* A connector without a handle is marked with is_connect_success FALSE, so that the
\* heartbeat will reconnect it, and one with a good handle is not. Queries do not
\* look at the mark: it does not keep them from a null handle.
NullIsMarked ==
    \A c \in Connectors :
        /\ mysql_conn_[c] = "null" => ~is_connect_success[c]
        /\ mysql_conn_[c] = "good" => is_connect_success[c]

\* While a heartbeat runs it goes through the queue in turn: the connectors it
\* has still to look at are the first ones, and nobody pushes or pops others.
HeartbeatAlone ==
    [][heartbeat > 0 => /\ heartbeat' = heartbeat - 1 \/ UNCHANGED <<heartbeat, conns_>>
                        /\ \A k \in 1..(heartbeat - 1) :
                             heartbeat' < heartbeat => conns_'[k] = conns_[k + 1]]_vars

\* "after 1 minute, mysql server close, each item in pool will reconnect"
\* (test_mysql_pool.cpp:35): when the server stays up, a connector that stays in
\* the pool of a process that does not crash is connected in the end.
Reconnected ==
    \A c \in Connectors :
        <>[](~crashed /\ server = "up" /\ c \in ToSet(conns_)) => <>[](mysql_conn_[c] = "good")

\* "Make pool success to return 0, otherwise return -1" (mysql_pool.h:32): a
\* connect() that failed keeps make_connector_pool() from going on to the timer.
FailureIsReported == refused => maker # "running"

\* "Execute multi-sql-string, fail and return false" (db_visitor.h:29): true
\* says that the statements are committed.
TrueMeansCommitted ==
    \A t \in Threads : thread[t] = "returns true" => transaction[t] = "committed"
=============================================================================
