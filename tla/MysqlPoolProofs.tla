--------------------------- MODULE MysqlPoolProofs ---------------------------
(***************************************************************************)
(* Proofs about MysqlPool for any number of connectors and threads: every  *)
(* connector has one place, the marks the heartbeat goes by are right, and *)
(* what it takes for true to mean committed and for the process to crash.  *)
(***************************************************************************)
EXTENDS MysqlPool, TLAPS

\* The elements of a queue and their being different, behind a push and a pop.
LEMMA QueuePush ==
    ASSUME NEW S, NEW q \in Seq(S), NEW e \in S
    PROVE  /\ Append(q, e) \in Seq(S) /\ Len(Append(q, e)) = Len(q) + 1
           /\ ToSet(Append(q, e)) = ToSet(q) \cup {e}
           /\ IsInjective(q) /\ e \notin ToSet(q) => IsInjective(Append(q, e))
<1>1. /\ Append(q, e) \in Seq(S) /\ Len(Append(q, e)) = Len(q) + 1
      /\ Append(q, e)[Len(q) + 1] = e
      /\ \A k \in 1..Len(q) : Append(q, e)[k] = q[k]
      /\ DOMAIN Append(q, e) = 1..(Len(q) + 1) /\ DOMAIN q = 1..Len(q)
      /\ Len(q) \in Nat
  OBVIOUS
<1> DEFINE r == Append(q, e)
<1> HIDE DEF r
<1>2. ToSet(r) = ToSet(q) \cup {e}
  <2>1. \A k \in 1..(Len(q) + 1) : k \in 1..Len(q) \/ k = Len(q) + 1
    BY <1>1
  <2>2. ASSUME NEW x \in ToSet(r) PROVE x \in ToSet(q) \cup {e}
    BY <1>1, <2>1 DEF ToSet, r
  <2>3. ASSUME NEW x \in ToSet(q) PROVE x \in ToSet(r)
    BY <1>1 DEF ToSet, r
  <2>4. e \in ToSet(r)
    BY <1>1 DEF ToSet, r
  <2>5. QED
    BY <2>2, <2>3, <2>4
<1>3. ASSUME IsInjective(q), e \notin ToSet(q)
      PROVE  IsInjective(r)
  <2> SUFFICES ASSUME NEW a \in 1..(Len(q) + 1), NEW b \in 1..(Len(q) + 1), r[a] = r[b]
               PROVE  a = b
    BY <1>1 DEF IsInjective, r
  <2>1. \A k \in 1..Len(q) : q[k] # e
    BY <1>1, <1>3 DEF ToSet
  <2>2. CASE a \in 1..Len(q) /\ b \in 1..Len(q)
    BY <1>1, <1>3, <2>2 DEF IsInjective, r
  <2>3. CASE a = Len(q) + 1 \/ b = Len(q) + 1
    BY <1>1, <2>1, <2>3 DEF r
  <2>4. QED
    BY <1>1, <2>2, <2>3
<1>4. QED
  BY <1>1, <1>2, <1>3 DEF r

LEMMA QueuePop ==
    ASSUME NEW S, NEW q \in Seq(S), q # <<>>
    PROVE  /\ Head(q) \in S /\ Tail(q) \in Seq(S) /\ Len(Tail(q)) = Len(q) - 1
           /\ Head(q) \in ToSet(q)
           /\ ToSet(q) = ToSet(Tail(q)) \cup {Head(q)}
           /\ IsInjective(q) => IsInjective(Tail(q)) /\ Head(q) \notin ToSet(Tail(q))
<1>1. /\ Head(q) \in S /\ Tail(q) \in Seq(S) /\ Len(Tail(q)) = Len(q) - 1
      /\ Head(q) = q[1]
      /\ \A k \in 1..(Len(q) - 1) : Tail(q)[k] = q[k + 1]
      /\ DOMAIN Tail(q) = 1..(Len(q) - 1) /\ DOMAIN q = 1..Len(q)
      /\ Len(q) \in Nat /\ Len(q) > 0
  OBVIOUS
<1> DEFINE r == Tail(q)
<1> HIDE DEF r
<1>2. ToSet(q) = ToSet(r) \cup {Head(q)}
  <2>1. \A k \in 1..Len(q) : k = 1 \/ (k - 1 \in 1..(Len(q) - 1) /\ q[k] = r[k - 1])
    <3> SUFFICES ASSUME NEW k \in 1..Len(q), k # 1
                 PROVE  k - 1 \in 1..(Len(q) - 1) /\ q[k] = r[k - 1]
      OBVIOUS
    <3>1. k - 1 \in 1..(Len(q) - 1) /\ (k - 1) + 1 = k
      BY <1>1
    <3>2. QED
      BY <1>1, <3>1 DEF r
  <2>2. ASSUME NEW x \in ToSet(q) PROVE x \in ToSet(r) \cup {Head(q)}
    <3>1. PICK k \in 1..Len(q) : x = q[k]
      BY <1>1 DEF ToSet
    <3>2. CASE k = 1
      BY <1>1, <3>1, <3>2
    <3>3. CASE k # 1
      <4>1. k - 1 \in DOMAIN r /\ x = r[k - 1]
        BY <1>1, <2>1, <3>1, <3>3 DEF r
      <4>2. QED
        BY <4>1 DEF ToSet
    <3>4. QED
      BY <3>2, <3>3
  <2>3. ASSUME NEW x \in ToSet(r) PROVE x \in ToSet(q)
    <3>1. PICK k \in 1..(Len(q) - 1) : x = q[k + 1]
      BY <1>1 DEF ToSet, r
    <3>2. k + 1 \in 1..Len(q)
      BY <1>1
    <3>3. QED
      BY <1>1, <3>1, <3>2 DEF ToSet
  <2>4. Head(q) \in ToSet(q)
    BY <1>1 DEF ToSet
  <2>5. QED
    BY <2>2, <2>3, <2>4
<1>3. ASSUME IsInjective(q)
      PROVE  IsInjective(r) /\ Head(q) \notin ToSet(r)
  <2>1. \A a, b \in 1..Len(q) : q[a] = q[b] => a = b
    BY <1>1, <1>3 DEF IsInjective
  <2>2. \A k \in 1..(Len(q) - 1) : k + 1 \in 1..Len(q) /\ k + 1 # 1
    BY <1>1
  <2>3. \A a, b \in 1..(Len(q) - 1) : r[a] = r[b] => a = b
    <3> SUFFICES ASSUME NEW a \in 1..(Len(q) - 1), NEW b \in 1..(Len(q) - 1), r[a] = r[b]
                 PROVE  a = b
      OBVIOUS
    <3>1. a + 1 = b + 1
      BY <1>1, <2>1, <2>2 DEF r
    <3>2. QED
      BY <3>1
  <2>4. Head(q) \notin ToSet(r)
    BY <1>1, <2>1, <2>2 DEF ToSet, r
  <2>5. QED
    BY <1>1, <2>3, <2>4 DEF IsInjective, r
<1>4. QED
  BY <1>1, <1>2, <1>3 DEF r

-----------------------------------------------------------------------------
(* The inductive invariant *)

\* Where the connectors are. A thread has one from get_connector() to
\* free_connector(), and none is borrowed before the pool is made.
Places ==
    /\ OneBorrower
    /\ \A t \in Threads : thread[t] = "idle" <=> conn[t] = Nobody
    /\ maker = "making" => \A t \in Threads : conn[t] = Nobody

\* A connector that is not made yet is not marked as connected.
Marks ==
    /\ NullIsMarked
    /\ maker = "making" => \A c \in Connectors \ ToSet(conns_) : ~is_connect_success[c]

\* The timer is started when the pool is made.
Timer == maker = "making" => heartbeat = 0

PoolInv == TypeOK /\ Places /\ Marks /\ Timer

LEMMA PoolInvInit == Init => PoolInv
<1> SUFFICES ASSUME Init PROVE PoolInv
  OBVIOUS
<1>1. conns_ = <<>> /\ conns_ \in Seq(Connectors) /\ Len(conns_) = 0
      /\ DOMAIN conns_ = {}
  BY DEF Init
<1>2. TypeOK
  <2>1. heartbeat \in 0..Len(conns_)
    BY <1>1 DEF Init
  <2>2. /\ mysql_conn_ \in [Connectors -> {"null", "good", "lost"}]
        /\ is_connect_success \in [Connectors -> BOOLEAN]
        /\ thread \in [Threads -> {"idle", "query", "commit", "free", "returns true"}]
        /\ conn \in [Threads -> Connectors \cup {Nobody}]
        /\ transaction \in [Threads -> {"none", "open", "committed", "rolled back"}]
    BY DEF Init
  <2>3. /\ server \in {"up", "down"} /\ maker \in {"making", "running"}
        /\ crashed \in BOOLEAN /\ refused \in BOOLEAN
    BY DEF Init
  <2>4. QED
    BY <1>1, <2>1, <2>2, <2>3 DEF TypeOK
<1>3. Places
  <2>1. IsInjective(conns_)
    BY <1>1 DEF IsInjective
  <2>2. QED
    BY <2>1 DEF Init, Places, OneBorrower
<1>4. Marks
  BY DEF Init, Marks, NullIsMarked
<1>5. Timer
  BY DEF Init, Timer
<1>6. QED
  BY <1>2, <1>3, <1>4, <1>5 DEF PoolInv

\* What a round of the heartbeat and the two ends of a borrowing do to the queue.
LEMMA Rotation ==
    ASSUME TypeOK, HeartbeatRound
    PROVE  /\ Head(conns_) \in Connectors
           /\ conns_' \in Seq(Connectors) /\ Len(conns_') = Len(conns_)
           /\ ToSet(conns_') = ToSet(conns_)
           /\ IsInjective(conns_) => IsInjective(conns_')
<1>1. conns_ \in Seq(Connectors) /\ heartbeat > 0 /\ heartbeat \in 0..Len(conns_)
  BY DEF TypeOK, HeartbeatRound
<1>2. conns_ # <<>>
  BY <1>1
<1>3. conns_' = Append(Tail(conns_), Head(conns_))
  BY DEF HeartbeatRound, PushBack
<1>4. /\ Head(conns_) \in Connectors /\ Tail(conns_) \in Seq(Connectors)
      /\ Len(Tail(conns_)) = Len(conns_) - 1
      /\ ToSet(conns_) = ToSet(Tail(conns_)) \cup {Head(conns_)}
      /\ IsInjective(conns_) => IsInjective(Tail(conns_)) /\ Head(conns_) \notin ToSet(Tail(conns_))
  BY <1>1, <1>2, QueuePop
<1> DEFINE rest == Tail(conns_)
           first == Head(conns_)
<1>5. /\ Append(rest, first) \in Seq(Connectors) /\ Len(Append(rest, first)) = Len(rest) + 1
      /\ ToSet(Append(rest, first)) = ToSet(rest) \cup {first}
      /\ IsInjective(rest) /\ first \notin ToSet(rest) => IsInjective(Append(rest, first))
  <2>1. rest \in Seq(Connectors) /\ first \in Connectors
    BY <1>4
  <2> HIDE DEF rest, first
  <2>2. QED
    BY <2>1, QueuePush
<1>6. Len(conns_) \in Nat
  BY <1>1
<1>7. QED
  BY <1>3, <1>4, <1>5, <1>6

LEMMA Borrowing ==
    ASSUME TypeOK, NEW t \in Threads, GetConnector(t)
    PROVE  /\ Head(conns_) \in Connectors
           /\ conns_' \in Seq(Connectors)
           /\ ToSet(conns_) = ToSet(conns_') \cup {Head(conns_)}
           /\ IsInjective(conns_) => IsInjective(conns_') /\ Head(conns_) \notin ToSet(conns_')
<1>1. conns_ \in Seq(Connectors) /\ conns_ # <<>> /\ conns_' = Tail(conns_)
  BY DEF TypeOK, GetConnector
<1>2. QED
  BY <1>1, QueuePop

LEMMA Pushing ==
    ASSUME TypeOK, NEW c \in Connectors, conns_' = Append(conns_, c)
    PROVE  /\ conns_' \in Seq(Connectors) /\ Len(conns_') = Len(conns_) + 1
           /\ ToSet(conns_') = ToSet(conns_) \cup {c}
           /\ IsInjective(conns_) /\ c \notin ToSet(conns_) => IsInjective(conns_')
<1>1. conns_ \in Seq(Connectors)
  BY DEF TypeOK
<1>2. QED
  BY <1>1, QueuePush

\* A thread that is to return its connector has one.
LEMMA Returning ==
    ASSUME PoolInv, NEW t \in Threads, FreeConnector(t)
    PROVE  conn[t] \in Connectors /\ maker = "running" /\ conn[t] \notin ToSet(conns_)
<1>1. thread[t] # "idle"
  BY DEF FreeConnector
<1>2. conn[t] # Nobody
  BY <1>1 DEF PoolInv, Places
<1>3. QED
  BY <1>2 DEF PoolInv, Places, TypeOK, OneBorrower

-----------------------------------------------------------------------------
(* Type correctness *)

\* The steps of a thread inside its query leave the pool alone.
InQuery(t) == Query(t) \/ Execute(t) \/ ExecuteFails(t) \/ Commit(t)

LEMMA InQueryFacts ==
    ASSUME TypeOK, NEW t \in Threads, InQuery(t)
    PROVE  /\ UNCHANGED <<server, maker, conns_, mysql_conn_, is_connect_success,
                          heartbeat, conn, crashed, refused>>
           /\ thread[t] # "idle"
           /\ \E w \in {"commit", "free", "returns true"} : thread' = [thread EXCEPT ![t] = w]
           /\ transaction' \in [Threads -> {"none", "open", "committed", "rolled back"}]
<1>1. /\ UNCHANGED <<server, maker, conns_, mysql_conn_, is_connect_success,
                     heartbeat, conn, crashed, refused>>
      /\ thread[t] # "idle"
  BY DEF InQuery, Query, Execute, ExecuteFails, Commit, poolVars
<1>2. \E w \in {"commit", "free", "returns true"} : thread' = [thread EXCEPT ![t] = w]
  BY DEF InQuery, Query, Execute, ExecuteFails, Commit
<1>3. transaction' \in [Threads -> {"none", "open", "committed", "rolled back"}]
  BY DEF InQuery, Query, Execute, ExecuteFails, Commit, TypeOK
<1>4. QED
  BY <1>1, <1>2, <1>3

LEMMA TypeStep == PoolInv /\ [Next]_vars => TypeOK'
<1> SUFFICES ASSUME PoolInv, [Next]_vars PROVE TypeOK'
  OBVIOUS
<1>type. TypeOK
  BY DEF PoolInv
<1>len. Len(conns_) \in Nat /\ heartbeat \in Nat /\ heartbeat <= Len(conns_)
  <2>1. conns_ \in Seq(Connectors) /\ heartbeat \in 0..Len(conns_)
    BY <1>type DEF TypeOK
  <2>2. Len(conns_) \in Nat
    BY <2>1
  <2>3. QED
    BY <2>1, <2>2
<1>1. CASE ServerDown
  <2>1. UNCHANGED <<maker, conns_, is_connect_success, heartbeat, thread, conn,
                    transaction, crashed, refused>> /\ server' = "down"
    BY <1>1 DEF ServerDown, threadVars
  <2>2. mysql_conn_' \in [Connectors -> {"null", "good", "lost"}]
    BY <1>1, <1>type DEF ServerDown, TypeOK
  <2>3. QED
    BY <2>1, <2>2, <1>type DEF TypeOK
<1>2. CASE ServerUp
  <2>1. UNCHANGED <<maker, conns_, mysql_conn_, is_connect_success, heartbeat,
                    thread, conn, transaction, crashed, refused>> /\ server' = "up"
    BY <1>2 DEF ServerUp, poolVars, threadVars
  <2>2. QED
    BY <2>1, <1>type DEF TypeOK
<1>3. ASSUME NEW c \in Connectors, MakeConnector(c)
      PROVE  TypeOK'
  <2>1. UNCHANGED <<server, maker, heartbeat, thread, conn, transaction, crashed>>
    BY <1>3 DEF MakeConnector, threadVars
  <2>2. conns_' \in Seq(Connectors) /\ Len(conns_') = Len(conns_) + 1
    BY <1>3, <1>type, Pushing DEF MakeConnector
  <2>3. heartbeat' \in 0..Len(conns_')
    BY <2>1, <2>2, <1>len
  <2>4. Connect(c)
    BY <1>3 DEF MakeConnector
  <2>5. /\ mysql_conn_' \in [Connectors -> {"null", "good", "lost"}]
        /\ is_connect_success' \in [Connectors -> BOOLEAN]
    BY <2>4, <1>type DEF Connect, TypeOK
  <2>6. refused' \in BOOLEAN
    BY <1>3 DEF MakeConnector
  <2>7. QED
    BY <2>1, <2>2, <2>3, <2>5, <2>6, <1>type DEF TypeOK
<1>4. CASE MakeFinished
  <2>1. UNCHANGED <<server, conns_, mysql_conn_, is_connect_success, heartbeat, thread,
                    conn, transaction, crashed, refused>> /\ maker' = "running"
    BY <1>4 DEF MakeFinished, poolVars, threadVars
  <2>2. QED
    BY <2>1, <1>type DEF TypeOK
<1>5. CASE HeartbeatStart
  <2>1. UNCHANGED <<server, maker, conns_, mysql_conn_, is_connect_success, thread,
                    conn, transaction, crashed, refused>> /\ heartbeat' = Len(conns_)
    BY <1>5 DEF HeartbeatStart, poolVars, threadVars
  <2>2. heartbeat' \in 0..Len(conns_')
    BY <2>1, <1>len
  <2>3. QED
    BY <2>1, <2>2, <1>type DEF TypeOK
<1>6. CASE HeartbeatRound
  <2>1. UNCHANGED <<server, maker, thread, conn, transaction, crashed, refused>>
        /\ heartbeat' = heartbeat - 1 /\ heartbeat > 0
    BY <1>6 DEF HeartbeatRound, threadVars
  <2>2. Head(conns_) \in Connectors /\ conns_' \in Seq(Connectors) /\ Len(conns_') = Len(conns_)
    BY <1>6, <1>type, Rotation
  <2>3. heartbeat' \in 0..Len(conns_')
    BY <2>1, <2>2, <1>len
  <2>4. CASE is_connect_success[Head(conns_)]
    <3>1. QueryVersion(Head(conns_)) /\ UNCHANGED mysql_conn_
      BY <1>6, <2>4, Zenon DEF HeartbeatRound
    <3>2. is_connect_success' \in [Connectors -> BOOLEAN]
      BY <2>2, <3>1, <1>type DEF QueryVersion, TypeOK
    <3>3. QED
      BY <2>1, <2>2, <2>3, <3>1, <3>2, <1>type DEF TypeOK
  <2>5. CASE ~is_connect_success[Head(conns_)]
    <3>1. Connect(Head(conns_))
      BY <1>6, <2>5, Zenon DEF HeartbeatRound
    <3>2. /\ mysql_conn_' \in [Connectors -> {"null", "good", "lost"}]
          /\ is_connect_success' \in [Connectors -> BOOLEAN]
      BY <2>2, <3>1, <1>type DEF Connect, TypeOK
    <3>3. QED
      BY <2>1, <2>2, <2>3, <3>2, <1>type DEF TypeOK
  <2>6. QED
    BY <2>4, <2>5
<1>7. ASSUME NEW t \in Threads, GetConnector(t)
      PROVE  TypeOK'
  <2>1. UNCHANGED <<server, maker, mysql_conn_, is_connect_success, heartbeat, crashed, refused>>
        /\ heartbeat = 0
    BY <1>7 DEF GetConnector, MutexFree
  <2>2. Head(conns_) \in Connectors /\ conns_' \in Seq(Connectors)
    BY <1>7, <1>type, Borrowing
  <2>3. heartbeat' \in 0..Len(conns_')
    BY <2>1, <2>2
  <2>4. /\ conn' \in [Threads -> Connectors \cup {Nobody}]
        /\ thread' \in [Threads -> {"idle", "query", "commit", "free", "returns true"}]
        /\ transaction' \in [Threads -> {"none", "open", "committed", "rolled back"}]
    BY <1>7, <2>2, <1>type DEF GetConnector, TypeOK
  <2>5. QED
    BY <2>1, <2>2, <2>3, <2>4, <1>type DEF TypeOK
<1>8. ASSUME NEW t \in Threads, InQuery(t)
      PROVE  TypeOK'
  <2>1. thread' \in [Threads -> {"idle", "query", "commit", "free", "returns true"}]
    BY <1>8, <1>type, InQueryFacts DEF TypeOK
  <2>2. QED
    BY <1>8, <2>1, <1>type, InQueryFacts DEF TypeOK
<1>9. ASSUME NEW t \in Threads, QueryNull(t)
      PROVE  TypeOK'
  <2>1. UNCHANGED <<server, maker, conns_, mysql_conn_, is_connect_success, heartbeat,
                    thread, conn, transaction, refused>> /\ crashed' = TRUE
    BY <1>9 DEF QueryNull, poolVars, threadVars
  <2>2. QED
    BY <2>1, <1>type DEF TypeOK
<1>10. ASSUME NEW t \in Threads, FreeConnector(t)
       PROVE  TypeOK'
  <2>1. UNCHANGED <<server, maker, mysql_conn_, is_connect_success, heartbeat,
                    transaction, crashed, refused>> /\ heartbeat = 0
    BY <1>10 DEF FreeConnector, MutexFree
  <2>2. conns_' \in Seq(Connectors)
    BY <1>10, <1>type, Returning, Pushing DEF FreeConnector
  <2>3. heartbeat' \in 0..Len(conns_')
    BY <2>1, <2>2
  <2>4. /\ conn' \in [Threads -> Connectors \cup {Nobody}]
        /\ thread' \in [Threads -> {"idle", "query", "commit", "free", "returns true"}]
    BY <1>10, <1>type DEF FreeConnector, TypeOK
  <2>5. QED
    BY <2>1, <2>2, <2>3, <2>4, <1>type DEF TypeOK
<1>11. CASE UNCHANGED vars
  BY <1>11, <1>type DEF vars, poolVars, threadVars, TypeOK
<1>12. QED
  BY <1>1, <1>2, <1>3, <1>4, <1>5, <1>6, <1>7, <1>8, <1>9, <1>10, <1>11
     DEF Next, ThreadStep, InQuery
-----------------------------------------------------------------------------
(* The places of the connectors *)

\* The part of Places that speaks of the queue and the borrowed connectors only
\* is not disturbed by a step that changes neither.
LEMMA PlacesKept ==
    ASSUME Places, conns_' = conns_, conn' = conn, maker' = maker,
           \A t \in Threads : thread'[t] = "idle" <=> thread[t] = "idle"
    PROVE  Places'
BY DEF Places, OneBorrower, Made

LEMMA PlaceStep == PoolInv /\ [Next]_vars => Places'
<1> SUFFICES ASSUME PoolInv, [Next]_vars PROVE Places'
  OBVIOUS
<1>inv. TypeOK /\ Places
  BY DEF PoolInv
<1>1. CASE ServerDown
  <2>1. UNCHANGED <<maker, conns_, thread, conn>>
    BY <1>1 DEF ServerDown, threadVars
  <2>2. QED
    BY <2>1, <1>inv, PlacesKept
<1>2. CASE ServerUp
  <2>1. UNCHANGED <<maker, conns_, thread, conn>>
    BY <1>2 DEF ServerUp, poolVars, threadVars
  <2>2. QED
    BY <2>1, <1>inv, PlacesKept
<1>3. ASSUME NEW c \in Connectors, MakeConnector(c)
      PROVE  Places'
  <2>1. maker = "making" /\ c \notin Made /\ UNCHANGED <<maker, thread, conn>>
    BY <1>3 DEF MakeConnector, threadVars
  <2>2. /\ ToSet(conns_') = ToSet(conns_) \cup {c}
        /\ IsInjective(conns_) /\ c \notin ToSet(conns_) => IsInjective(conns_')
    BY <1>3, <1>inv, Pushing DEF MakeConnector
  <2>3. c \notin ToSet(conns_)
    BY <2>1 DEF Made
  <2>4. OneBorrower'
    BY <2>1, <2>2, <2>3, <1>inv DEF Places, OneBorrower
  <2>5. QED
    BY <2>1, <2>4, <1>inv DEF Places
<1>4. CASE MakeFinished
  <2>1. Connectors \subseteq Made /\ UNCHANGED <<conns_, thread, conn>> /\ maker' = "running"
    BY <1>4 DEF MakeFinished, poolVars, threadVars
  <2>2. Made' = Made /\ Made \ {Nobody} \subseteq Connectors
    <3>1. conns_ \in Seq(Connectors) /\ \A t \in Threads : conn[t] \in Connectors \cup {Nobody}
      BY <1>inv DEF TypeOK
    <3>2. ToSet(conns_) \subseteq Connectors
      <4>1. \A k \in DOMAIN conns_ : conns_[k] \in Connectors
        BY <3>1
      <4>2. QED
        BY <4>1 DEF ToSet
    <3>3. QED
      BY <2>1, <3>1, <3>2 DEF Made
  <2>3. OneBorrower'
    BY <2>1, <2>2, <1>inv, MysqlPoolAssumption DEF Places, OneBorrower
  <2>4. QED
    BY <2>1, <2>3, <1>inv DEF Places
<1>5. CASE HeartbeatStart
  <2>1. UNCHANGED <<maker, conns_, thread, conn>>
    BY <1>5 DEF HeartbeatStart, poolVars, threadVars
  <2>2. QED
    BY <2>1, <1>inv, PlacesKept
<1>6. CASE HeartbeatRound
  <2>1. UNCHANGED <<maker, thread, conn>>
    BY <1>6 DEF HeartbeatRound, threadVars
  <2>2. ToSet(conns_') = ToSet(conns_) /\ (IsInjective(conns_) => IsInjective(conns_'))
    BY <1>6, <1>inv, Rotation
  <2>3. Made' = Made
    BY <2>1, <2>2 DEF Made
  <2>4. OneBorrower'
    BY <2>1, <2>2, <2>3, <1>inv DEF Places, OneBorrower
  <2>5. QED
    BY <2>1, <2>4, <1>inv DEF Places
<1>7. ASSUME NEW t \in Threads, GetConnector(t)
      PROVE  Places'
  <2> DEFINE c == Head(conns_)
  <2>1. /\ maker = "running" /\ maker' = maker /\ thread[t] = "idle"
        /\ conn' = [conn EXCEPT ![t] = c] /\ thread' = [thread EXCEPT ![t] = "query"]
    BY <1>7 DEF GetConnector
  <2>2. /\ c \in Connectors /\ ToSet(conns_) = ToSet(conns_') \cup {c}
        /\ IsInjective(conns_) => IsInjective(conns_') /\ c \notin ToSet(conns_')
    BY <1>7, <1>inv, Borrowing
  <2> HIDE DEF c
  <2>3. /\ conn'[t] = c /\ conn[t] = Nobody /\ c # Nobody
        /\ \A u \in Threads : u # t => conn'[u] = conn[u]
    BY <2>1, <2>2, <1>inv, MysqlPoolAssumption DEF TypeOK, Places
  <2>4. \A u \in Threads : conn[u] # Nobody => conn[u] # c /\ conn[u] \notin ToSet(conns_')
    BY <2>2, <1>inv DEF Places, OneBorrower
  <2>5. Made' \ {Nobody} = Made \ {Nobody}
    BY <2>2, <2>3 DEF Made
  <2>6. IsInjective(conns_') /\ c \notin ToSet(conns_')
    BY <2>2, <1>inv DEF Places, OneBorrower
  <2>7. OneBorrower'
    BY <2>1, <2>3, <2>4, <2>5, <2>6, <1>inv DEF Places, OneBorrower
  <2>8. \A u \in Threads : thread'[u] = "idle" <=> conn'[u] = Nobody
    BY <2>1, <2>3, <1>inv DEF Places, TypeOK
  <2>9. QED
    BY <2>1, <2>7, <2>8 DEF Places
<1>8. ASSUME NEW t \in Threads, InQuery(t)
      PROVE  Places'
  <2>1. /\ UNCHANGED <<maker, conns_, conn>> /\ thread[t] # "idle"
        /\ \E w \in {"commit", "free", "returns true"} : thread' = [thread EXCEPT ![t] = w]
    BY <1>8, <1>inv, InQueryFacts
  <2>2. \A u \in Threads : thread'[u] = "idle" <=> thread[u] = "idle"
    BY <2>1, <1>inv DEF TypeOK
  <2>3. QED
    BY <2>1, <2>2, <1>inv, PlacesKept
<1>9. ASSUME NEW t \in Threads, QueryNull(t)
      PROVE  Places'
  <2>1. UNCHANGED <<maker, conns_, thread, conn>>
    BY <1>9 DEF QueryNull, poolVars, threadVars
  <2>2. QED
    BY <2>1, <1>inv, PlacesKept
<1>10. ASSUME NEW t \in Threads, FreeConnector(t)
       PROVE  Places'
  <2>1. /\ maker' = maker /\ conns_' = Append(conns_, conn[t])
        /\ conn' = [conn EXCEPT ![t] = Nobody] /\ thread' = [thread EXCEPT ![t] = "idle"]
    BY <1>10 DEF FreeConnector
  <2>2. conn[t] \in Connectors /\ maker = "running" /\ conn[t] \notin ToSet(conns_)
    BY <1>10, Returning
  <2>3. /\ ToSet(conns_') = ToSet(conns_) \cup {conn[t]}
        /\ IsInjective(conns_) /\ conn[t] \notin ToSet(conns_) => IsInjective(conns_')
    BY <2>1, <2>2, <1>inv, Pushing
  <2>4. /\ conn'[t] = Nobody /\ conn[t] # Nobody
        /\ \A u \in Threads : u # t => conn'[u] = conn[u]
    BY <2>1, <2>2, <1>inv, MysqlPoolAssumption DEF TypeOK
  <2>5. \A u \in Threads : conn'[u] # Nobody =>
            u # t /\ conn'[u] # conn[t] /\ conn'[u] \notin ToSet(conns_')
    BY <2>3, <2>4, <1>inv DEF Places, OneBorrower
  <2>6. Made' \ {Nobody} = Made \ {Nobody}
    BY <2>3, <2>4 DEF Made
  <2>7. IsInjective(conns_')
    BY <2>2, <2>3, <1>inv DEF Places, OneBorrower
  <2>8. OneBorrower'
    BY <2>1, <2>4, <2>5, <2>6, <2>7, <1>inv DEF Places, OneBorrower
  <2>9. \A u \in Threads : thread'[u] = "idle" <=> conn'[u] = Nobody
    BY <2>1, <2>4, <1>inv DEF Places, TypeOK
  <2>10. QED
    BY <2>1, <2>2, <2>8, <2>9 DEF Places
<1>11. CASE UNCHANGED vars
  <2>1. UNCHANGED <<maker, conns_, thread, conn>>
    BY <1>11 DEF vars, poolVars, threadVars
  <2>2. QED
    BY <2>1, <1>inv, PlacesKept
<1>12. QED
  BY <1>1, <1>2, <1>3, <1>4, <1>5, <1>6, <1>7, <1>8, <1>9, <1>10, <1>11
     DEF Next, ThreadStep, InQuery
-----------------------------------------------------------------------------
(* The marks of the heartbeat *)

\* connect() of a connector that is not marked and the heartbeat's query leave
\* every connector's mark right.
LEMMA ConnectMarks ==
    ASSUME TypeOK, NullIsMarked, NEW c \in Connectors,
           \/ Connect(c) /\ ~is_connect_success[c]
           \/ QueryVersion(c) /\ is_connect_success[c] /\ UNCHANGED mysql_conn_
    PROVE  /\ NullIsMarked'
           /\ \A d \in Connectors \ {c} : is_connect_success'[d] = is_connect_success[d]
<1>type. /\ mysql_conn_ \in [Connectors -> {"null", "good", "lost"}]
         /\ is_connect_success \in [Connectors -> BOOLEAN]
  BY DEF TypeOK
<1>1. CASE Connect(c) /\ ~is_connect_success[c] /\ server = "up"
  <2>1. /\ mysql_conn_' = [mysql_conn_ EXCEPT ![c] = "good"]
        /\ is_connect_success' = [is_connect_success EXCEPT ![c] = TRUE]
    BY <1>1 DEF Connect
  <2>2. QED
    BY <2>1, <1>type DEF NullIsMarked
<1>2. CASE Connect(c) /\ ~is_connect_success[c] /\ server # "up"
  <2>1. /\ mysql_conn_' = [mysql_conn_ EXCEPT ![c] = "null"]
        /\ is_connect_success' = is_connect_success
    BY <1>2 DEF Connect
  <2>2. QED
    BY <2>1, <1>2, <1>type DEF NullIsMarked
<1>3. CASE QueryVersion(c) /\ is_connect_success[c] /\ UNCHANGED mysql_conn_
  <2>1. is_connect_success' = [is_connect_success EXCEPT ![c] = (mysql_conn_[c] = "good")]
    BY <1>3 DEF QueryVersion
  <2>2. QED
    BY <2>1, <1>3, <1>type DEF NullIsMarked
<1>4. QED
  BY <1>1, <1>2, <1>3

\* A step that leaves the handles and the marks alone.
LEMMA MarksKept ==
    ASSUME Marks, UNCHANGED <<maker, conns_, mysql_conn_, is_connect_success>>
    PROVE  Marks'
BY DEF Marks, NullIsMarked

LEMMA MarkStep == PoolInv /\ [Next]_vars => Marks'
<1> SUFFICES ASSUME PoolInv, [Next]_vars PROVE Marks'
  OBVIOUS
<1>inv. TypeOK /\ Marks /\ NullIsMarked
  BY DEF PoolInv, Marks
<1>1. CASE ServerDown
  <2>1. /\ UNCHANGED <<maker, conns_, is_connect_success>>
        /\ mysql_conn_' = [c \in Connectors |-> IF mysql_conn_[c] = "good" THEN "lost"
                                               ELSE mysql_conn_[c]]
    BY <1>1 DEF ServerDown
  <2>2. \A c \in Connectors : /\ mysql_conn_'[c] = "null" => mysql_conn_[c] = "null"
                              /\ mysql_conn_'[c] # "good"
    BY <2>1
  <2>3. QED
    BY <2>1, <2>2, <1>inv DEF Marks, NullIsMarked
<1>2. ASSUME NEW c \in Connectors, MakeConnector(c)
      PROVE  Marks'
  <2>1. maker = "making" /\ maker' = maker /\ c \notin ToSet(conns_) /\ Connect(c)
    BY <1>2 DEF MakeConnector, Made
  <2>2. ToSet(conns_') = ToSet(conns_) \cup {c}
    BY <1>2, <1>inv, Pushing DEF MakeConnector
  <2>3. ~is_connect_success[c]
    BY <2>1, <1>inv DEF Marks
  <2>4. /\ NullIsMarked'
        /\ \A d \in Connectors \ {c} : is_connect_success'[d] = is_connect_success[d]
    BY <2>1, <2>3, <1>inv, ConnectMarks
  <2>5. QED
    BY <2>1, <2>2, <2>4, <1>inv DEF Marks
<1>3. CASE MakeFinished
  <2>1. UNCHANGED <<conns_, mysql_conn_, is_connect_success>> /\ maker' = "running"
    BY <1>3 DEF MakeFinished, poolVars
  <2>2. QED
    BY <2>1, <1>inv DEF Marks, NullIsMarked
<1>4. CASE HeartbeatRound
  <2> DEFINE c == Head(conns_)
  <2>1. c \in Connectors /\ ToSet(conns_') = ToSet(conns_) /\ maker' = maker
    BY <1>4, <1>inv, Rotation DEF HeartbeatRound
  <2>2. c \in ToSet(conns_)
    <3>1. conns_ \in Seq(Connectors) /\ heartbeat \in 0..Len(conns_) /\ heartbeat > 0
      BY <1>4, <1>inv DEF TypeOK, HeartbeatRound
    <3>2. conns_ # <<>>
      BY <3>1
    <3>3. QED
      BY <3>1, <3>2, QueuePop
  <2>3. \/ Connect(c) /\ ~is_connect_success[c]
        \/ QueryVersion(c) /\ is_connect_success[c] /\ UNCHANGED mysql_conn_
    BY <1>4, Zenon DEF HeartbeatRound
  <2> HIDE DEF c
  <2>4. /\ NullIsMarked'
        /\ \A d \in Connectors \ {c} : is_connect_success'[d] = is_connect_success[d]
    BY <2>1, <2>3, <1>inv, ConnectMarks
  <2>5. QED
    BY <2>1, <2>2, <2>4, <1>inv DEF Marks
<1>5. ASSUME NEW t \in Threads, GetConnector(t)
      PROVE  Marks'
  <2>1. /\ UNCHANGED <<mysql_conn_, is_connect_success>>
        /\ maker = "running" /\ maker' = maker
    BY <1>5 DEF GetConnector
  <2>2. QED
    BY <2>1, <1>inv DEF Marks, NullIsMarked
<1>6. ASSUME NEW t \in Threads, FreeConnector(t)
      PROVE  Marks'
  <2>1. UNCHANGED <<mysql_conn_, is_connect_success>> /\ maker' = maker
    BY <1>6 DEF FreeConnector
  <2>2. maker = "running"
    BY <1>6, Returning
  <2>3. QED
    BY <2>1, <2>2, <1>inv DEF Marks, NullIsMarked
<1>7. ASSUME NEW t \in Threads, InQuery(t)
      PROVE  Marks'
  <2>1. UNCHANGED <<maker, conns_, mysql_conn_, is_connect_success>>
    BY <1>7, <1>inv, InQueryFacts
  <2>2. QED
    BY <2>1, <1>inv, MarksKept
<1>8. CASE \/ ServerUp \/ HeartbeatStart \/ UNCHANGED vars
           \/ \E t \in Threads : QueryNull(t)
  <2>1. UNCHANGED <<maker, conns_, mysql_conn_, is_connect_success>>
    BY <1>8 DEF ServerUp, HeartbeatStart, QueryNull, vars, poolVars
  <2>2. QED
    BY <2>1, <1>inv, MarksKept
<1>9. QED
  BY <1>1, <1>2, <1>3, <1>4, <1>5, <1>6, <1>7, <1>8 DEF Next, ThreadStep, InQuery

-----------------------------------------------------------------------------
(* The heartbeat and the queue *)

\* Only the heartbeat moves connectors while it runs: the other operations on
\* the queue wait for mu_, and the pool is made.
LEMMA HeartbeatStep ==
    ASSUME PoolInv, [Next]_vars
    PROVE  \/ HeartbeatRound
           \/ HeartbeatStart
           \/ heartbeat' = heartbeat /\ (heartbeat > 0 => conns_' = conns_)
<1>1. ASSUME NEW c \in Connectors, MakeConnector(c)
      PROVE  heartbeat' = heartbeat /\ heartbeat = 0
  BY <1>1 DEF MakeConnector, PoolInv, Timer
<1>2. ASSUME NEW t \in Threads, GetConnector(t) \/ FreeConnector(t)
      PROVE  heartbeat' = heartbeat /\ heartbeat = 0
  BY <1>2 DEF GetConnector, FreeConnector, MutexFree
<1>3. ASSUME NEW t \in Threads, InQuery(t)
      PROVE  heartbeat' = heartbeat /\ conns_' = conns_
  BY <1>3, InQueryFacts DEF PoolInv
<1>4. CASE \/ ServerDown \/ ServerUp \/ MakeFinished \/ UNCHANGED vars
           \/ \E t \in Threads : QueryNull(t)
  BY <1>4 DEF ServerDown, ServerUp, MakeFinished, QueryNull, vars, poolVars
<1>5. QED
  BY <1>1, <1>2, <1>3, <1>4 DEF Next, ThreadStep, InQuery

LEMMA TimerStep == PoolInv /\ [Next]_vars => Timer'
<1> SUFFICES ASSUME PoolInv, [Next]_vars, maker' = "making" PROVE heartbeat' = 0
  BY DEF Timer
<1>1. maker = "making"
  <2>1. CASE \E t \in Threads : InQuery(t)
    BY <2>1, InQueryFacts DEF PoolInv
  <2>2. CASE ~\E t \in Threads : InQuery(t)
    BY <2>2 DEF Next, ThreadStep, InQuery, ServerDown, ServerUp, MakeConnector, MakeFinished,
       HeartbeatStart, HeartbeatRound, GetConnector, QueryNull, FreeConnector, vars
  <2>3. QED
    BY <2>1, <2>2
<1>2. heartbeat = 0
  BY <1>1 DEF PoolInv, Timer
<1>3. QED
  BY <1>1, <1>2, HeartbeatStep DEF HeartbeatStart, HeartbeatRound

-----------------------------------------------------------------------------
(* The theorems *)

LEMMA PoolInvariant == SafeSpec => []PoolInv
<1>1. PoolInv /\ [Next]_vars => PoolInv'
  BY TypeStep, PlaceStep, MarkStep, TimerStep DEF PoolInv
<1>2. QED
  BY PoolInvInit, <1>1, PTL DEF SafeSpec

\* Every variable of the pool, of the heartbeat and of the threads keeps its type.
\* In particular the heartbeat (mysql_timer::check_heartbeat) never has more
\* rounds to go than connectors in the queue: its front() and pop() find one.
THEOREM PoolTypes == SafeSpec => []TypeOK
<1>1. PoolInv => TypeOK
  BY DEF PoolInv
<1>2. QED
  BY PoolInvariant, <1>1, PTL

\* get_connector(), free_connector(), the heartbeat and make_connector_pool()
\* keep every connector in one place: once in the queue or with one thread.
THEOREM ConnectorHasOnePlace == SafeSpec => []OneBorrower
<1>1. PoolInv => OneBorrower
  BY DEF PoolInv, Places
<1>2. QED
  BY PoolInvariant, <1>1, PTL

\* mysql_connector::connect() and the heartbeat never leave a null handle marked
\* as connected, nor a good one as not connected.
THEOREM NullHandlesAreMarked == SafeSpec => []NullIsMarked
<1>1. PoolInv => NullIsMarked
  BY DEF PoolInv, Marks
<1>2. QED
  BY PoolInvariant, <1>1, PTL

\* check_heartbeat() holds mu_ for all its rounds: it goes through the queue in
\* turn, and no get_connector(), free_connector() or make_connector_pool() moves
\* a connector meanwhile.
THEOREM HeartbeatGoesInTurn == SafeSpec => HeartbeatAlone
<1> DEFINE Step == heartbeat > 0 =>
                     /\ heartbeat' = heartbeat - 1 \/ UNCHANGED <<heartbeat, conns_>>
                     /\ \A k \in 1..(heartbeat - 1) :
                          heartbeat' < heartbeat => conns_'[k] = conns_[k + 1]
<1>1. PoolInv /\ [Next]_vars => [Step]_vars
  <2> SUFFICES ASSUME PoolInv, [Next]_vars, heartbeat > 0
               PROVE  /\ heartbeat' = heartbeat - 1 \/ UNCHANGED <<heartbeat, conns_>>
                      /\ \A k \in 1..(heartbeat - 1) :
                           heartbeat' < heartbeat => conns_'[k] = conns_[k + 1]
    OBVIOUS
  <2>1. conns_ \in Seq(Connectors) /\ heartbeat \in 0..Len(conns_)
    BY DEF PoolInv, TypeOK
  <2>2. CASE HeartbeatRound
    <3>1. heartbeat' = heartbeat - 1 /\ conns_' = Append(Tail(conns_), Head(conns_))
      BY <2>2 DEF HeartbeatRound, PushBack
    <3>2. Len(conns_) \in Nat /\ Len(conns_) >= heartbeat /\ heartbeat \in Nat
      BY <2>1
    <3>3. conns_ # <<>>
      BY <2>1, <3>2
    <3>4. \A k \in 1..(Len(conns_) - 1) : Append(Tail(conns_), Head(conns_))[k] = conns_[k + 1]
      BY <2>1, <3>3
    <3>5. \A k \in 1..(heartbeat - 1) : k \in 1..(Len(conns_) - 1)
      BY <3>2
    <3>6. QED
      BY <3>1, <3>4, <3>5
  <2>3. CASE heartbeat' = heartbeat /\ conns_' = conns_
    BY <2>1, <2>3
  <2>4. ~HeartbeatStart
    BY DEF HeartbeatStart
  <2>5. QED
    BY <2>2, <2>3, <2>4, HeartbeatStep
<1>2. QED
  BY PoolInvariant, <1>1, PTL DEF SafeSpec, HeartbeatAlone

-----------------------------------------------------------------------------
(* What the lost commit and the lost report need *)

\* Connect keeps the other connectors, and a connector it reaches is good.
LEMMA ConnectGood ==
    ASSUME TypeOK, NEW c \in Connectors, Connect(c)
    PROVE  /\ \A d \in Connectors \ {c} : mysql_conn_'[d] = mysql_conn_[d]
           /\ server = "up" => mysql_conn_'[c] = "good"
<1>1. \E h \in {"good", "null"} : mysql_conn_' = [mysql_conn_ EXCEPT ![c] = h]
  BY Zenon DEF Connect
<1>2. server = "up" => mysql_conn_' = [mysql_conn_ EXCEPT ![c] = "good"]
  BY Zenon DEF Connect
<1>3. QED
  BY <1>1, <1>2 DEF TypeOK

\* Only the loss of a server or the reconnection of a connector nobody has changes
\* what a borrowed connection is.
LEMMA BorrowedKept ==
    ASSUME PoolInv, [Next]_vars, ~ServerDown, NEW t \in Threads, conn[t] # Nobody
    PROVE  mysql_conn_'[conn[t]] = mysql_conn_[conn[t]]
<1>1. TypeOK /\ Places /\ conn[t] \in Connectors /\ conn[t] \notin ToSet(conns_)
  BY DEF PoolInv, Places, OneBorrower, TypeOK
<1>2. ASSUME NEW c \in Connectors, MakeConnector(c)
      PROVE  mysql_conn_'[conn[t]] = mysql_conn_[conn[t]]
  BY <1>1, <1>2, ConnectGood DEF MakeConnector, Made
<1>3. CASE HeartbeatRound
  <2> DEFINE c == Head(conns_)
  <2>1. c \in Connectors /\ c # conn[t]
    <3>1. conns_ \in Seq(Connectors) /\ heartbeat \in 0..Len(conns_) /\ heartbeat > 0
      BY <1>1, <1>3 DEF TypeOK, HeartbeatRound
    <3>2. conns_ # <<>>
      BY <3>1
    <3>3. QED
      BY <1>1, <3>1, <3>2, QueuePop
  <2>2. Connect(c) \/ UNCHANGED mysql_conn_
    BY <1>3, Zenon DEF HeartbeatRound
  <2> HIDE DEF c
  <2>3. QED
    BY <1>1, <2>1, <2>2, ConnectGood
<1>4. CASE \/ \E u \in Threads : GetConnector(u) \/ FreeConnector(u) \/ QueryNull(u)
           \/ ServerUp \/ MakeFinished \/ HeartbeatStart \/ UNCHANGED vars
  BY <1>4 DEF GetConnector, FreeConnector, QueryNull, ServerUp, MakeFinished,
              HeartbeatStart, vars, poolVars
<1>5. ASSUME NEW u \in Threads, InQuery(u)
      PROVE  mysql_conn_'[conn[t]] = mysql_conn_[conn[t]]
  BY <1>1, <1>5, InQueryFacts
<1>6. QED
  BY <1>2, <1>3, <1>4, <1>5 DEF Next, ThreadStep, InQuery

\* Between its statements and its commit a transaction has the connection it began
\* over, and true is returned for a commit.
Committing ==
    \A t \in Threads : /\ thread[t] = "commit" => mysql_conn_[conn[t]] = "good"
                       /\ thread[t] = "returns true" => transaction[t] = "committed"

\* The server does not go down between the last statement of a transaction and
\* its commit.
CommitsUndisturbed == ServerDown => \A t \in Threads : thread[t] # "commit"

LEMMA CommittingStep ==
    PoolInv /\ Committing /\ [Next]_vars /\ [CommitsUndisturbed]_vars => Committing'
<1> SUFFICES ASSUME PoolInv, Committing, [Next]_vars, [CommitsUndisturbed]_vars
             PROVE  Committing'
  OBVIOUS
<1>type. TypeOK /\ \A t \in Threads : thread[t] = "commit" => conn[t] # Nobody
  BY DEF PoolInv, Places
<1>1. CASE ServerDown
  <2>1. /\ UNCHANGED <<thread, conn, transaction>>
        /\ vars' # vars
    BY <1>1 DEF ServerDown, threadVars, vars
  <2>2. \A t \in Threads : thread[t] # "commit"
    BY <1>1, <2>1 DEF CommitsUndisturbed
  <2>3. QED
    BY <2>1, <2>2 DEF Committing
<1>2. ASSUME ~ServerDown, UNCHANGED <<thread, conn, transaction>>
      PROVE  Committing'
  BY <1>2, <1>type, BorrowedKept DEF Committing
<1>3. ASSUME ~ServerDown, NEW t \in Threads, GetConnector(t) \/ FreeConnector(t)
      PROVE  Committing'
  <2>1. /\ thread'[t] \in {"query", "idle"}
        /\ \A u \in Threads \ {t} : /\ thread'[u] = thread[u] /\ conn'[u] = conn[u]
                                    /\ transaction'[u] = transaction[u]
    BY <1>3, <1>type DEF GetConnector, FreeConnector, TypeOK
  <2>2. QED
    BY <1>3, <2>1, <1>type, BorrowedKept DEF Committing
<1>4. ASSUME ~ServerDown, NEW t \in Threads, InQuery(t)
      PROVE  Committing'
  <2>1. /\ \A u \in Threads \ {t} : /\ thread'[u] = thread[u]
                                    /\ transaction'[u] = transaction[u]
        /\ conn' = conn /\ mysql_conn_' = mysql_conn_
    BY <1>4, <1>type DEF InQuery, Query, Execute, ExecuteFails, Commit, poolVars, TypeOK
  <2>2. CASE Query(t) \/ ExecuteFails(t)
    <3>1. thread'[t] = "free"
      BY <2>2, <1>type DEF Query, ExecuteFails, TypeOK
    <3>2. QED
      BY <2>1, <3>1 DEF Committing
  <2>3. CASE Execute(t)
    <3>1. thread'[t] = "commit" /\ mysql_conn_[conn[t]] = "good"
      BY <2>3, <1>type DEF Execute, TypeOK
    <3>2. QED
      BY <2>1, <3>1 DEF Committing
  <2>4. CASE Commit(t)
    <3>1. thread'[t] = "returns true" /\ mysql_conn_[conn[t]] = "good"
      BY <2>4, <1>type DEF Commit, TypeOK, Committing
    <3>2. transaction'[t] = "committed"
      BY <2>4, <3>1, <1>type DEF Commit, TypeOK
    <3>3. QED
      BY <2>1, <3>1, <3>2 DEF Committing
  <2>5. QED
    BY <1>4, <2>2, <2>3, <2>4 DEF InQuery
<1>5. ASSUME NEW c \in Connectors, MakeConnector(c)
      PROVE  UNCHANGED <<thread, conn, transaction>>
  BY <1>5 DEF MakeConnector, threadVars
<1>6. CASE \/ ServerUp \/ MakeFinished \/ HeartbeatStart \/ HeartbeatRound \/ UNCHANGED vars
           \/ \E t \in Threads : QueryNull(t)
  <2>1. UNCHANGED <<thread, conn, transaction>>
    BY <1>6 DEF ServerUp, MakeFinished, HeartbeatStart, HeartbeatRound, QueryNull,
                threadVars, vars
  <2>2. QED
    BY <1>1, <1>2, <2>1
<1>7. QED
  BY <1>1, <1>2, <1>3, <1>4, <1>5, <1>6 DEF Next, ThreadStep, InQuery

\* What true from query_result(sqls) lacks (the run mysql_pool_commit): it means that
\* the statements are committed in every execution in which the server does not go
\* down between a transaction's last statement and its commit, however often it goes
\* down otherwise, whatever the heartbeat reconnects and the other threads do.
THEOREM TrueMeansCommittedUndisturbed ==
    SafeSpec /\ [][CommitsUndisturbed]_vars => []TrueMeansCommitted
<1>1. Init => Committing
  BY DEF Init, Committing
<1>2. Committing => TrueMeansCommitted
  BY DEF Committing, TrueMeansCommitted
<1>3. QED
  BY <1>1, <1>2, CommittingStep, PoolInvariant, PTL DEF SafeSpec

\* A connect(), of the pool or of the heartbeat, finds the server down.
ConnectFails ==
    /\ server = "down"
    /\ \/ \E c \in Connectors : MakeConnector(c)
       \/ HeartbeatRound /\ ~is_connect_success[Head(conns_)]

\* Every connector that was made has a handle.
Handles == ~crashed /\ \A c \in Made \ {Nobody} : mysql_conn_[c] # "null"

LEMMA HandlesStep == PoolInv /\ Handles /\ [Next]_vars /\ [~ConnectFails]_vars => Handles'
<1> SUFFICES ASSUME PoolInv, Handles, [Next]_vars, [~ConnectFails]_vars PROVE Handles'
  OBVIOUS
<1>type. TypeOK /\ Places
  BY DEF PoolInv
<1>made. Made \subseteq Connectors \cup {Nobody}
  <2>1. ToSet(conns_) \subseteq Connectors
    <3>1. conns_ \in Seq(Connectors)
      BY <1>type DEF TypeOK
    <3>2. \A k \in DOMAIN conns_ : conns_[k] \in Connectors
      BY <3>1
    <3>3. QED
      BY <3>2 DEF ToSet
  <2>2. \A t \in Threads : conn[t] \in Connectors \cup {Nobody}
    BY <1>type DEF TypeOK
  <2>3. QED
    BY <2>1, <2>2 DEF Made
<1>1. ASSUME UNCHANGED <<mysql_conn_, crashed>>, Made' \subseteq Made \cup {Nobody}
      PROVE  Handles'
  BY <1>1 DEF Handles
<1>2. ASSUME NEW c \in Connectors, Connect(c), server = "up",
             UNCHANGED crashed, Made' \subseteq Made \cup {c}
      PROVE  Handles'
  <2>1. /\ \A d \in Connectors \ {c} : mysql_conn_'[d] = mysql_conn_[d]
        /\ mysql_conn_'[c] = "good"
    BY <1>2, <1>type, ConnectGood
  <2>2. QED
    BY <1>2, <1>made, <2>1 DEF Handles
<1>3. CASE UNCHANGED vars
  BY <1>1, <1>3 DEF vars, poolVars, threadVars, Made
<1>4. CASE ServerDown
  <2>1. /\ UNCHANGED <<conns_, conn, crashed>>
        /\ \A c \in Connectors : mysql_conn_'[c] = "null" => mysql_conn_[c] = "null"
    BY <1>4 DEF ServerDown, threadVars
  <2>2. Made' = Made
    BY <2>1 DEF Made
  <2>3. QED
    BY <1>made, <2>1, <2>2 DEF Handles
<1>5. ASSUME NEW c \in Connectors, MakeConnector(c), ~ConnectFails
      PROVE  Handles'
  <2>1. /\ Connect(c) /\ UNCHANGED <<conn, crashed>> /\ conns_' = Append(conns_, c)
        /\ server = "up"
    BY <1>5, <1>type DEF MakeConnector, ConnectFails, threadVars, TypeOK
  <2>2. ToSet(conns_') = ToSet(conns_) \cup {c}
    BY <2>1, <1>type, Pushing
  <2>3. Made' \subseteq Made \cup {c}
    BY <2>1, <2>2 DEF Made
  <2>4. QED
    BY <1>2, <2>1, <2>3
<1>6. ASSUME HeartbeatRound, ~ConnectFails
      PROVE  Handles'
  <2> DEFINE c == Head(conns_)
  <2>1. c \in Connectors /\ ToSet(conns_') = ToSet(conns_) /\ UNCHANGED <<conn, crashed>>
    BY <1>6, <1>type, Rotation DEF HeartbeatRound, threadVars
  <2>2. Made' = Made
    BY <2>1 DEF Made
  <2>3. (Connect(c) /\ ~is_connect_success[c]) \/ UNCHANGED mysql_conn_
    BY <1>6, Zenon DEF HeartbeatRound
  <2>4. ~is_connect_success[c] => server = "up"
    BY <1>6, <1>type DEF ConnectFails, TypeOK
  <2> HIDE DEF c
  <2>5. QED
    BY <1>1, <1>2, <2>1, <2>2, <2>3, <2>4
<1>7. ASSUME NEW t \in Threads, GetConnector(t)
      PROVE  Handles'
  <2>1. /\ UNCHANGED <<mysql_conn_, crashed>>
        /\ conn' = [conn EXCEPT ![t] = Head(conns_)]
    BY <1>7 DEF GetConnector
  <2>2. ToSet(conns_) = ToSet(conns_') \cup {Head(conns_)}
    BY <1>7, <1>type, Borrowing
  <2>3. \A u \in Threads : conn'[u] \in {conn[u], Head(conns_)}
    BY <2>1, <1>type DEF TypeOK
  <2>4. QED
    BY <1>1, <2>1, <2>2, <2>3 DEF Made
<1>8. ASSUME NEW t \in Threads, FreeConnector(t)
      PROVE  Handles'
  <2>1. /\ UNCHANGED <<mysql_conn_, crashed>>
        /\ conn' = [conn EXCEPT ![t] = Nobody] /\ conns_' = Append(conns_, conn[t])
    BY <1>8 DEF FreeConnector
  <2>2. conn[t] \in Connectors
    BY <1>8, Returning
  <2>3. ToSet(conns_') = ToSet(conns_) \cup {conn[t]}
    BY <2>1, <2>2, <1>type, Pushing
  <2>4. \A u \in Threads : conn'[u] \in {conn[u], Nobody}
    BY <2>1, <1>type DEF TypeOK
  <2>5. QED
    BY <1>1, <2>1, <2>3, <2>4 DEF Made
<1>9. ASSUME NEW t \in Threads, InQuery(t)
      PROVE  Handles'
  BY <1>1, <1>9, <1>type, InQueryFacts DEF Made
<1>10. ASSUME NEW t \in Threads, QueryNull(t)
       PROVE  FALSE
  <2>1. thread[t] = "query" /\ mysql_conn_[conn[t]] = "null"
    BY <1>10 DEF QueryNull
  <2>2. conn[t] # Nobody
    BY <2>1, <1>type DEF Places
  <2>3. conn[t] \in Made
    BY DEF Made
  <2>4. QED
    BY <2>1, <2>2, <2>3 DEF Handles
<1>11. CASE ServerUp \/ MakeFinished \/ HeartbeatStart
  BY <1>1, <1>11 DEF ServerUp, MakeFinished, HeartbeatStart, poolVars, threadVars, Made
<1>12. QED
  BY <1>3, <1>4, <1>5, <1>6, <1>7, <1>8, <1>9, <1>10, <1>11 DEF Next, ThreadStep, InQuery

\* What it takes to crash: query_result() does not look at is_connect_success, and yet
\* no query goes over a null handle unless a connect() failed, of make_connector_pool()
\* or of a heartbeat. Connections that the server drops under a query, or that are
\* dropped and not noticed yet, do not do it.
THEOREM OnlyFailedConnectsCrash ==
    SafeSpec /\ [][~ConnectFails]_vars => []~crashed
<1>1. Init => Handles
  <2> SUFFICES ASSUME Init PROVE Handles
    OBVIOUS
  <2>1. DOMAIN conns_ = {}
    BY DEF Init
  <2>2. ToSet(conns_) = {} /\ ~crashed
    BY <2>1 DEF Init, ToSet
  <2>3. \A c \in Made : c = Nobody
    BY <2>2 DEF Init, Made
  <2>4. QED
    BY <2>2, <2>3 DEF Handles
<1>2. Handles => ~crashed
  BY DEF Handles
<1>3. QED
  BY <1>1, <1>2, HandlesStep, PoolInvariant, PTL DEF SafeSpec
=============================================================================
