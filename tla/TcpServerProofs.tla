--------------------------- MODULE TcpServerProofs ---------------------------
(***************************************************************************)
(* Proofs about TcpServer for any number of connections, buffers, posted   *)
(* tasks: how the end of a connection is reported, that the manager's raw  *)
(* pointers are good, the types of the variables, that each send buffer    *)
(* has one owner, the limit of connections, and when messages are in one   *)
(* piece. The first two do not depend on the order and the contents of the *)
(* posted tasks and of the writes, only on whether there are any.          *)
(***************************************************************************)
EXTENDS TcpServer, SequenceTheorems, FiniteSetTheorems, TLAPS

\* The part of the typing that the proofs use.
Shape ==
    /\ sets_ \subseteq Handlers
    /\ is_valid_ \in [Handlers -> BOOLEAN]
    /\ socket_ \in [Handlers -> {"open", "closed"}]
    /\ reading \in [Handlers -> {"none", "header", "empty", "body"}]
    /\ closes \in [Handlers -> Nat]
    /\ posted = [h \in Handlers |-> posted[h]]
    /\ writing = [h \in Handlers |-> writing[h]]

\* The handlers that exist: Referenced, as a set.
Alive == {h \in Handlers : reading[h] # "none" \/ posted[h] # <<>> \/ writing[h] # <<>>}

\* The inductive invariant. An existing handler is registered, valid and not yet
\* reported as closed, or none of the three; the read keeps a registered one alive.
CloseInv ==
    /\ Shape
    /\ \A h \in sets_ : reading[h] # "none"
    /\ \A h \in Alive : /\ closes[h] = IF is_valid_[h] THEN 0 ELSE 1
                        /\ h \in sets_ <=> is_valid_[h]
    /\ \A h \in Handlers : closes[h] > 0 => socket_[h] = "closed"

-----------------------------------------------------------------------------
(* The three ways in which a step may treat the handlers *)

\* Nothing is reported: sockets may be closed and handlers may die, none is born,
\* and no registered handler loses its read.
LEMMA QuietStep ==
    ASSUME CloseInv, Shape', Alive' \subseteq Alive,
           UNCHANGED <<sets_, is_valid_, closes>>,
           \A h \in sets_ : reading'[h] # "none",
           \A h \in Handlers : socket_[h] = "closed" => socket_'[h] = "closed"
    PROVE  CloseInv'
BY DEF CloseInv

\* The end of one handler is reported, with its socket closed.
LEMMA ReportStep ==
    ASSUME CloseInv, Shape', Alive' \subseteq Alive,
           NEW g \in sets_, CloseCompleted(g),
           \A h \in Handlers \ {g} : reading'[h] = reading[h] /\ socket_'[h] = socket_[h],
           socket_'[g] = "closed"
    PROVE  CloseInv'
<1>1. g \in Handlers /\ g \in Alive
  BY DEF Alive, CloseInv, Shape
<1>2. /\ is_valid_'[g] = FALSE /\ closes'[g] = closes[g] + 1
      /\ g \notin sets_'
  BY <1>1 DEF CloseCompleted, CloseInv, Shape
<1>3. closes[g] = 0
  BY <1>1 DEF CloseInv
<1>4. \A h \in Handlers \ {g} : /\ is_valid_'[h] = is_valid_[h]
                                /\ closes'[h] = closes[h]
                                /\ h \in sets_' <=> h \in sets_
  BY DEF CloseCompleted, CloseInv, Shape
<1>5. \A h \in sets_' : reading'[h] # "none"
  BY <1>2, <1>4 DEF CloseInv, Shape
<1>6. \A h \in Alive' : /\ closes'[h] = IF is_valid_'[h] THEN 0 ELSE 1
                        /\ h \in sets_' <=> is_valid_'[h]
  <2> SUFFICES ASSUME NEW h \in Alive'
               PROVE  /\ closes'[h] = IF is_valid_'[h] THEN 0 ELSE 1
                      /\ h \in sets_' <=> is_valid_'[h]
    OBVIOUS
  <2>1. h \in Alive /\ h \in Handlers
    BY DEF Alive
  <2>2. CASE h = g
    BY <1>2, <1>3, <2>2
  <2>3. CASE h # g
    BY <1>4, <2>1, <2>3 DEF CloseInv
  <2>4. QED
    BY <2>2, <2>3
<1>7. \A h \in Handlers : closes'[h] > 0 => socket_'[h] = "closed"
  BY <1>2, <1>4 DEF CloseInv
<1>8. QED
  BY <1>5, <1>6, <1>7 DEF CloseInv

-----------------------------------------------------------------------------
(* The steps *)

LEMMA CloseInvInit == Init => CloseInv
BY DEF Init, CloseInv, Shape, Alive

LEMMA CloseCompletedShape ==
    ASSUME Shape, NEW g \in Handlers, CloseCompleted(g)
    PROVE  /\ sets_' \subseteq Handlers
           /\ is_valid_' \in [Handlers -> BOOLEAN]
           /\ closes' \in [Handlers -> Nat]
BY DEF CloseCompleted, Shape

LEMMA AcceptStep ==
    ASSUME CloseInv, NEW g \in Handlers, Accept(g)
    PROVE  CloseInv'
<1>1. Shape'
  BY DEF CloseInv, Shape, Accept, sendVars
<1>2. /\ is_valid_'[g] = TRUE /\ closes'[g] = 0 /\ g \in sets_'
      /\ reading'[g] = "header"
  BY DEF Accept, CloseInv, Shape
<1>3. \A h \in Handlers \ {g} :
        /\ is_valid_'[h] = is_valid_[h] /\ closes'[h] = closes[h]
        /\ socket_'[h] = socket_[h] /\ reading'[h] = reading[h]
        /\ h \in sets_' <=> h \in sets_
        /\ h \in Alive' => h \in Alive
  BY DEF Accept, CloseInv, Shape, Alive, sendVars
<1>4. Alive' \subseteq Handlers
  BY DEF Alive
<1>5. QED
  BY <1>1, <1>2, <1>3, <1>4 DEF CloseInv, Shape

LEMMA LookStep ==
    ASSUME CloseInv, NEW S, S \subseteq sets_, LookAt(S)
    PROVE  CloseInv'
<1>1. PICK T \in SUBSET S : PostClose(T)
  <2>1. PICK late \in SUBSET {h \in S : heard[h] = "fresh"} :
            PostClose(late \cup {h \in S : heard[h] = "stale"})
    BY DEF LookAt
  <2>2. QED
    BY <2>1
<1>2. Shape'
  BY <1>1 DEF LookAt, PostClose, CloseInv, Shape, sendVars
<1>3. \A h \in Handlers \ sets_ : posted'[h] = posted[h]
  BY <1>1 DEF PostClose, CloseInv, Shape
<1>4. Alive' \subseteq Alive
  BY <1>3 DEF Alive, LookAt, CloseInv, sendVars
<1>5. QED
  BY <1>2, <1>4, QuietStep DEF LookAt, CloseInv

\* A task is posted to, run for, or a write is started, moved on or ended for a
\* handler that exists; nothing else changes but times and buffers.
LEMMA QueueStep ==
    ASSUME CloseInv, NEW g \in Alive,
           UNCHANGED posted \/ \E q : posted' = [posted EXCEPT ![g] = q],
           UNCHANGED writing \/ \E w : writing' = [writing EXCEPT ![g] = w],
           UNCHANGED <<sets_, is_valid_, socket_, reading, closes>>
    PROVE  CloseInv'
<1>1. Shape'
  BY DEF CloseInv, Shape
<1>2. Alive' \subseteq Alive
  BY DEF Alive, CloseInv, Shape
<1>3. QED
  BY <1>1, <1>2, QuietStep DEF CloseInv

LEMMA CloseInvStep == CloseInv /\ [Next]_vars => CloseInv'
<1> SUFFICES ASSUME CloseInv, [Next]_vars PROVE CloseInv'
  OBVIOUS
<1>alive. /\ sets_ \subseteq Alive
          /\ Alive \subseteq Handlers
          /\ \A h \in Handlers : Referenced(h) <=> h \in Alive
          /\ posted = [h \in Handlers |-> posted[h]]
          /\ writing = [h \in Handlers |-> writing[h]]
  BY DEF CloseInv, Shape, Alive, Referenced
<1>1. CASE CheckAuthentication
  <2>1. NotAuthenticated \subseteq sets_
    BY DEF NotAuthenticated
  <2>2. QED
    BY <1>1, <2>1, LookStep DEF CheckAuthentication
<1>2. CASE CheckHeartjump
  <2> DEFINE authenticated == {h \in sets_ : is_authentication_pass_[h]}
  <2>1. authenticated \subseteq sets_ /\ LookAt(authenticated)
    BY <1>2 DEF CheckHeartjump
  <2> HIDE DEF authenticated
  <2>2. QED
    BY <2>1, LookStep
<1>3. CASE SendHeartjump
  <2>1. Shape'
    BY <1>3 DEF SendHeartjump, CloseInv, Shape, handlerVars, sendVars
  <2>2. Alive' \subseteq Alive
    BY <1>3, <1>alive DEF SendHeartjump, CloseInv, Shape, Alive, handlerVars, sendVars
  <2>3. QED
    BY <1>3, <2>1, <2>2, QuietStep DEF SendHeartjump, CloseInv, handlerVars
<1>4. ASSUME NEW h \in Handlers, NEW pk \in Packages, SendData(h, pk)
      PROVE  CloseInv'
  BY <1>4, <1>alive, QueueStep DEF SendData, handlerVars
<1>5. ASSUME NEW h \in Handlers, Accept(h)
      PROVE  CloseInv'
  BY <1>5, AcceptStep
<1>6. ASSUME NEW h \in Handlers, SendClose(h)
      PROVE  CloseInv'
  BY <1>6, <1>alive, QueueStep DEF SendClose, handlerVars, sendVars
<1>7. ASSUME NEW h \in Handlers, CloseSocket(h)
      PROVE  CloseInv'
  <2>1. Shape' /\ Alive' \subseteq Alive
    BY <1>7 DEF CloseSocket, CloseInv, Shape, Alive, sendVars
  <2>2. \A g \in Handlers : socket_[g] = "closed" => socket_'[g] = "closed"
    BY <1>7 DEF CloseSocket, CloseInv, Shape
  <2>3. QED
    BY <1>7, <2>1, <2>2, QuietStep DEF CloseSocket, CloseInv
<1>8. ASSUME NEW h \in Handlers, RunTask(h)
      PROVE  CloseInv'
  <2>1. \A task : Run(h, task) => h \in Alive
    BY DEF Run, Alive
  <2>2. CASE ActiveClose(h) /\ is_valid_[h]
    <3>1. h \in Alive /\ CloseNow(h)
      <4>1. CloseNow(h)
        BY <2>2, Zenon DEF ActiveClose
      <4>2. QED
        BY <2>1, <2>2, <4>1 DEF ActiveClose
    <3>2. Shape'
      <4>1. socket_' \in [Handlers -> {"open", "closed"}]
        BY <3>1 DEF CloseNow, CloseInv, Shape
      <4>2. UNCHANGED <<reading, writing>>
        BY <2>2 DEF ActiveClose, sendVars
      <4>3. posted' = [g \in Handlers |-> posted'[g]]
        BY <2>2 DEF ActiveClose, Run, CloseInv, Shape
      <4>4. CloseCompleted(h)
        BY <3>1 DEF CloseNow
      <4>5. QED
        BY <4>1, <4>2, <4>3, <4>4, CloseCompletedShape DEF CloseInv, Shape
    <3>3. Alive' \subseteq Alive
      BY <2>2, <3>1 DEF ActiveClose, Run, CloseInv, Shape, Alive, sendVars
    <3>4. \A g \in Handlers \ {h} : reading'[g] = reading[g] /\ socket_'[g] = socket_[g]
      BY <2>2, <3>1 DEF ActiveClose, CloseNow, CloseInv, Shape
    <3>5. socket_'[h] = "closed"
      BY <3>1 DEF CloseNow, CloseInv, Shape
    <3>6. h \in sets_
      BY <2>2, <3>1 DEF CloseInv
    <3>7. CloseCompleted(h)
      BY <3>1 DEF CloseNow
    <3>8. QED
      BY <3>2, <3>3, <3>4, <3>5, <3>6, <3>7, ReportStep
  <2>3. CASE ActiveClose(h) /\ ~is_valid_[h]
    BY <2>1, <2>3, QueueStep DEF ActiveClose, Run, sendVars
  <2>4. CASE ActiveSendHeartjump(h)
    BY <2>1, <2>4, QueueStep DEF ActiveSendHeartjump, Run, sendVars
  <2>5. ASSUME NEW pk \in Packages, ActiveSendData(h, pk)
        PROVE  CloseInv'
    BY <2>1, <2>5, QueueStep DEF ActiveSendData, Run
  <2>6. ASSUME NEW pk \in Packages, ActiveSendDropped(h, pk)
        PROVE  CloseInv'
    BY <2>1, <2>6, QueueStep DEF ActiveSendDropped, Run
  <2>7. QED
    BY <1>8, <2>2, <2>3, <2>4, <2>5, <2>6 DEF RunTask
<1>9. ASSUME NEW h \in Handlers, ReadHeader(h) \/ ReadFull(h)
      PROVE  CloseInv'
  <2>1. Shape' /\ Alive' \subseteq Alive
    BY <1>9 DEF ReadHeader, ReadFull, CloseInv, Shape, Alive, sendVars
  <2>2. \A g \in sets_ : reading'[g] # "none"
    BY <1>9 DEF ReadHeader, ReadFull, CloseInv, Shape
  <2>3. QED
    BY <1>9, <2>1, <2>2, QuietStep DEF ReadHeader, ReadFull
<1>10. ASSUME NEW h \in Handlers, ReadEnds(h)
       PROVE  CloseInv'
  <2>1. h \in sets_ /\ CloseCompleted(h)
    BY <1>10 DEF ReadEnds, Alive, CloseInv
  <2>2. Shape' /\ Alive' \subseteq Alive
    BY <1>10 DEF ReadEnds, CloseCompleted, CloseInv, Shape, Alive, sendVars
  <2>3. /\ \A g \in Handlers \ {h} : reading'[g] = reading[g] /\ socket_'[g] = socket_[g]
        /\ socket_'[h] = "closed"
    BY <1>10 DEF ReadEnds, CloseInv, Shape
  <2>4. QED
    BY <2>1, <2>2, <2>3, ReportStep
<1>11. ASSUME NEW h \in Handlers, ReadCancelled(h)
       PROVE  CloseInv'
  <2>1. h \in Alive /\ socket_[h] = "closed"
    BY <1>11 DEF ReadCancelled, Alive
  <2>2. Shape' /\ Alive' \subseteq Alive
    <3>1. /\ sets_' \subseteq Handlers
          /\ is_valid_' \in [Handlers -> BOOLEAN]
          /\ closes' \in [Handlers -> Nat]
      <4>1. CloseCompleted(h) \/ UNCHANGED <<sets_, is_valid_, closes>>
        BY <1>11, Zenon DEF ReadCancelled
      <4>2. QED
        BY <4>1, CloseCompletedShape DEF CloseInv, Shape
    <3>2. /\ UNCHANGED <<socket_, posted, writing>>
          /\ reading' = [reading EXCEPT ![h] = "none"]
      BY <1>11 DEF ReadCancelled, sendVars
    <3>3. QED
      BY <3>1, <3>2 DEF CloseInv, Shape, Alive
  <2>3. \A g \in Handlers \ {h} : reading'[g] = reading[g]
    BY <1>11 DEF ReadCancelled, CloseInv, Shape
  <2>4. CASE is_valid_[h]
    <3>1. h \in sets_
      BY <2>1, <2>4 DEF CloseInv
    <3>2. CloseCompleted(h) /\ UNCHANGED socket_
      <4>1. CloseCompleted(h)
        BY <1>11, <2>4, Zenon DEF ReadCancelled
      <4>2. QED
        BY <1>11, <4>1 DEF ReadCancelled
    <3>3. \A g \in Handlers \ {h} : reading'[g] = reading[g] /\ socket_'[g] = socket_[g]
      BY <2>3, <3>2
    <3>4. socket_'[h] = "closed"
      BY <2>1, <3>2
    <3>5. QED
      BY <2>2, <3>1, <3>2, <3>3, <3>4, ReportStep
  <2>5. CASE ~is_valid_[h]
    <3>1. h \notin sets_ /\ UNCHANGED <<sets_, is_valid_, closes>>
      BY <1>11, <2>1, <2>5 DEF ReadCancelled, CloseInv
    <3>2. \A g \in sets_ : reading'[g] # "none"
      BY <3>1, <2>3 DEF CloseInv, Shape
    <3>3. QED
      BY <1>11, <2>2, <3>1, <3>2, QuietStep DEF ReadCancelled
  <2>6. QED
    BY <2>4, <2>5
<1>12. ASSUME NEW h \in Handlers, WritePart(h) \/ WriteDone(h)
       PROVE  CloseInv'
  <2>1. h \in Alive
    BY <1>12 DEF WritePart, WriteDone, Alive
  <2>2. QED
    BY <1>12, <2>1, QueueStep DEF WritePart, WriteDone, WriteHandler, handlerVars
<1>13. ASSUME NEW h \in Handlers, WriteFails(h)
       PROVE  CloseInv'
  <2>1. PICK i \in DOMAIN writing[h] : WriteHandler(h, i)
    BY <1>13 DEF WriteFails
  <2>2. h \in Alive
    BY <2>1 DEF Alive
  <2>3. \E w : writing' = [writing EXCEPT ![h] = w]
    BY <2>1 DEF WriteHandler
  <2>4. UNCHANGED <<sets_, is_valid_, socket_, reading, closes, posted>>
    BY <1>13 DEF WriteFails, handlerVars
  <2>5. QED
    BY <2>2, <2>3, <2>4, QueueStep
<1>14. CASE UNCHANGED vars
  <2>1. UNCHANGED <<sets_, is_valid_, socket_, reading, closes, posted, writing>>
    BY <1>14 DEF vars, handlerVars, sendVars
  <2>2. QED
    BY <2>1 DEF CloseInv, Shape, Alive
<1>15. QED
  BY <1>1, <1>2, <1>3, <1>4, <1>5, <1>6, <1>7, <1>8, <1>9, <1>10, <1>11, <1>12,
     <1>13, <1>14 DEF Next, ReadStep

LEMMA CloseInvariant == SafeSpec => []CloseInv
BY CloseInvInit, CloseInvStep, PTL DEF SafeSpec

-----------------------------------------------------------------------------
\* The raw pointers in the manager are good, for any number of connections:
\* send_data_in_thread and the others take a shared_ptr of a living handler.
THEOREM ManagerPointersAreGood == SafeSpec => []NoDanglingHandler
<1>1. CloseInv => NoDanglingHandler
  BY DEF CloseInv, NoDanglingHandler
<1>2. QED
  BY <1>1, CloseInvariant, PTL

\* close_complete_func is called once for every connection, and the manager
\* forgets it then, whoever else closes it.
THEOREM EndIsReportedOnce == SafeSpec => []ClosedOnce
<1>1. CloseInv => ClosedOnce
  BY DEF CloseInv, ClosedOnce, Alive, Referenced
<1>2. QED
  BY <1>1, CloseInvariant, PTL

\* The socket of a connection that was reported as closed is closed.
THEOREM ReportedSocketIsClosed == SafeSpec => []ClosedSocket
<1>1. CloseInv => ClosedSocket
  BY DEF CloseInv, ClosedSocket
<1>2. QED
  BY <1>1, CloseInvariant, PTL

-----------------------------------------------------------------------------
(* What the operations on a queue do to the buffers in it *)

Holds(q, pk) == \E i \in 1..Len(q) : q[i] = pk

LEMMA AppendHolds ==
    ASSUME NEW S, NEW q \in Seq(S), NEW e \in S
    PROVE  /\ Append(q, e) \in Seq(S)
           /\ \A x : Holds(Append(q, e), x) <=> Holds(q, x) \/ x = e
           /\ OnceEach(q) /\ (e \in Packages => ~Holds(q, e)) => OnceEach(Append(q, e))
<1> DEFINE r == Append(q, e)
<1>1. /\ r \in Seq(S) /\ Len(r) = Len(q) + 1
      /\ \A i \in 1..Len(q) : r[i] = q[i]
      /\ r[Len(q) + 1] = e
  BY AppendProperties
<1> HIDE DEF r
<1>2. Len(q) \in Nat /\ DOMAIN q = 1..Len(q) /\ DOMAIN r = 1..Len(r)
  BY <1>1
<1>3. \A i \in 1..Len(r) : i \in 1..Len(q) \/ i = Len(q) + 1
  BY <1>1, <1>2
<1>4. \A i \in 1..Len(q) : i \in 1..Len(r)
  BY <1>1, <1>2
<1>5. Len(q) + 1 \in 1..Len(r)
  BY <1>1, <1>2
<1>6. \A x : Holds(r, x) <=> Holds(q, x) \/ x = e
  BY <1>1, <1>3, <1>4, <1>5 DEF Holds
<1>7. ASSUME OnceEach(q), e \in Packages => ~Holds(q, e)
      PROVE  OnceEach(r)
  BY <1>1, <1>2, <1>3, <1>7 DEF OnceEach, Holds
<1>8. QED
  BY <1>1, <1>6, <1>7 DEF r

LEMMA TailHolds ==
    ASSUME NEW S, NEW q \in Seq(S), q # <<>>
    PROVE  /\ Tail(q) \in Seq(S) /\ Head(q) \in S
           /\ \A x : Holds(q, x) <=> Holds(Tail(q), x) \/ x = Head(q)
           /\ OnceEach(q) => OnceEach(Tail(q))
           /\ OnceEach(q) /\ Head(q) \in Packages => ~Holds(Tail(q), Head(q))
<1> DEFINE r == Tail(q)
<1>1. /\ r \in Seq(S) /\ Len(r) = Len(q) - 1 /\ Head(q) \in S
      /\ \A i \in 1..Len(r) : r[i] = q[i + 1]
  BY HeadTailProperties
<1> HIDE DEF r
<1>2. /\ Len(q) \in Nat \ {0} /\ Head(q) = q[1] /\ 1 \in 1..Len(q)
      /\ DOMAIN q = 1..Len(q) /\ DOMAIN r = 1..Len(r)
  BY <1>1, EmptySeq
<1>3. \A i \in 1..Len(r) : i + 1 \in 1..Len(q) /\ i + 1 # 1 /\ i \in Int
  BY <1>1, <1>2
<1>4. \A i \in 1..Len(q) : i = 1 \/ (i - 1 \in 1..Len(r) /\ (i - 1) + 1 = i)
  BY <1>1, <1>2
<1>5. \A x : Holds(q, x) <=> Holds(r, x) \/ x = Head(q)
  <2>1. \A x : Holds(r, x) \/ x = Head(q) => Holds(q, x)
    BY <1>1, <1>2, <1>3 DEF Holds
  <2>2. ASSUME NEW i \in 1..Len(q)
        PROVE  Holds(r, q[i]) \/ q[i] = Head(q)
    <3>1. CASE i = 1
      BY <1>2, <3>1
    <3>2. CASE i # 1
      <4>1. i - 1 \in 1..Len(r) /\ (i - 1) + 1 = i
        BY <1>4, <3>2
      <4>2. r[i - 1] = q[i]
        BY <1>1, <4>1
      <4>3. QED
        BY <4>1, <4>2 DEF Holds
    <3>3. QED
      BY <3>1, <3>2
  <2>3. QED
    BY <2>1, <2>2 DEF Holds
<1>6. ASSUME OnceEach(q)
      PROVE  OnceEach(r)
  <2> SUFFICES ASSUME NEW i \in 1..Len(r), NEW j \in 1..Len(r),
                      r[i] \in Packages, r[i] = r[j]
               PROVE  i = j
    BY <1>2 DEF OnceEach
  <2>1. i + 1 = j + 1
    BY <1>1, <1>2, <1>3, <1>6 DEF OnceEach
  <2>2. QED
    BY <1>3, <2>1
<1>7. ASSUME OnceEach(q), Head(q) \in Packages
      PROVE  ~Holds(r, Head(q))
  BY <1>1, <1>2, <1>3, <1>7 DEF OnceEach, Holds
<1>8. QED
  BY <1>1, <1>5, <1>6, <1>7 DEF r

LEMMA RemoveAtHolds ==
    ASSUME NEW S, NEW q \in Seq(S), NEW k \in 1..Len(q)
    PROVE  /\ RemoveAt(q, k) \in Seq(S)
           /\ OnceEach(q) => OnceEach(RemoveAt(q, k))
           /\ OnceEach(q) /\ S \subseteq Packages =>
                \A x : Holds(RemoveAt(q, k), x) <=> Holds(q, x) /\ x # q[k]
<1> DEFINE a == SubSeq(q, 1, k - 1)
           b == SubSeq(q, k + 1, Len(q))
           r == a \o b
<1>1. Len(q) \in Nat /\ k \in Nat \ {0} /\ k \in Int /\ k <= Len(q) /\ DOMAIN q = 1..Len(q)
      /\ \A i \in 1..Len(q) : q[i] \in S
  BY ElementOfSeq
<1>2. /\ a \in Seq(S) /\ Len(a) = k - 1
      /\ \A i \in 1..(k - 1) : a[i] = q[i]
  <2>1. \A i \in 1..(k - 1) : q[i] \in S /\ 1 + i - 1 = i
    BY <1>1
  <2>2. /\ a \in Seq(S)
        /\ Len(a) = IF 1 <= k - 1 THEN (k - 1) - 1 + 1 ELSE 0
        /\ \A i \in 1..((k - 1) - 1 + 1) : a[i] = q[1 + i - 1]
    BY <1>1, <2>1, SubSeqProperties
  <2>3. (k - 1) - 1 + 1 = k - 1 /\ (~(1 <= k - 1) => k - 1 = 0)
    BY <1>1
  <2>4. QED
    BY <2>1, <2>2, <2>3
<1>3. /\ b \in Seq(S) /\ Len(b) = Len(q) - k
      /\ \A i \in 1..(Len(q) - k) : b[i] = q[k + i]
  <2>1. \A i \in (k + 1)..Len(q) : q[i] \in S
    BY <1>1
  <2>2. \A i \in 1..(Len(q) - k) : (k + 1) + i - 1 = k + i
    BY <1>1
  <2>3. /\ b \in Seq(S)
        /\ Len(b) = IF k + 1 <= Len(q) THEN Len(q) - (k + 1) + 1 ELSE 0
        /\ \A i \in 1..(Len(q) - (k + 1) + 1) : b[i] = q[(k + 1) + i - 1]
    BY <1>1, <2>1, SubSeqProperties
  <2>4. Len(q) - (k + 1) + 1 = Len(q) - k /\ (~(k + 1 <= Len(q)) => Len(q) - k = 0)
    <3>1. \A m \in Nat, n \in Nat : n <= m =>
            m - (n + 1) + 1 = m - n /\ (~(n + 1 <= m) => m - n = 0)
      OBVIOUS
    <3>2. Len(q) \in Nat /\ k \in Nat /\ k <= Len(q)
      BY <1>1
    <3>3. QED
      BY <3>1, <3>2
  <2>5. Len(b) = Len(q) - k
    BY <2>3, <2>4
  <2>6. ASSUME NEW i \in 1..(Len(q) - k)
        PROVE  b[i] = q[k + i]
    <3>1. i \in 1..(Len(q) - (k + 1) + 1)
      BY <2>4
    <3>2. b[i] = q[(k + 1) + i - 1]
      BY <2>3, <3>1
    <3>3. QED
      BY <2>2, <3>2
  <2>7. QED
    BY <2>3, <2>5, <2>6
<1> HIDE DEF a, b
<1>4. /\ r \in Seq(S) /\ Len(r) = Len(q) - 1
      /\ \A i \in 1..(Len(q) - 1) : r[i] = IF i < k THEN q[i] ELSE q[i + 1]
  <2>1. /\ r \in Seq(S) /\ Len(r) = Len(a) + Len(b)
        /\ \A i \in 1..(Len(a) + Len(b)) : r[i] = IF i <= Len(a) THEN a[i] ELSE b[i - Len(a)]
    BY <1>2, <1>3, ConcatProperties
  <2>2. Len(a) + Len(b) = Len(q) - 1
    BY <1>1, <1>2, <1>3
  <2>3. ASSUME NEW i \in 1..(Len(q) - 1)
        PROVE  r[i] = IF i < k THEN q[i] ELSE q[i + 1]
    <3>1. CASE i < k
      <4>1. i \in 1..(k - 1) /\ i <= Len(a)
        BY <1>1, <1>2, <2>3, <3>1
      <4>2. QED
        BY <1>2, <2>1, <2>2, <3>1, <4>1
    <3>2. CASE ~(i < k)
      <4>1. /\ ~(i <= Len(a)) /\ i - Len(a) \in 1..(Len(q) - k)
            /\ k + (i - Len(a)) = i + 1
        BY <1>1, <1>2, <2>3, <3>2
      <4>2. QED
        BY <1>3, <2>1, <2>2, <3>2, <4>1
    <3>3. QED
      BY <3>1, <3>2
  <2>4. QED
    BY <2>1, <2>2, <2>3
<1>5. r = RemoveAt(q, k)
  BY DEF a, b, RemoveAt
<1> HIDE DEF r
<1>6. DOMAIN r = 1..Len(r)
  BY <1>4
\* Where an entry of r stands in q, and back.
<1> DEFINE at(i) == IF i < k THEN i ELSE i + 1
<1>7. \A i \in 1..Len(r) : /\ at(i) \in 1..Len(q) /\ at(i) # k /\ r[i] = q[at(i)]
                           /\ \A j \in 1..Len(r) : at(i) = at(j) => i = j
  <2> SUFFICES ASSUME NEW i \in 1..Len(r)
               PROVE  /\ at(i) \in 1..Len(q) /\ at(i) # k /\ r[i] = q[at(i)]
                      /\ \A j \in 1..Len(r) : at(i) = at(j) => i = j
    OBVIOUS
  <2>1. r[i] = q[at(i)]
    BY <1>4
  <2>2. at(i) \in 1..Len(q) /\ at(i) # k /\ \A j \in 1..Len(r) : at(i) = at(j) => i = j
    BY <1>1, <1>4
  <2>3. QED
    BY <2>1, <2>2
<1>8. ASSUME NEW i \in 1..Len(q), i # k
      PROVE  \E j \in 1..Len(r) : at(j) = i
  <2>1. CASE i < k
    BY <1>1, <1>4, <1>8, <2>1
  <2>2. CASE ~(i < k)
    <3>1. i - 1 \in 1..Len(r) /\ ~(i - 1 < k) /\ (i - 1) + 1 = i
      BY <1>1, <1>4, <1>8, <2>2
    <3>2. QED
      BY <3>1
  <2>3. QED
    BY <2>1, <2>2
<1> HIDE DEF at
<1>9. OnceEach(q) => OnceEach(r)
  BY <1>1, <1>6, <1>7 DEF OnceEach
<1>10. ASSUME OnceEach(q), S \subseteq Packages, NEW x
       PROVE  Holds(r, x) <=> Holds(q, x) /\ x # q[k]
  <2>1. \A i \in 1..Len(q) : q[i] = q[k] => i = k
    BY <1>1, <1>10 DEF OnceEach
  <2>2. Holds(r, x) => Holds(q, x) /\ x # q[k]
    BY <1>7, <2>1 DEF Holds
  <2>3. Holds(q, x) /\ x # q[k] => Holds(r, x)
    BY <1>7, <1>8 DEF Holds
  <2>4. QED
    BY <2>2, <2>3
<1>11. QED
  BY <1>4, <1>5, <1>9, <1>10

-----------------------------------------------------------------------------
(* Types *)

LEMMA TaskFacts == /\ Packages \subseteq Tasks /\ "close" \in Tasks /\ "heartjump" \in Tasks
                   /\ "close" \notin Packages /\ "heartjump" \notin Packages
BY TcpServerAssumption DEF Tasks

LEMMA TypeInit == Init => TypeOK
<1> SUFFICES ASSUME Init PROVE TypeOK
  OBVIOUS
<1>1. <<>> \in Seq(Tasks) /\ <<>> \in Seq(Packages)
  BY EmptySeq
<1>2. posted \in [Handlers -> Seq(Tasks)] /\ writing \in [Handlers -> Seq(Packages)]
  BY <1>1 DEF Init
<1>3. QED
  BY <1>2 DEF Init, TypeOK

LEMMA HookCallsType ==
    ASSUME TypeOK, NEW h \in Handlers, HookCalls(h)
    PROVE  /\ is_authentication_pass_' \in [Handlers -> BOOLEAN]
           /\ heard' \in [Handlers -> {"fresh", "stale"}]
<1>1. heard' \in [Handlers -> {"fresh", "stale"}]
  BY DEF TypeOK, HookCalls
<1>2. is_authentication_pass_' \in [Handlers -> BOOLEAN]
  BY DEF TypeOK, HookCalls
<1>3. QED
  BY <1>1, <1>2

LEMMA HookIfValidType ==
    ASSUME TypeOK, NEW h \in Handlers, HookIfValid(h)
    PROVE  /\ is_authentication_pass_' \in [Handlers -> BOOLEAN]
           /\ heard' \in [Handlers -> {"fresh", "stale"}]
<1>1. HookCalls(h) \/ UNCHANGED <<is_authentication_pass_, heard>>
  BY Zenon DEF HookIfValid
<1>2. QED
  BY <1>1, HookCallsType DEF TypeOK

\* A handler is reported once, so that the history counts no further than 1.
LEMMA CloseCompletedType ==
    ASSUME TypeOK, CloseInv, NEW g \in Alive, is_valid_[g], CloseCompleted(g)
    PROVE  /\ sets_' \subseteq Handlers
           /\ is_valid_' \in [Handlers -> BOOLEAN]
           /\ closes' \in [Handlers -> 0..1]
<1>1. g \in Handlers /\ closes[g] = 0
  BY DEF Alive, CloseInv
<1>2. closes[g] + 1 \in 0..1
  BY <1>1
<1>3. closes' \in [Handlers -> 0..1]
  BY <1>2 DEF CloseCompleted, TypeOK
<1>4. sets_' \subseteq Handlers /\ is_valid_' \in [Handlers -> BOOLEAN]
  BY DEF CloseCompleted, TypeOK
<1>5. QED
  BY <1>3, <1>4

LEMMA RunType ==
    ASSUME TypeOK, NEW h \in Handlers, NEW task, Run(h, task)
    PROVE  posted' \in [Handlers -> Seq(Tasks)]
<1>1. posted[h] \in Seq(Tasks) /\ posted[h] # <<>>
  BY DEF TypeOK, Run
<1>2. Tail(posted[h]) \in Seq(Tasks)
  BY <1>1, TailHolds
<1>3. QED
  BY <1>2 DEF Run, TypeOK

LEMMA PostType ==
    ASSUME TypeOK, NEW S, NEW task \in Tasks
    PROVE  [h \in Handlers |-> IF h \in S THEN Append(posted[h], task) ELSE posted[h]]
             \in [Handlers -> Seq(Tasks)]
<1>1. \A h \in Handlers : posted[h] \in Seq(Tasks) /\ Append(posted[h], task) \in Seq(Tasks)
  BY AppendHolds DEF TypeOK
<1>2. QED
  BY <1>1

LEMMA WriteHandlerType ==
    ASSUME TypeOK, NEW h \in Handlers, NEW i \in 1..Len(writing[h]), WriteHandler(h, i)
    PROVE  /\ writing' \in [Handlers -> Seq(Packages)]
           /\ part' \in [Handlers -> SUBSET Packages]
           /\ heap' \subseteq Packages
<1>1. RemoveAt(writing[h], i) \in Seq(Packages)
  BY RemoveAtHolds DEF TypeOK
<1>2. writing' \in [Handlers -> Seq(Packages)]
  BY <1>1 DEF WriteHandler, TypeOK
<1>3. part' \in [Handlers -> SUBSET Packages]
  BY DEF WriteHandler, TypeOK
<1>4. heap' \subseteq Packages
  BY DEF WriteHandler, TypeOK
<1>5. QED
  BY <1>2, <1>3, <1>4

\* A write that ends is one of those in progress.
LEMMA AWriteEnds ==
    ASSUME TypeOK, NEW h \in Handlers, WriteDone(h) \/ WriteFails(h)
    PROVE  \E i \in 1..Len(writing[h]) : WriteHandler(h, i)
<1>1. CASE WriteDone(h)
  <2>1. Len(writing[h]) \in Nat \ {0}
    BY <1>1, EmptySeq DEF WriteDone, TypeOK
  <2>2. QED
    BY <1>1, <2>1 DEF WriteDone
<1>2. CASE WriteFails(h)
  <2>1. DOMAIN writing[h] = 1..Len(writing[h])
    BY DEF TypeOK
  <2>2. QED
    BY <1>2, <2>1 DEF WriteFails
<1>3. QED
  BY <1>1, <1>2

LEMMA TypeLook ==
    ASSUME TypeOK, NEW S, LookAt(S)
    PROVE  TypeOK'
<1>1. PICK T : PostClose(T)
  <2>1. PICK late \in SUBSET {h \in S : heard[h] = "fresh"} :
            PostClose(late \cup {h \in S : heard[h] = "stale"})
    BY DEF LookAt
  <2>2. QED
    BY <2>1
<1>2. posted' \in [Handlers -> Seq(Tasks)]
  <2> DEFINE U == {h \in T : Len(posted[h]) < MaxPosted}
  <2>1. posted' = [h \in Handlers |-> IF h \in U THEN Append(posted[h], "close")
                                      ELSE posted[h]]
    BY <1>1 DEF PostClose
  <2> HIDE DEF U
  <2>2. QED
    BY <2>1, PostType, TaskFacts
<1>3. heard' \in [Handlers -> {"fresh", "stale"}]
  BY DEF LookAt, TypeOK
<1>4. QED
  BY <1>2, <1>3 DEF LookAt, TypeOK, sendVars

LEMMA TypeStep == TypeOK /\ CloseInv /\ [Next]_vars => TypeOK'
<1> SUFFICES ASSUME TypeOK, CloseInv, [Next]_vars PROVE TypeOK'
  OBVIOUS
<1>1. CASE CheckAuthentication
  BY <1>1, TypeLook DEF CheckAuthentication
<1>2. CASE CheckHeartjump
  BY <1>2, TypeLook DEF CheckHeartjump
<1>3. CASE SendHeartjump
  <2>1. posted' \in [Handlers -> Seq(Tasks)]
    BY <1>3, PostType, TaskFacts DEF SendHeartjump
  <2>2. QED
    BY <1>3, <2>1 DEF SendHeartjump, TypeOK, handlerVars, sendVars
<1>4. ASSUME NEW h \in Handlers, NEW pk \in Packages, SendData(h, pk)
      PROVE  TypeOK'
  <2>1. Append(posted[h], pk) \in Seq(Tasks)
    BY AppendHolds, TaskFacts DEF TypeOK
  <2>2. posted' \in [Handlers -> Seq(Tasks)]
    BY <1>4, <2>1 DEF SendData, TypeOK
  <2>3. QED
    BY <1>4, <2>2 DEF SendData, TypeOK, handlerVars
<1>5. ASSUME NEW h \in Handlers, Accept(h)
      PROVE  TypeOK'
  <2>1. /\ is_valid_' \in [Handlers -> BOOLEAN]
        /\ is_authentication_pass_' \in [Handlers -> BOOLEAN]
        /\ closes' \in [Handlers -> 0..1]
    BY <1>5 DEF Accept, TypeOK
  <2>2. /\ heard' \in [Handlers -> {"fresh", "stale"}]
        /\ socket_' \in [Handlers -> {"open", "closed"}]
        /\ reading' \in [Handlers -> {"none", "header", "empty", "body"}]
    BY <1>5 DEF Accept, TypeOK
  <2>3. QED
    BY <1>5, <2>1, <2>2 DEF Accept, TypeOK, sendVars
<1>6. ASSUME NEW h \in Handlers, SendClose(h)
      PROVE  TypeOK'
  <2>1. Append(posted[h], "close") \in Seq(Tasks)
    BY AppendHolds, TaskFacts DEF TypeOK
  <2>2. posted' \in [Handlers -> Seq(Tasks)]
    BY <1>6, <2>1 DEF SendClose, TypeOK
  <2>3. QED
    BY <1>6, <2>2 DEF SendClose, TypeOK, handlerVars, sendVars
<1>7. ASSUME NEW h \in Handlers, CloseSocket(h)
      PROVE  TypeOK'
  <2>1. socket_' \in [Handlers -> {"open", "closed"}]
    BY <1>7 DEF CloseSocket, TypeOK
  <2>2. QED
    BY <1>7, <2>1 DEF CloseSocket, TypeOK, sendVars
<1>8. ASSUME NEW h \in Handlers, RunTask(h)
      PROVE  TypeOK'
  <2>1. \A task : Run(h, task) => posted' \in [Handlers -> Seq(Tasks)]
    BY RunType
  <2>2. CASE ActiveClose(h)
    <3>1. /\ sets_' \subseteq Handlers
          /\ is_valid_' \in [Handlers -> BOOLEAN]
          /\ closes' \in [Handlers -> 0..1]
          /\ socket_' \in [Handlers -> {"open", "closed"}]
      <4>1. CASE is_valid_[h]
        <5>1. CloseNow(h)
          BY <2>2, <4>1, Zenon DEF ActiveClose
        <5>2. h \in Alive
          BY <2>2 DEF ActiveClose, Run, Alive
        <5>3. CloseCompleted(h) /\ socket_' \in [Handlers -> {"open", "closed"}]
          BY <5>1 DEF CloseNow, TypeOK
        <5>4. QED
          BY <4>1, <5>2, <5>3, CloseCompletedType
      <4>2. CASE ~is_valid_[h]
        <5>1. UNCHANGED <<sets_, is_valid_, socket_, closes>>
          BY <2>2, <4>2, Zenon DEF ActiveClose
        <5>2. QED
          BY <5>1 DEF TypeOK
      <4>3. QED
        BY <4>1, <4>2
    <3>2. UNCHANGED <<is_authentication_pass_, heard, reading, writing, part, heap>>
      BY <2>2 DEF ActiveClose, sendVars
    <3>3. posted' \in [Handlers -> Seq(Tasks)]
      BY <2>1, <2>2 DEF ActiveClose
    <3>4. QED
      BY <3>1, <3>2, <3>3 DEF TypeOK
  <2>3. CASE ActiveSendHeartjump(h)
    <3>1. /\ is_authentication_pass_' \in [Handlers -> BOOLEAN]
          /\ heard' \in [Handlers -> {"fresh", "stale"}]
      BY <2>3, HookIfValidType DEF ActiveSendHeartjump
    <3>2. posted' \in [Handlers -> Seq(Tasks)]
      BY <2>1, <2>3 DEF ActiveSendHeartjump
    <3>3. UNCHANGED <<sets_, is_valid_, socket_, reading, closes, writing, part, heap>>
      BY <2>3 DEF ActiveSendHeartjump, sendVars
    <3>4. QED
      BY <3>1, <3>2, <3>3 DEF TypeOK
  <2>4. ASSUME NEW pk \in Packages, ActiveSendData(h, pk)
        PROVE  TypeOK'
    <3>1. /\ is_authentication_pass_' \in [Handlers -> BOOLEAN]
          /\ heard' \in [Handlers -> {"fresh", "stale"}]
      BY <2>4, HookCallsType DEF ActiveSendData
    <3>2. posted' \in [Handlers -> Seq(Tasks)]
      BY <2>1, <2>4 DEF ActiveSendData
    <3>3. writing' \in [Handlers -> Seq(Packages)]
      <4>1. Append(writing[h], pk) \in Seq(Packages)
        BY AppendHolds DEF TypeOK
      <4>2. QED
        BY <2>4, <4>1 DEF ActiveSendData, TypeOK
    <3>4. UNCHANGED <<sets_, is_valid_, socket_, reading, closes, part, heap>>
      BY <2>4 DEF ActiveSendData
    <3>5. QED
      BY <3>1, <3>2, <3>3, <3>4 DEF TypeOK
  <2>5. ASSUME NEW pk \in Packages, ActiveSendDropped(h, pk)
        PROVE  TypeOK'
    <3>1. /\ is_authentication_pass_' \in [Handlers -> BOOLEAN]
          /\ heard' \in [Handlers -> {"fresh", "stale"}]
      BY <2>5, HookIfValidType DEF ActiveSendDropped
    <3>2. posted' \in [Handlers -> Seq(Tasks)]
      BY <2>1, <2>5 DEF ActiveSendDropped
    <3>3. heap' \subseteq Packages
      BY <2>5 DEF ActiveSendDropped, TypeOK
    <3>4. UNCHANGED <<sets_, is_valid_, socket_, reading, closes, writing, part>>
      BY <2>5 DEF ActiveSendDropped
    <3>5. QED
      BY <3>1, <3>2, <3>3, <3>4 DEF TypeOK
  <2>6. QED
    BY <1>8, <2>2, <2>3, <2>4, <2>5 DEF RunTask
<1>9. ASSUME NEW h \in Handlers, ReadHeader(h) \/ ReadFull(h)
      PROVE  TypeOK'
  <2>1. /\ is_authentication_pass_' \in [Handlers -> BOOLEAN]
        /\ heard' \in [Handlers -> {"fresh", "stale"}]
    BY <1>9, HookCallsType DEF ReadHeader, ReadFull, TypeOK
  <2>2. reading' \in [Handlers -> {"none", "header", "empty", "body"}]
    BY <1>9 DEF ReadHeader, ReadFull, TypeOK
  <2>3. UNCHANGED <<sets_, is_valid_, socket_, closes, posted, writing, part, heap>>
    BY <1>9 DEF ReadHeader, ReadFull, sendVars
  <2>4. QED
    BY <2>1, <2>2, <2>3 DEF TypeOK
<1>10. ASSUME NEW h \in Handlers, ReadEnds(h) \/ ReadCancelled(h)
       PROVE  TypeOK'
  <2>1. h \in Alive
    BY <1>10 DEF ReadEnds, ReadCancelled, Alive
  <2>2. \/ is_valid_[h] /\ CloseCompleted(h)
        \/ UNCHANGED <<sets_, is_valid_, closes>>
    <3>1. CASE ReadEnds(h)
      BY <3>1 DEF ReadEnds
    <3>2. CASE ReadCancelled(h)
      BY <3>2, Zenon DEF ReadCancelled
    <3>3. QED
      BY <1>10, <3>1, <3>2
  <2>3. /\ sets_' \subseteq Handlers
        /\ is_valid_' \in [Handlers -> BOOLEAN]
        /\ closes' \in [Handlers -> 0..1]
    <3>1. CASE is_valid_[h] /\ CloseCompleted(h)
      BY <2>1, <3>1, CloseCompletedType
    <3>2. CASE UNCHANGED <<sets_, is_valid_, closes>>
      BY <3>2 DEF TypeOK
    <3>3. QED
      BY <2>2, <3>1, <3>2
  <2>4. /\ reading' \in [Handlers -> {"none", "header", "empty", "body"}]
        /\ socket_' \in [Handlers -> {"open", "closed"}]
    BY <1>10 DEF ReadEnds, ReadCancelled, TypeOK
  <2>5. UNCHANGED <<is_authentication_pass_, heard, posted, writing, part, heap>>
    BY <1>10 DEF ReadEnds, ReadCancelled, sendVars
  <2>6. QED
    BY <2>3, <2>4, <2>5 DEF TypeOK
<1>11. ASSUME NEW h \in Handlers, WritePart(h)
       PROVE  TypeOK'
  <2>1. writing[h] \in Seq(Packages) /\ writing[h] # <<>>
    BY <1>11 DEF WritePart, TypeOK
  <2>2. Tail(writing[h]) \in Seq(Packages) /\ Head(writing[h]) \in Packages
    BY <2>1, TailHolds
  <2>3. Append(Tail(writing[h]), Head(writing[h])) \in Seq(Packages)
    BY <2>2, AppendHolds
  <2>4. writing' \in [Handlers -> Seq(Packages)]
    BY <1>11, <2>3 DEF WritePart, TypeOK
  <2>5. part' \in [Handlers -> SUBSET Packages]
    BY <1>11, <2>2 DEF WritePart, TypeOK
  <2>6. QED
    BY <1>11, <2>4, <2>5 DEF WritePart, TypeOK, handlerVars
<1>12. ASSUME NEW h \in Handlers, WriteDone(h) \/ WriteFails(h)
       PROVE  TypeOK'
  <2>1. PICK i \in 1..Len(writing[h]) : WriteHandler(h, i)
    BY <1>12, AWriteEnds
  <2>2. UNCHANGED <<sets_, is_valid_, is_authentication_pass_, heard, socket_, reading,
                    closes, posted>>
    BY <1>12 DEF WriteDone, WriteFails, handlerVars
  <2>3. QED
    BY <2>1, <2>2, WriteHandlerType DEF TypeOK
<1>13. CASE UNCHANGED vars
  BY <1>13 DEF vars, handlerVars, sendVars, TypeOK
<1>14. QED
  BY <1>1, <1>2, <1>3, <1>4, <1>5, <1>6, <1>7, <1>8, <1>9, <1>10, <1>11, <1>12,
     <1>13 DEF Next, ReadStep

\* Every variable has its type: in particular no connection is ever reported twice,
\* whether or not its handler still exists.
THEOREM TypeCorrect == SafeSpec => []TypeOK
<1>1. CloseInv /\ [Next]_vars => CloseInv'
  BY CloseInvStep
<1>2. QED
  BY <1>1, TypeInit, TypeStep, CloseInvInit, PTL DEF SafeSpec

-----------------------------------------------------------------------------
(* Send buffers *)

\* A buffer that is posted is allocated, posted to this handler alone and not
\* being written; one that is being written is written for one handler alone; one
\* that is allocated is posted or being written.
BufferInv ==
    /\ \A h \in Handlers : OnceEach(posted[h]) /\ OnceEach(writing[h])
    /\ \A pk \in Packages, h \in Handlers :
         /\ Holds(posted[h], pk) =>
              /\ pk \in heap
              /\ \A g \in Handlers : /\ ~Holds(writing[g], pk)
                                     /\ Holds(posted[g], pk) => g = h
         /\ Holds(writing[h], pk) =>
              /\ pk \in heap
              /\ \A g \in Handlers : Holds(writing[g], pk) => g = h
    /\ \A pk \in heap : \E h \in Handlers : Holds(posted[h], pk) \/ Holds(writing[h], pk)

LEMMA BufferInit == Init => BufferInv
<1> SUFFICES ASSUME Init PROVE BufferInv
  OBVIOUS
<1>1. OnceEach(<<>>) /\ \A pk : ~Holds(<<>>, pk)
  <2>1. DOMAIN <<>> = {} /\ 1..Len(<<>>) = {}
    OBVIOUS
  <2>2. QED
    BY <2>1 DEF OnceEach, Holds
<1>2. \A h \in Handlers : posted[h] = <<>> /\ writing[h] = <<>>
  BY DEF Init
<1>3. heap = {}
  BY DEF Init
<1>4. QED
  BY <1>1, <1>2, <1>3 DEF BufferInv

\* Every queue keeps the buffers it has, once each.
LEMMA BufferKept ==
    ASSUME BufferInv, UNCHANGED heap,
           \A h \in Handlers :
             /\ OnceEach(posted'[h]) /\ OnceEach(writing'[h])
             /\ \A pk \in Packages : /\ Holds(posted'[h], pk) <=> Holds(posted[h], pk)
                                     /\ Holds(writing'[h], pk) <=> Holds(writing[h], pk),
           heap \subseteq Packages
    PROVE  BufferInv'
BY DEF BufferInv

\* A task that is no buffer is posted to any of the handlers.
LEMMA BufferPost ==
    ASSUME TypeOK, BufferInv, NEW U, NEW task \in {"close", "heartjump"},
           posted' = [h \in Handlers |-> IF h \in U THEN Append(posted[h], task) ELSE posted[h]],
           UNCHANGED <<writing, heap>>
    PROVE  BufferInv'
<1>1. task \in Tasks /\ task \notin Packages
  BY TaskFacts
<1>2. ASSUME NEW h \in Handlers
      PROVE  /\ OnceEach(posted'[h])
             /\ \A pk \in Packages : Holds(posted'[h], pk) <=> Holds(posted[h], pk)
  <2>1. posted[h] \in Seq(Tasks) /\ OnceEach(posted[h])
    BY DEF TypeOK, BufferInv
  <2>2. /\ \A pk : Holds(Append(posted[h], task), pk) <=> Holds(posted[h], pk) \/ pk = task
        /\ OnceEach(Append(posted[h], task))
    BY <1>1, <2>1, AppendHolds
  <2>3. posted'[h] = Append(posted[h], task) \/ posted'[h] = posted[h]
    OBVIOUS
  <2>4. QED
    BY <1>1, <2>1, <2>2, <2>3
<1>3. heap \subseteq Packages /\ \A h \in Handlers : OnceEach(writing[h])
  BY DEF TypeOK, BufferInv
<1>4. QED
  BY <1>2, <1>3, BufferKept

LEMMA BufferLook ==
    ASSUME TypeOK, BufferInv, NEW S, LookAt(S)
    PROVE  BufferInv'
<1>1. PICK T : PostClose(T)
  <2>1. PICK late \in SUBSET {h \in S : heard[h] = "fresh"} :
            PostClose(late \cup {h \in S : heard[h] = "stale"})
    BY DEF LookAt
  <2>2. QED
    BY <2>1
<1> DEFINE U == {h \in T : Len(posted[h]) < MaxPosted}
<1>2. posted' = [h \in Handlers |-> IF h \in U THEN Append(posted[h], "close") ELSE posted[h]]
  BY <1>1 DEF PostClose
<1>3. UNCHANGED <<writing, heap>>
  BY DEF LookAt, sendVars
<1> HIDE DEF U
<1>4. QED
  BY <1>2, <1>3, BufferPost

\* What the run of a task takes from the handler's queue.
LEMMA RunHolds ==
    ASSUME TypeOK, BufferInv, NEW h \in Handlers, NEW task, Run(h, task)
    PROVE  /\ OnceEach(posted'[h])
           /\ \A pk : Holds(posted[h], pk) <=> Holds(posted'[h], pk) \/ pk = task
           /\ task \in Packages => ~Holds(posted'[h], task)
           /\ \A g \in Handlers \ {h} : posted'[g] = posted[g]
<1>1. /\ posted[h] \in Seq(Tasks) /\ posted[h] # <<>> /\ Head(posted[h]) = task
      /\ OnceEach(posted[h]) /\ posted'[h] = Tail(posted[h])
  BY DEF Run, TypeOK, BufferInv
<1>2. \A g \in Handlers \ {h} : posted'[g] = posted[g]
  BY DEF Run, TypeOK
<1>3. QED
  BY <1>1, <1>2, TailHolds

LEMMA BufferRun ==
    ASSUME TypeOK, BufferInv, NEW h \in Handlers, NEW task \in {"close", "heartjump"},
           Run(h, task), UNCHANGED <<writing, heap>>
    PROVE  BufferInv'
<1>1. task \notin Packages
  BY TaskFacts
<1>2. ASSUME NEW g \in Handlers
      PROVE  /\ OnceEach(posted'[g]) /\ OnceEach(writing'[g])
             /\ \A pk \in Packages : /\ Holds(posted'[g], pk) <=> Holds(posted[g], pk)
                                     /\ Holds(writing'[g], pk) <=> Holds(writing[g], pk)
  <2>1. OnceEach(writing[g]) /\ OnceEach(posted[g])
    BY DEF BufferInv
  <2>2. QED
    BY <1>1, <2>1, RunHolds
<1>3. QED
  BY <1>2, BufferKept DEF TypeOK

\* A new buffer: nobody has it, because it was not allocated.
LEMMA BufferNew ==
    ASSUME TypeOK, BufferInv, NEW h \in Handlers, NEW pk \in Packages, SendData(h, pk)
    PROVE  BufferInv'
<1>1. \A g \in Handlers : ~Holds(posted[g], pk) /\ ~Holds(writing[g], pk)
  BY DEF SendData, BufferInv
<1>2. /\ posted[h] \in Seq(Tasks) /\ OnceEach(posted[h])
      /\ posted'[h] = Append(posted[h], pk)
      /\ \A g \in Handlers \ {h} : posted'[g] = posted[g]
      /\ writing' = writing /\ heap' = heap \cup {pk} /\ heap \subseteq Packages
  BY DEF SendData, TypeOK, BufferInv
<1>3. /\ OnceEach(posted'[h])
      /\ \A x : Holds(posted'[h], x) <=> Holds(posted[h], x) \/ x = pk
  BY <1>1, <1>2, AppendHolds, TaskFacts
<1>4. \A g \in Handlers : OnceEach(posted'[g]) /\ OnceEach(writing'[g])
  BY <1>2, <1>3 DEF BufferInv
<1>5. \A x \in Packages, g \in Handlers :
        /\ Holds(posted'[g], x) <=> Holds(posted[g], x) \/ (g = h /\ x = pk)
        /\ Holds(writing'[g], x) <=> Holds(writing[g], x)
  BY <1>2, <1>3
<1>6. \A x \in Packages, g \in Handlers :
        /\ Holds(posted'[g], x) =>
             /\ x \in heap'
             /\ \A f \in Handlers : /\ ~Holds(writing'[f], x)
                                    /\ Holds(posted'[f], x) => f = g
        /\ Holds(writing'[g], x) =>
             /\ x \in heap'
             /\ \A f \in Handlers : Holds(writing'[f], x) => f = g
  BY <1>1, <1>2, <1>5 DEF BufferInv
<1>7. \A x \in heap' : \E g \in Handlers : Holds(posted'[g], x) \/ Holds(writing'[g], x)
  BY <1>2, <1>5 DEF BufferInv
<1>8. QED
  BY <1>4, <1>6, <1>7 DEF BufferInv

\* The posted buffer becomes a write in progress.
LEMMA BufferWritten ==
    ASSUME TypeOK, BufferInv, NEW h \in Handlers, NEW pk \in Packages,
           ActiveSendData(h, pk)
    PROVE  BufferInv'
<1>1. /\ OnceEach(posted'[h])
      /\ \A x : Holds(posted[h], x) <=> Holds(posted'[h], x) \/ x = pk
      /\ ~Holds(posted'[h], pk)
      /\ \A g \in Handlers \ {h} : posted'[g] = posted[g]
  BY RunHolds DEF ActiveSendData
<1>2. \A g \in Handlers : /\ ~Holds(writing[g], pk)
                          /\ Holds(posted[g], pk) => g = h
  BY <1>1 DEF BufferInv
<1>3. /\ writing[h] \in Seq(Packages) /\ OnceEach(writing[h])
      /\ writing'[h] = Append(writing[h], pk)
      /\ \A g \in Handlers \ {h} : writing'[g] = writing[g]
      /\ heap' = heap /\ heap \subseteq Packages
  BY DEF ActiveSendData, TypeOK, BufferInv
<1>4. /\ OnceEach(writing'[h])
      /\ \A x : Holds(writing'[h], x) <=> Holds(writing[h], x) \/ x = pk
  BY <1>2, <1>3, AppendHolds
<1>5. \A g \in Handlers : OnceEach(posted'[g]) /\ OnceEach(writing'[g])
  BY <1>1, <1>3, <1>4 DEF BufferInv
<1>6. \A x \in Packages, g \in Handlers :
        /\ Holds(posted'[g], x) <=> Holds(posted[g], x) /\ x # pk
        /\ Holds(writing'[g], x) <=> Holds(writing[g], x) \/ (g = h /\ x = pk)
  <2>1. ASSUME NEW x \in Packages
        PROVE  /\ Holds(posted'[h], x) <=> Holds(posted[h], x) /\ x # pk
               /\ Holds(writing'[h], x) <=> Holds(writing[h], x) \/ x = pk
    BY <1>1, <1>4
  <2>2. ASSUME NEW x \in Packages, NEW g \in Handlers \ {h}
        PROVE  /\ Holds(posted'[g], x) <=> Holds(posted[g], x) /\ x # pk
               /\ Holds(writing'[g], x) <=> Holds(writing[g], x)
    BY <1>1, <1>2, <1>3
  <2>3. QED
    BY <2>1, <2>2
<1>7. \A x \in Packages, g \in Handlers :
        /\ Holds(posted'[g], x) =>
             /\ x \in heap'
             /\ \A f \in Handlers : /\ ~Holds(writing'[f], x)
                                    /\ Holds(posted'[f], x) => f = g
        /\ Holds(writing'[g], x) =>
             /\ x \in heap'
             /\ \A f \in Handlers : Holds(writing'[f], x) => f = g
  BY <1>1, <1>2, <1>3, <1>6 DEF BufferInv
<1>8. \A x \in heap' : \E g \in Handlers : Holds(posted'[g], x) \/ Holds(writing'[g], x)
  BY <1>3, <1>6 DEF BufferInv
<1>9. QED
  BY <1>5, <1>7, <1>8 DEF BufferInv

\* The one place that has the buffer loses it, and it is freed.
LEMMA BufferFreed ==
    ASSUME BufferInv, NEW pk \in Packages, heap \subseteq Packages,
           heap' = heap \ {pk},
           \A h \in Handlers :
             /\ OnceEach(posted'[h]) /\ OnceEach(writing'[h])
             /\ \A x \in Packages : /\ Holds(posted'[h], x) <=> Holds(posted[h], x) /\ x # pk
                                    /\ Holds(writing'[h], x) <=> Holds(writing[h], x) /\ x # pk
    PROVE  BufferInv'
BY DEF BufferInv

LEMMA BufferDropped ==
    ASSUME TypeOK, BufferInv, NEW h \in Handlers, NEW pk \in Packages,
           ActiveSendDropped(h, pk)
    PROVE  BufferInv'
<1>1. /\ OnceEach(posted'[h])
      /\ \A x : Holds(posted[h], x) <=> Holds(posted'[h], x) \/ x = pk
      /\ ~Holds(posted'[h], pk)
      /\ \A g \in Handlers \ {h} : posted'[g] = posted[g]
  BY RunHolds DEF ActiveSendDropped
<1>2. \A g \in Handlers : /\ ~Holds(writing[g], pk)
                          /\ Holds(posted[g], pk) => g = h
  BY <1>1 DEF BufferInv
<1>3. writing' = writing /\ heap' = heap \ {pk} /\ heap \subseteq Packages
  BY DEF ActiveSendDropped, TypeOK
<1>4. ASSUME NEW g \in Handlers
      PROVE  /\ OnceEach(posted'[g]) /\ OnceEach(writing'[g])
             /\ \A x \in Packages : /\ Holds(posted'[g], x) <=> Holds(posted[g], x) /\ x # pk
                                    /\ Holds(writing'[g], x) <=> Holds(writing[g], x) /\ x # pk
  <2>1. OnceEach(posted[g]) /\ OnceEach(writing[g])
    BY DEF BufferInv
  <2>2. CASE g = h
    BY <1>1, <1>2, <1>3, <2>1, <2>2
  <2>3. CASE g # h
    BY <1>1, <1>2, <1>3, <2>1, <2>3
  <2>4. QED
    BY <2>2, <2>3
<1>5. QED
  BY <1>3, <1>4, BufferFreed

LEMMA BufferEnds ==
    ASSUME TypeOK, BufferInv, NEW h \in Handlers, NEW i \in 1..Len(writing[h]),
           WriteHandler(h, i), UNCHANGED posted
    PROVE  BufferInv'
<1> DEFINE pk == writing[h][i]
<1>1. writing[h] \in Seq(Packages) /\ OnceEach(writing[h]) /\ pk \in Packages
  BY ElementOfSeq DEF TypeOK, BufferInv
<1>2. /\ writing'[h] = RemoveAt(writing[h], i)
      /\ \A g \in Handlers \ {h} : writing'[g] = writing[g]
      /\ heap' = heap \ {pk} /\ heap \subseteq Packages
  BY DEF WriteHandler, TypeOK
<1>3. Holds(writing[h], pk)
  BY DEF Holds
<1> HIDE DEF pk
<1>4. /\ OnceEach(writing'[h])
      /\ \A x : Holds(writing'[h], x) <=> Holds(writing[h], x) /\ x # pk
  BY <1>1, <1>2, RemoveAtHolds DEF pk
<1>5. \A g \in Handlers : /\ ~Holds(posted[g], pk)
                          /\ Holds(writing[g], pk) => g = h
  BY <1>1, <1>3 DEF BufferInv
<1>6. ASSUME NEW g \in Handlers
      PROVE  /\ OnceEach(posted'[g]) /\ OnceEach(writing'[g])
             /\ \A x \in Packages : /\ Holds(posted'[g], x) <=> Holds(posted[g], x) /\ x # pk
                                    /\ Holds(writing'[g], x) <=> Holds(writing[g], x) /\ x # pk
  <2>1. OnceEach(posted[g]) /\ OnceEach(writing[g])
    BY DEF BufferInv
  <2>2. CASE g = h
    BY <1>4, <1>5, <2>1, <2>2
  <2>3. CASE g # h
    BY <1>2, <1>5, <2>1, <2>3
  <2>4. QED
    BY <2>2, <2>3
<1>7. QED
  BY <1>1, <1>2, <1>6, BufferFreed

\* A write that is interrupted goes to the end of the line.
LEMMA BufferPart ==
    ASSUME TypeOK, BufferInv, NEW h \in Handlers, WritePart(h)
    PROVE  BufferInv'
<1> DEFINE rest == Tail(writing[h])
           pk == Head(writing[h])
<1>1. /\ writing[h] \in Seq(Packages) /\ writing[h] # <<>> /\ OnceEach(writing[h])
      /\ writing'[h] = Append(rest, pk)
      /\ \A g \in Handlers \ {h} : writing'[g] = writing[g]
      /\ posted' = posted /\ heap' = heap /\ heap \subseteq Packages
  BY DEF WritePart, TypeOK, BufferInv
<1>2. /\ rest \in Seq(Packages) /\ pk \in Packages
      /\ \A x : Holds(writing[h], x) <=> Holds(rest, x) \/ x = pk
      /\ OnceEach(rest) /\ ~Holds(rest, pk)
  BY <1>1, TailHolds
<1> HIDE DEF rest, pk
<1>3. /\ OnceEach(writing'[h])
      /\ \A x : Holds(writing'[h], x) <=> Holds(writing[h], x)
  BY <1>1, <1>2, AppendHolds
<1>4. ASSUME NEW g \in Handlers
      PROVE  /\ OnceEach(posted'[g]) /\ OnceEach(writing'[g])
             /\ \A x \in Packages : /\ Holds(posted'[g], x) <=> Holds(posted[g], x)
                                    /\ Holds(writing'[g], x) <=> Holds(writing[g], x)
  <2>1. OnceEach(posted[g]) /\ OnceEach(writing[g])
    BY DEF BufferInv
  <2>2. QED
    BY <1>1, <1>3, <2>1
<1>5. QED
  BY <1>1, <1>4, BufferKept

LEMMA BufferStep == TypeOK /\ BufferInv /\ [Next]_vars => BufferInv'
<1> SUFFICES ASSUME TypeOK, BufferInv, [Next]_vars PROVE BufferInv'
  OBVIOUS
<1>same. UNCHANGED <<posted, writing, heap>> => BufferInv'
  BY DEF BufferInv
<1>1. CASE CheckAuthentication \/ CheckHeartjump
  BY <1>1, BufferLook DEF CheckAuthentication, CheckHeartjump
<1>2. CASE SendHeartjump
  BY <1>2, BufferPost DEF SendHeartjump, sendVars
<1>3. ASSUME NEW h \in Handlers, NEW pk \in Packages, SendData(h, pk)
      PROVE  BufferInv'
  BY <1>3, BufferNew
<1>4. ASSUME NEW h \in Handlers, Accept(h) \/ CloseSocket(h) \/ ReadStep(h)
      PROVE  BufferInv'
  BY <1>4, <1>same DEF Accept, CloseSocket, ReadStep, ReadHeader, ReadFull, ReadEnds,
                      ReadCancelled, sendVars
<1>5. ASSUME NEW h \in Handlers, SendClose(h)
      PROVE  BufferInv'
  <2>1. posted' = [g \in Handlers |-> IF g \in {h} THEN Append(posted[g], "close")
                                      ELSE posted[g]]
    BY <1>5 DEF SendClose, TypeOK
  <2>2. QED
    BY <1>5, <2>1, BufferPost DEF SendClose, sendVars
<1>6. ASSUME NEW h \in Handlers, RunTask(h)
      PROVE  BufferInv'
  <2>1. CASE ActiveClose(h) \/ ActiveSendHeartjump(h)
    BY <2>1, BufferRun DEF ActiveClose, ActiveSendHeartjump, sendVars
  <2>2. QED
    BY <1>6, <2>1, BufferWritten, BufferDropped DEF RunTask
<1>7. ASSUME NEW h \in Handlers, WritePart(h)
      PROVE  BufferInv'
  BY <1>7, BufferPart
<1>8. ASSUME NEW h \in Handlers, WriteDone(h) \/ WriteFails(h)
      PROVE  BufferInv'
  <2>1. PICK i \in 1..Len(writing[h]) : WriteHandler(h, i)
    BY <1>8, AWriteEnds
  <2>2. UNCHANGED posted
    BY <1>8 DEF WriteDone, WriteFails
  <2>3. QED
    BY <2>1, <2>2, BufferEnds
<1>9. CASE UNCHANGED vars
  BY <1>9, <1>same DEF vars, sendVars
<1>10. QED
  BY <1>1, <1>2, <1>3, <1>4, <1>5, <1>6, <1>7, <1>8, <1>9 DEF Next

\* The places of a buffer, counted.
LEMMA BufferCounted == TypeOK /\ BufferInv => BufferOwnedOnce
<1> SUFFICES ASSUME TypeOK, BufferInv PROVE BufferOwnedOnce
  OBVIOUS
<1>1. \A h \in Handlers, pk \in Packages :
        /\ pk \in ToSet(posted[h]) <=> Holds(posted[h], pk)
        /\ pk \in ToSet(writing[h]) <=> Holds(writing[h], pk)
  <2>1. \A h \in Handlers : /\ DOMAIN posted[h] = 1..Len(posted[h])
                            /\ DOMAIN writing[h] = 1..Len(writing[h])
    BY DEF TypeOK
  <2>2. QED
    BY <2>1 DEF ToSet, Holds
<1>2. ASSUME NEW pk \in Packages
      PROVE  Cardinality(Owners(pk)) = IF pk \in heap THEN 1 ELSE 0
  <2> DEFINE P == {h \in Handlers : pk \in ToSet(posted[h])}
             W == {h \in Handlers : pk \in ToSet(writing[h])}
  <2>1. Owners(pk) = P \X {"posted"} \cup W \X {"writing"}
    BY DEF Owners
  <2>2. CASE pk \notin heap
    <3>1. P = {} /\ W = {}
      BY <1>1, <2>2 DEF BufferInv
    <3>2. Owners(pk) = {}
      BY <2>1, <3>1
    <3>3. QED
      BY <2>2, <3>2, FS_EmptySet
  <2>3. CASE pk \in heap
    <3>1. PICK h \in Handlers : Holds(posted[h], pk) \/ Holds(writing[h], pk)
      BY <2>3 DEF BufferInv
    <3>2. CASE Holds(posted[h], pk)
      <4>1. P = {h} /\ W = {}
        BY <1>1, <3>2 DEF BufferInv
      <4>2. Owners(pk) = {<<h, "posted">>}
        BY <2>1, <4>1
      <4>3. QED
        BY <2>3, <4>2, FS_Singleton
    <3>3. CASE Holds(writing[h], pk)
      <4>1. P = {} /\ W = {h}
        BY <1>1, <3>3 DEF BufferInv
      <4>2. Owners(pk) = {<<h, "writing">>}
        BY <2>1, <4>1
      <4>3. QED
        BY <2>3, <4>2, FS_Singleton
    <3>4. QED
      BY <3>1, <3>2, <3>3
  <2>4. QED
    BY <2>2, <2>3
<1>3. QED
  BY <1>2 DEF BufferOwnedOnce, BufferInv

\* Every send buffer is freed once: from the post that allocates it to the end of
\* its write, or to the task that drops it, exactly one task or write has it.
THEOREM BuffersHaveOneOwner == SafeSpec => []BufferOwnedOnce
<1>1. CloseInv /\ TypeOK /\ BufferInv /\ [Next]_vars => (CloseInv /\ TypeOK /\ BufferInv)'
  BY CloseInvStep, TypeStep, BufferStep
<1>2. Init => CloseInv /\ TypeOK /\ BufferInv
  BY CloseInvInit, TypeInit, BufferInit
<1>3. QED
  BY <1>1, <1>2, BufferCounted, PTL DEF SafeSpec

-----------------------------------------------------------------------------
(* The limit, and what keeps the messages in one piece *)

\* The manager counts its handlers right: there are never more than the limit.
Limited == IsFiniteSet(sets_) /\ Cardinality(sets_) <= MaxClients

LEMMA LimitedStep == Limited /\ [Next]_vars => Limited'
<1> SUFFICES ASSUME Limited, [Next]_vars PROVE Limited'
  OBVIOUS
<1>1. ASSUME NEW h \in Handlers, Accept(h)
      PROVE  Limited'
  <2>1. h \notin sets_ /\ Cardinality(sets_) # MaxClients /\ sets_' = sets_ \cup {h}
    BY <1>1 DEF Accept
  <2>2. /\ IsFiniteSet(sets_') /\ Cardinality(sets_') = Cardinality(sets_) + 1
        /\ Cardinality(sets_) \in Nat
    BY <2>1, FS_AddElement, FS_CardinalityType DEF Limited
  <2>3. QED
    BY <2>1, <2>2, TcpServerAssumption DEF Limited
<1>2. ASSUME NEW h \in Handlers, CloseCompleted(h)
      PROVE  Limited'
  <2>1. IsFiniteSet(sets_) /\ sets_' = sets_ \ {h}
    BY <1>2 DEF CloseCompleted, Limited
  <2>2. /\ IsFiniteSet(sets_')
        /\ Cardinality(sets_') = IF h \in sets_ THEN Cardinality(sets_) - 1
                                 ELSE Cardinality(sets_)
    BY <2>1, FS_RemoveElement
  <2>3. Cardinality(sets_) \in Nat
    BY <2>1, FS_CardinalityType
  <2>4. QED
    BY <2>2, <2>3, TcpServerAssumption DEF Limited
<1>3. CASE UNCHANGED sets_
  BY <1>3 DEF Limited
<1>4. CASE CheckAuthentication \/ CheckHeartjump \/ SendHeartjump
  BY <1>4, <1>3 DEF CheckAuthentication, CheckHeartjump, LookAt, SendHeartjump
<1>5. ASSUME NEW h \in Handlers, RunTask(h) \/ ReadStep(h)
      PROVE  Limited'
  <2>1. CASE ReadEnds(h)
    BY <2>1, <1>2 DEF ReadEnds
  <2>2. CASE ActiveClose(h) \/ ReadCancelled(h)
    <3>1. UNCHANGED sets_ \/ CloseCompleted(h)
      BY <2>2, Zenon DEF ActiveClose, CloseNow, ReadCancelled
    <3>2. QED
      BY <3>1, <1>2, <1>3
  <2>3. CASE ReadHeader(h) \/ ReadFull(h)
    BY <2>3, <1>3 DEF ReadHeader, ReadFull
  <2>4. CASE ActiveSendHeartjump(h) \/ \E pk \in Packages : ActiveSendData(h, pk)
                                    \/ ActiveSendDropped(h, pk)
    BY <2>4, <1>3 DEF ActiveSendHeartjump, ActiveSendData, ActiveSendDropped
  <2>5. QED
    BY <1>5, <2>1, <2>2, <2>3, <2>4 DEF RunTask, ReadStep
<1>6. ASSUME NEW h \in Handlers,
             \/ SendClose(h) \/ CloseSocket(h) \/ WritePart(h) \/ WriteDone(h)
             \/ WriteFails(h) \/ \E pk \in Packages : SendData(h, pk)
      PROVE  Limited'
  BY <1>6, <1>3 DEF SendClose, CloseSocket, WritePart, WriteDone, WriteFails, SendData
<1>7. CASE UNCHANGED vars
  BY <1>7, <1>3 DEF vars
<1>8. QED
  BY <1>1, <1>4, <1>5, <1>6, <1>7 DEF Next

\* There are never more connections than accept_success_func allows, though the
\* limit is only tested for equality and the handlers leave the manager at any time.
THEOREM ClientsAreLimited == SafeSpec => []Limited
<1>1. Init => Limited
  BY FS_EmptySet, TcpServerAssumption DEF Init, Limited
<1>2. QED
  BY <1>1, LimitedStep, PTL DEF SafeSpec

\* A write of which some bytes are out is still in progress.
PartInv == \A h \in Handlers : \A pk \in part[h] : Holds(writing[h], pk)

LEMMA PartInvStep == TypeOK /\ BufferInv /\ PartInv /\ [Next]_vars => PartInv'
<1> SUFFICES ASSUME TypeOK, BufferInv, PartInv, [Next]_vars PROVE PartInv'
  OBVIOUS
<1>same. UNCHANGED <<writing, part>> => PartInv'
  BY DEF PartInv, Holds
<1>1. CASE CheckAuthentication \/ CheckHeartjump \/ SendHeartjump
  BY <1>1, <1>same DEF CheckAuthentication, CheckHeartjump, LookAt, SendHeartjump, sendVars
<1>2. ASSUME NEW h \in Handlers,
             Accept(h) \/ CloseSocket(h) \/ ReadStep(h) \/ SendClose(h)
      PROVE  PartInv'
  BY <1>2, <1>same DEF Accept, CloseSocket, ReadStep, ReadHeader, ReadFull, ReadEnds,
                      ReadCancelled, SendClose, sendVars
<1>3. ASSUME NEW h \in Handlers, NEW pk \in Packages,
             SendData(h, pk) \/ ActiveSendDropped(h, pk)
      PROVE  PartInv'
  BY <1>3, <1>same DEF SendData, ActiveSendDropped
<1>4. ASSUME NEW h \in Handlers, ActiveClose(h) \/ ActiveSendHeartjump(h)
      PROVE  PartInv'
  BY <1>4, <1>same DEF ActiveClose, ActiveSendHeartjump, sendVars
<1>5. ASSUME NEW h \in Handlers, NEW pk \in Packages, ActiveSendData(h, pk)
      PROVE  PartInv'
  <2>1. /\ writing[h] \in Seq(Packages) /\ writing'[h] = Append(writing[h], pk)
        /\ part' = part
        /\ \A g \in Handlers \ {h} : writing'[g] = writing[g]
    BY <1>5 DEF ActiveSendData, TypeOK
  <2>2. \A x : Holds(writing[h], x) => Holds(writing'[h], x)
    BY <2>1, AppendHolds
  <2>3. QED
    BY <2>1, <2>2 DEF PartInv
<1>6. ASSUME NEW h \in Handlers, WritePart(h)
      PROVE  PartInv'
  <2> DEFINE rest == Tail(writing[h])
             pk == Head(writing[h])
  <2>1. /\ writing[h] \in Seq(Packages) /\ writing[h] # <<>> /\ OnceEach(writing[h])
        /\ writing'[h] = Append(rest, pk) /\ part'[h] = part[h] \cup {pk}
        /\ \A g \in Handlers \ {h} : writing'[g] = writing[g] /\ part'[g] = part[g]
    BY <1>6 DEF WritePart, TypeOK, BufferInv
  <2>2. /\ rest \in Seq(Packages) /\ pk \in Packages
        /\ \A x : Holds(writing[h], x) <=> Holds(rest, x) \/ x = pk
    BY <2>1, TailHolds
  <2> HIDE DEF rest, pk
  <2>3. \A x : Holds(writing'[h], x) <=> Holds(writing[h], x)
    BY <2>1, <2>2, AppendHolds
  <2>4. \A x \in part'[h] : Holds(writing'[h], x)
    BY <2>1, <2>2, <2>3 DEF PartInv
  <2>5. QED
    BY <2>1, <2>4 DEF PartInv
<1>7. ASSUME NEW h \in Handlers, WriteDone(h) \/ WriteFails(h)
      PROVE  PartInv'
  <2>1. PICK i \in 1..Len(writing[h]) : WriteHandler(h, i)
    BY <1>7, AWriteEnds
  <2> DEFINE pk == writing[h][i]
  <2>2. writing[h] \in Seq(Packages) /\ OnceEach(writing[h]) /\ pk \in Packages
    BY ElementOfSeq DEF TypeOK, BufferInv
  <2>3. /\ writing'[h] = RemoveAt(writing[h], i) /\ part'[h] = part[h] \ {pk}
        /\ \A g \in Handlers \ {h} : writing'[g] = writing[g] /\ part'[g] = part[g]
    BY <2>1 DEF WriteHandler, TypeOK
  <2>4. \A x : Holds(writing'[h], x) <=> Holds(writing[h], x) /\ x # pk
    BY <2>2, <2>3, RemoveAtHolds
  <2> HIDE DEF pk
  <2>5. \A x \in part'[h] : Holds(writing'[h], x)
    BY <2>3, <2>4 DEF PartInv
  <2>6. QED
    BY <2>3, <2>5 DEF PartInv
<1>8. CASE UNCHANGED vars
  BY <1>8, <1>same DEF vars, sendVars
<1>9. QED
  BY <1>1, <1>2, <1>3, <1>4, <1>5, <1>6, <1>7, <1>8 DEF Next, RunTask

\* No handler has two writes in progress.
NoOverlap == \A h \in Handlers : Len(writing[h]) <= 1

\* What the messages lack to go out in one piece: in every execution in which
\* active_send_data never starts an async_write before the last one of the same
\* handler has ended, the bytes of two messages are not mixed, whatever else happens.
THEOREM FramesIntactUnlessWritesOverlap == SafeSpec /\ []NoOverlap => []FramesIntact
<1>1. TypeOK /\ PartInv /\ NoOverlap => FramesIntact
  <2> SUFFICES ASSUME TypeOK, PartInv, NoOverlap, NEW h \in Handlers, part[h] # {}
               PROVE  part[h] = {Head(writing[h])}
    BY DEF FramesIntact
  <2>1. writing[h] \in Seq(Packages) /\ Len(writing[h]) \in Nat /\ Len(writing[h]) <= 1
    BY DEF TypeOK, NoOverlap
  <2>2. ASSUME NEW pk \in part[h] PROVE pk = Head(writing[h])
    <3>1. PICK i \in 1..Len(writing[h]) : writing[h][i] = pk
      BY DEF PartInv, Holds
    <3>2. i = 1
      BY <2>1, <3>1
    <3>3. QED
      BY <2>1, <3>1, <3>2
  <2>3. QED
    BY <2>2
<1>2. /\ Init => CloseInv /\ TypeOK /\ BufferInv
      /\ Init => PartInv
  BY CloseInvInit, TypeInit, BufferInit DEF Init, PartInv
<1>3. CloseInv /\ TypeOK /\ BufferInv /\ PartInv /\ [Next]_vars
        => (CloseInv /\ TypeOK /\ BufferInv /\ PartInv)'
  BY CloseInvStep, TypeStep, BufferStep, PartInvStep
<1>4. QED
  BY <1>1, <1>2, <1>3, PTL DEF SafeSpec
=============================================================================
