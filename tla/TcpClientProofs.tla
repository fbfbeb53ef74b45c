--------------------------- MODULE TcpClientProofs ---------------------------
(***************************************************************************)
(* Proofs about TcpClient for any number of handlers, buffers and posted   *)
(* tasks: its variables have their types, the client keeps one connection, *)
(* and the heart-jump timer's raw pointer is good while the hooks are      *)
(* careful.                                                                *)
(***************************************************************************)
EXTENDS TcpClient, TLAPS

-----------------------------------------------------------------------------
(* Types *)

LEMMA TypeInit == Init => TypeOK
<1> SUFFICES ASSUME Init PROVE TypeOK
  OBVIOUS
<1>1. connecting \subseteq Handlers /\ socket_ \in [Handlers -> {"open", "closed"}]
  BY DEF Init
<1>2. posted \in [Handlers -> Seq(Packages \cup {"close"})]
  <2>1. <<>> \in Seq(Packages \cup {"close"})
    OBVIOUS
  <2>2. QED
    BY <2>1 DEF Init
<1>3. /\ is_valid_ \in [Handlers -> BOOLEAN]
      /\ reading \in [Handlers -> {"none", "first", "header", "body"}]
      /\ writing \in [Handlers -> SUBSET Packages]
  BY DEF Init
<1>4. QED
  BY <1>1, <1>2, <1>3 DEF Init, TypeOK

LEMMA StartConnectType ==
    ASSUME TypeOK, NEW n \in Handlers, NEW closed \in SUBSET Handlers, StartConnect(n, closed)
    PROVE  /\ connecting' \subseteq Handlers
           /\ is_valid_' \in [Handlers -> BOOLEAN]
           /\ socket_' \in [Handlers -> {"open", "closed"}]
<1>1. connecting' \subseteq Handlers
  BY DEF TypeOK, StartConnect
<1>2. is_valid_' \in [Handlers -> BOOLEAN]
  BY DEF TypeOK, StartConnect
<1>3. socket_' \in [Handlers -> {"open", "closed"}]
  BY DEF TypeOK, StartConnect
<1>4. QED
  BY <1>1, <1>2, <1>3

LEMMA CloseCompletedType ==
    ASSUME TypeOK, NEW h \in Handlers, CloseCompleted(h)
    PROVE  /\ retry_delay_' = retry_delay_seconds
           /\ connecting' \subseteq Handlers
           /\ is_valid_' \in [Handlers -> BOOLEAN]
           /\ socket_' \in [Handlers -> {"open", "closed"}]
           /\ stopped' \in BOOLEAN
           /\ is_authenticate_pass_' \in BOOLEAN /\ careless' \in BOOLEAN
<1>1. /\ is_authenticate_pass_' \in BOOLEAN /\ careless' \in BOOLEAN
      /\ retry_delay_' = retry_delay_seconds
  BY DEF CloseCompleted, Reconnect, TypeOK
<1>2. CASE retry_delay_seconds = 0
  BY <1>1, <1>2 DEF CloseCompleted, Reconnect, TypeOK
<1>3. CASE retry_delay_seconds # 0
  <2>1. PICK n \in Handlers : StartConnect(n, {h})
    BY <1>3 DEF CloseCompleted, Reconnect
  <2>2. stopped' \in BOOLEAN
    BY <1>3 DEF CloseCompleted, Reconnect, TypeOK
  <2>3. {h} \in SUBSET Handlers
    OBVIOUS
  <2>4. QED
    BY <1>1, <2>1, <2>2, <2>3, StartConnectType
<1>4. QED
  BY <1>2, <1>3

\* Running a task takes it from the front of the handler's own sequence.
LEMMA RunTaskType ==
    ASSUME TypeOK, NEW h \in Handlers, NEW task \in Packages \cup {"close"}, Run(h, task)
    PROVE  posted' \in [Handlers -> Seq(Packages \cup {"close"})]
<1>1. posted[h] \in Seq(Packages \cup {"close"}) /\ posted[h] # <<>>
  BY DEF Run, TypeOK
<1>2. Tail(posted[h]) \in Seq(Packages \cup {"close"})
  BY <1>1
<1>3. QED
  BY <1>2 DEF Run, TypeOK

\* So does posting one more.
LEMMA PostType ==
    ASSUME TypeOK, NEW h \in Handlers, NEW task \in Packages \cup {"close"},
           posted' = [posted EXCEPT ![h] = Append(@, task)]
    PROVE  posted' \in [Handlers -> Seq(Packages \cup {"close"})]
<1>1. Append(posted[h], task) \in Seq(Packages \cup {"close"})
  BY DEF TypeOK
<1>2. QED
  BY <1>1 DEF TypeOK

LEMMA TypeStep == TypeOK /\ [Next]_vars => TypeOK'
<1> SUFFICES ASSUME TypeOK, [Next]_vars PROVE TypeOK'
  OBVIOUS
<1> USE DEF clientVars, authVars, sendVars, envVars
<1>1. CASE ReconnectTimeout
  <2>1. PICK n \in Handlers : StartConnect(n, {})
    BY <1>1 DEF ReconnectTimeout
  <2>2. /\ connecting' \subseteq Handlers
        /\ is_valid_' \in [Handlers -> BOOLEAN]
        /\ socket_' \in [Handlers -> {"open", "closed"}]
    BY <2>1, StartConnectType
  <2>3. QED
    BY <1>1, <2>2 DEF ReconnectTimeout, TypeOK
<1>2. CASE SendHeartjump
  <2>1. CASE handler_ \in Handlers /\ Referenced(handler_)
    <3>1. PICK pk \in Packages \ heap :
             /\ heap' = heap \cup {pk}
             /\ posted' = [posted EXCEPT ![handler_] = Append(@, pk)]
      BY <1>2, <2>1 DEF SendHeartjump
    <3>2. posted' \in [Handlers -> Seq(Packages \cup {"close"})]
      BY <2>1, <3>1, PostType
    <3>3. heap' \subseteq Packages /\ UNCHANGED crashed
      BY <1>2, <2>1, <3>1 DEF SendHeartjump, TypeOK
    <3>4. QED
      BY <1>2, <3>2, <3>3 DEF SendHeartjump, TypeOK
  <2>2. CASE ~(handler_ \in Handlers /\ Referenced(handler_))
    BY <1>2, <2>2 DEF SendHeartjump, TypeOK
  <2>3. QED
    BY <2>1, <2>2
<1>3. CASE ServerChanges
  BY <1>3 DEF ServerChanges, TypeOK
<1>4. ASSUME NEW h \in Handlers, NEW pk \in Packages, SendData(h, pk)
      PROVE  TypeOK'
  <2>1. posted' \in [Handlers -> Seq(Packages \cup {"close"})]
    BY <1>4, PostType DEF SendData
  <2>2. QED
    BY <1>4, <2>1 DEF SendData, TypeOK
<1>5. ASSUME NEW h \in Handlers, NEW pk \in Packages, WriteHandler(h, pk)
      PROVE  TypeOK'
  <2>1. writing' \in [Handlers -> SUBSET Packages]
    BY <1>5 DEF WriteHandler, TypeOK
  <2>2. QED
    BY <1>5, <2>1 DEF WriteHandler, TypeOK
<1>6. ASSUME NEW h \in Handlers, Connected(h)
      PROVE  TypeOK'
  BY <1>6 DEF Connected, TypeOK
<1>7. ASSUME NEW h \in Handlers, FirstPackageFails(h)
      PROVE  TypeOK'
  BY <1>7, CloseCompletedType DEF FirstPackageFails, TypeOK
<1>8. ASSUME NEW h \in Handlers, Refused(h)
      PROVE  TypeOK'
  BY <1>8 DEF Refused, TypeOK
<1>9. ASSUME NEW h \in Handlers, ConnectFails(h)
      PROVE  TypeOK'
  <2>1. retry_delay_ \in Nat
    BY TcpClientAssumption DEF TypeOK
  <2>2. AtMost(retry_delay_ * 2, MaxRetryDelay) \in 0..MaxRetryDelay
    BY <2>1, TcpClientAssumption DEF AtMost
  <2>3. /\ retry_delay_' \in {retry_delay_seconds} \cup 0..MaxRetryDelay
        /\ timer0' \in BOOLEAN /\ stopped' \in BOOLEAN
    BY <1>9, <2>2 DEF ConnectFails, TypeOK
  <2>4. socket_' \in [Handlers -> {"open", "closed"}] /\ connecting' \subseteq Handlers
    BY <1>9 DEF ConnectFails, TypeOK
  <2>5. QED
    BY <1>9, <2>3, <2>4 DEF ConnectFails, TypeOK
<1>10. ASSUME NEW h \in Handlers, SendClose(h)
       PROVE  TypeOK'
  <2>1. posted' \in [Handlers -> Seq(Packages \cup {"close"})]
    BY <1>10, PostType DEF SendClose
  <2>2. QED
    BY <1>10, <2>1 DEF SendClose, TypeOK
<1>11. ASSUME NEW h \in Handlers, CloseSocket(h)
       PROVE  TypeOK'
  BY <1>11 DEF CloseSocket, TypeOK
<1>12. ASSUME NEW h \in Handlers, ActiveClose(h)
       PROVE  TypeOK'
  <2>1. posted' \in [Handlers -> Seq(Packages \cup {"close"})]
    BY <1>12, RunTaskType DEF ActiveClose
  <2>2. CASE is_valid_[h]
    <3>1. CloseCompleted(h)
      BY <1>12, <2>2, Zenon DEF ActiveClose
    <3>2. QED
      BY <1>12, <2>1, <3>1, CloseCompletedType DEF ActiveClose, TypeOK
  <2>3. CASE ~is_valid_[h]
    <3>1. UNCHANGED <<retry_delay_, connecting, stopped, authVars, is_valid_, socket_>>
      BY <1>12, <2>3, Zenon DEF ActiveClose
    <3>2. QED
      BY <1>12, <2>1, <3>1 DEF ActiveClose, TypeOK
  <2>4. QED
    BY <2>2, <2>3
<1>13. ASSUME NEW h \in Handlers, NEW pk \in Packages,
              ActiveSend(h, pk) \/ ActiveSendDropped(h, pk)
       PROVE  TypeOK'
  <2>1. posted' \in [Handlers -> Seq(Packages \cup {"close"})]
    BY <1>13, RunTaskType DEF ActiveSend, ActiveSendDropped
  <2>2. writing' \in [Handlers -> SUBSET Packages]
    <3>1. writing[h] \cup {pk} \in SUBSET Packages
      BY DEF TypeOK
    <3>2. \/ writing' = [writing EXCEPT ![h] = writing[h] \cup {pk}]
          \/ UNCHANGED writing
      BY <1>13 DEF ActiveSend, ActiveSendDropped
    <3>3. QED
      BY <3>1, <3>2 DEF TypeOK
  <2>3. heap' \subseteq Packages
    BY <1>13 DEF ActiveSend, ActiveSendDropped, TypeOK
  <2>4. UNCHANGED <<clientVars, authVars, handler_, is_valid_, socket_, reading, envVars>>
    BY <1>13 DEF ActiveSend, ActiveSendDropped
  <2>5. QED
    BY <2>1, <2>2, <2>3, <2>4 DEF TypeOK
<1>14. ASSUME NEW h \in Handlers,
              WriteFirstHandler(h) \/ ReadHeader(h) \/ ReadCancelled(h)
       PROVE  TypeOK'
  BY <1>14 DEF WriteFirstHandler, ReadHeader, ReadCancelled, TypeOK
<1>15. ASSUME NEW h \in Handlers, ReadFull(h)
       PROVE  TypeOK'
  BY <1>15 DEF ReadFull, TypeOK
<1>16. ASSUME NEW h \in Handlers, ReadEnds(h)
       PROVE  TypeOK'
  <2>1. reading' \in [Handlers -> {"none", "first", "header", "body"}]
    BY <1>16 DEF ReadEnds, TypeOK
  <2>2. CloseCompleted(h)
    BY <1>16 DEF ReadEnds
  <2>3. QED
    BY <1>16, <2>1, <2>2, CloseCompletedType DEF ReadEnds, TypeOK
<1>17. CASE UNCHANGED vars
  BY <1>17 DEF vars, TypeOK
<1>18. QED
  BY <1>1, <1>2, <1>3, <1>4, <1>5, <1>6, <1>7, <1>8, <1>9, <1>10, <1>11, <1>12, <1>13,
     <1>14, <1>15, <1>16, <1>17 DEF Next, Step, ConnectHandler, RunTask

\* Every variable has its type, and the delay before an attempt its limit.
THEOREM TypeCorrect == SafeSpec => []TypeOK
BY TypeInit, TypeStep, PTL DEF SafeSpec

-----------------------------------------------------------------------------
(* One connection *)

\* A task that would close h is waiting.
ClosePosted(h) == \E i \in 1..Len(posted[h]) : posted[h][i] = "close"

\* The client gave up, waits for the timer, connects, or has a connection.
Idle == stopped /\ ~timer0 /\ connecting = {} /\ Registered = {}
Waiting == ~stopped /\ timer0 /\ connecting = {} /\ Registered = {}
Connecting(h) == ~stopped /\ ~timer0 /\ connecting = {h} /\ Registered = {}
Serving(h) == ~stopped /\ ~timer0 /\ connecting = {} /\ Registered = {h}

\* The inductive invariant. A handler that connects has no read yet, only the
\* handler of the attempt or of the connection has an open socket, and a close is
\* posted only for handlers that are served or closed already.
ClientInv ==
    /\ Idle \/ Waiting \/ \E h \in Handlers : Connecting(h) \/ Serving(h)
    /\ \A h \in connecting : reading[h] = "none" /\ is_valid_[h]
    /\ \A h \in Handlers : socket_[h] = "open" => h \in connecting \cup Registered
    /\ \A h \in Handlers : is_valid_[h] /\ h \notin Registered => ~ClosePosted(h)

LEMMA ClientInvInit == Init => ClientInv
<1> SUFFICES ASSUME Init PROVE ClientInv
  OBVIOUS
<1>1. Registered = {}
  BY DEF Init, Registered
<1>2. \A h \in Handlers : ~ClosePosted(h)
  <2>1. \A h \in Handlers : Len(posted[h]) = 0
    BY DEF Init
  <2>2. SUFFICES ASSUME NEW h \in Handlers, NEW i \in 1..Len(posted[h]) PROVE FALSE
    BY DEF ClosePosted
  <2>3. i \in 1..0
    BY <2>1
  <2>4. QED
    BY <2>3
<1>3. PICK h \in Handlers :
         /\ connecting = {h}
         /\ socket_ = [g \in Handlers |-> IF g = h THEN "open" ELSE "closed"]
  BY DEF Init
<1>4. Connecting(h)
  BY <1>1, <1>3 DEF Init, Connecting
<1>5. QED
  BY <1>2, <1>3, <1>4 DEF Init, ClientInv

LEMMA ClientInvImplies == ClientInv => OneConnection
<1> SUFFICES ASSUME ClientInv PROVE OneConnection
  OBVIOUS
<1>1. IF stopped THEN Sources = {}
      ELSE \E source \in Handlers \cup {"timer0"} : Sources = {source}
  BY DEF ClientInv, Idle, Waiting, Connecting, Serving, Sources
<1>2. \A g, h \in connecting \cup Registered : g = h
  BY DEF ClientInv, Idle, Waiting, Connecting, Serving
<1>3. QED
  BY <1>1, <1>2 DEF OneConnection, ClientInv

\* A step that leaves the attempt, the timer and the registered handlers alone and
\* posts no close but to a registered one.
LEMMA QuietStep ==
    ASSUME ClientInv, UNCHANGED <<connecting, timer0, stopped, is_valid_>>,
           Registered' = Registered,
           \A h \in connecting : reading'[h] = reading[h],
           \A h \in Handlers : socket_'[h] = "open" => socket_[h] = "open",
           \A h \in Handlers \ Registered : ClosePosted(h)' => ClosePosted(h)
    PROVE  ClientInv'
<1>1. (Idle \/ Waiting \/ \E h \in Handlers : Connecting(h) \/ Serving(h))'
  BY DEF ClientInv, Idle, Waiting, Connecting, Serving
<1>2. QED
  BY <1>1 DEF ClientInv

\* The end of the connection or of the attempt g is reported: it is replaced, or
\* the client gives up.
LEMMA ReplaceStep ==
    ASSUME TypeOK, ClientInv, NEW g \in connecting \cup Registered, CloseCompleted(g),
           UNCHANGED timer0, TypeOK',
           \A h \in Handlers \ {g} : reading'[h] = reading[h],
           \A h \in Handlers : ClosePosted(h)' => ClosePosted(h)
    PROVE  ClientInv'
<1>1. /\ g \in Handlers /\ ~stopped /\ ~timer0 /\ ~timer0'
      /\ connecting \ {g} = {} /\ Registered \ {g} = {}
  BY DEF ClientInv, Idle, Waiting, Connecting, Serving, Registered, TypeOK
<1>2. \A h \in Handlers \ {g} : ~(is_valid_[h] /\ reading[h] # "none")
  BY <1>1 DEF Registered
<1>3. CASE retry_delay_seconds = 0
  <2>1. /\ connecting' = {} /\ stopped'
        /\ is_valid_' = [is_valid_ EXCEPT ![g] = FALSE]
        /\ socket_' = [socket_ EXCEPT ![g] = "closed"]
    BY <1>1, <1>3 DEF CloseCompleted, Reconnect
  <2>2. Registered' = {}
    BY <1>2, <2>1 DEF Registered, TypeOK
  <2>3. Idle'
    BY <1>1, <2>1, <2>2 DEF Idle
  <2>4. \A h \in Handlers : socket_'[h] = "closed"
    BY <1>1, <2>1 DEF ClientInv, TypeOK
  <2>5. \A h \in Handlers : is_valid_'[h] => ~ClosePosted(h)'
    BY <1>1, <2>1 DEF ClientInv, TypeOK
  <2>6. QED
    BY <2>1, <2>2, <2>3, <2>4, <2>5 DEF ClientInv
<1>4. CASE retry_delay_seconds # 0
  <2>1. PICK n \in Handlers : StartConnect(n, {g})
    BY <1>4 DEF CloseCompleted, Reconnect
  <2>2. UNCHANGED stopped
    BY <1>4 DEF CloseCompleted, Reconnect
  <2>3. /\ connecting' = {n} /\ n # g
        /\ reading[n] = "none" /\ posted[n] = <<>>
    BY <1>1, <2>1 DEF StartConnect, Referenced
  <2>4. \A h \in Handlers : is_valid_'[h] <=> h = n \/ (h # g /\ is_valid_[h])
    BY <2>1 DEF StartConnect
  <2>5. Registered' = {}
    BY <1>2, <2>3, <2>4 DEF Registered
  <2>6. Connecting(n)'
    BY <1>1, <2>2, <2>3, <2>5 DEF Connecting
  <2>7. \A h \in Handlers : socket_'[h] = "open" => h = n
    BY <1>1, <2>1 DEF StartConnect, ClientInv, TypeOK
  <2>8. \A h \in Handlers : is_valid_'[h] => ~ClosePosted(h)'
    <3>1. ~ClosePosted(n)
      BY <2>3 DEF ClosePosted
    <3>2. \A h \in Handlers \ {g} : is_valid_[h] => ~ClosePosted(h)
      BY <1>1 DEF ClientInv
    <3>3. QED
      BY <2>4, <3>1, <3>2
  <2>9. QED
    BY <2>3, <2>4, <2>6, <2>7, <2>8 DEF ClientInv
<1>5. QED
  BY <1>3, <1>4

\* A posted task that runs takes itself away and adds nothing.
LEMMA RunLeaves ==
    ASSUME TypeOK, NEW g \in Handlers, NEW task, Run(g, task)
    PROVE  \A h \in Handlers : ClosePosted(h)' => ClosePosted(h)
<1>1. posted[g] \in Seq(Packages \cup {"close"}) /\ posted[g] # <<>>
  BY DEF Run, TypeOK
<1>2. /\ Len(Tail(posted[g])) = Len(posted[g]) - 1
      /\ \A i \in 1..Len(Tail(posted[g])) : Tail(posted[g])[i] = posted[g][i + 1]
  BY <1>1
<1>3. \A h \in Handlers : posted'[h] = IF h = g THEN Tail(posted[g]) ELSE posted[h]
  BY DEF Run, TypeOK
<1>4. Len(posted[g]) \in Nat
  BY <1>1
<1>5. ClosePosted(g)' => ClosePosted(g)
  <2>1. SUFFICES ASSUME NEW i \in 1..Len(posted'[g]), posted'[g][i] = "close"
                 PROVE  ClosePosted(g)
    BY DEF ClosePosted
  <2>2. posted'[g] = Tail(posted[g])
    BY <1>3
  <2>3. i \in 1..(Len(posted[g]) - 1)
    BY <1>2, <2>2
  <2>4. i + 1 \in 1..Len(posted[g]) /\ posted[g][i + 1] = "close"
    BY <1>2, <1>4, <2>1, <2>2, <2>3
  <2>5. QED
    BY <2>4 DEF ClosePosted
<1>6. QED
  BY <1>3, <1>5 DEF ClosePosted

\* A buffer that is posted is no close.
LEMMA PostLeaves ==
    ASSUME TypeOK, NEW g \in Handlers, NEW pk \in Packages,
           posted' = [posted EXCEPT ![g] = Append(@, pk)]
    PROVE  \A h \in Handlers : ClosePosted(h)' => ClosePosted(h)
<1>1. posted[g] \in Seq(Packages \cup {"close"})
  BY DEF TypeOK
<1>2. /\ Len(Append(posted[g], pk)) = Len(posted[g]) + 1
      /\ \A i \in 1..Len(posted[g]) : Append(posted[g], pk)[i] = posted[g][i]
      /\ Append(posted[g], pk)[Len(posted[g]) + 1] = pk
  BY <1>1
<1>3. \A h \in Handlers : posted'[h] = IF h = g THEN Append(posted[g], pk) ELSE posted[h]
  BY DEF TypeOK
<1>4. Len(posted[g]) \in Nat /\ pk # "close"
  BY <1>1, TcpClientAssumption
<1>5. ClosePosted(g)' => ClosePosted(g)
  <2>1. SUFFICES ASSUME NEW i \in 1..Len(posted'[g]), posted'[g][i] = "close"
                 PROVE  ClosePosted(g)
    BY DEF ClosePosted
  <2>2. i \in 1..Len(posted[g]) /\ posted[g][i] = "close"
    BY <1>2, <1>3, <1>4, <2>1
  <2>3. QED
    BY <2>2 DEF ClosePosted
<1>6. QED
  BY <1>3, <1>5 DEF ClosePosted

LEMMA ClientInvStep == TypeOK /\ TypeOK' /\ ClientInv /\ [Next]_vars => ClientInv'
<1> SUFFICES ASSUME TypeOK, TypeOK', ClientInv, [Next]_vars PROVE ClientInv'
  OBVIOUS
<1> USE DEF clientVars, authVars, sendVars, envVars
<1>1. CASE ReconnectTimeout
  <2>1. PICK n \in Handlers : StartConnect(n, {})
    BY <1>1 DEF ReconnectTimeout
  <2>2. Waiting
    BY <1>1 DEF ReconnectTimeout, ClientInv, Idle, Waiting, Connecting, Serving
  <2>3. /\ connecting' = {n} /\ reading[n] = "none" /\ posted[n] = <<>>
        /\ ~timer0' /\ UNCHANGED <<stopped, reading, posted>>
    BY <1>1, <2>1, <2>2 DEF ReconnectTimeout, StartConnect, Referenced, Waiting
  <2>4. \A h \in Handlers : is_valid_'[h] <=> h = n \/ is_valid_[h]
    BY <2>1 DEF StartConnect
  <2>5. Registered' = {}
    BY <2>2, <2>3, <2>4 DEF Registered, Waiting
  <2>6. Connecting(n)'
    BY <2>2, <2>3, <2>5 DEF Connecting, Waiting
  <2>7. \A h \in Handlers : socket_'[h] = "open" => h = n
    BY <2>1, <2>2 DEF StartConnect, ClientInv, Waiting
  <2>8. \A h \in Handlers : is_valid_'[h] => ~ClosePosted(h)'
    BY <2>2, <2>3, <2>4 DEF ClosePosted, ClientInv, Waiting
  <2>9. QED
    BY <2>3, <2>4, <2>6, <2>7, <2>8 DEF ClientInv
<1>2. CASE SendHeartjump
  <2>1. \A h \in Handlers : ClosePosted(h)' => ClosePosted(h)
    <3>1. CASE UNCHANGED posted
      BY <3>1 DEF ClosePosted
    <3>2. CASE \E g \in Handlers, pk \in Packages :
                  posted' = [posted EXCEPT ![g] = Append(@, pk)]
      BY <3>2, PostLeaves
    <3>3. QED
      BY <1>2, <3>1, <3>2 DEF SendHeartjump
  <2>2. UNCHANGED <<connecting, timer0, stopped, is_valid_, reading, socket_>>
    BY <1>2 DEF SendHeartjump
  <2>3. Registered' = Registered
    BY <2>2 DEF Registered
  <2>4. QED
    BY <2>1, <2>2, <2>3, QuietStep
<1>3. CASE ServerChanges \/ UNCHANGED vars
  <2>1. UNCHANGED <<connecting, timer0, stopped, is_valid_, reading, socket_, posted>>
    BY <1>3 DEF ServerChanges, vars
  <2>2. QED
    BY <2>1, QuietStep DEF Registered, ClosePosted
<1>4. ASSUME NEW h \in Handlers, NEW pk \in Packages, SendData(h, pk)
      PROVE  ClientInv'
  <2>1. UNCHANGED <<connecting, timer0, stopped, is_valid_, reading, socket_>>
    BY <1>4 DEF SendData
  <2>2. \A g \in Handlers : ClosePosted(g)' => ClosePosted(g)
    BY <1>4, PostLeaves DEF SendData
  <2>3. QED
    BY <2>1, <2>2, QuietStep DEF Registered
<1>5. ASSUME NEW h \in Handlers, NEW pk \in Packages, WriteHandler(h, pk)
      PROVE  ClientInv'
  <2>1. UNCHANGED <<connecting, timer0, stopped, is_valid_, reading, socket_, posted>>
    BY <1>5 DEF WriteHandler
  <2>2. QED
    BY <2>1, QuietStep DEF Registered, ClosePosted
<1>6. ASSUME NEW h \in Handlers, Connected(h)
      PROVE  ClientInv'
  <2>1. Connecting(h) /\ is_valid_[h]
    BY <1>6 DEF Connected, ClientInv, Idle, Waiting, Connecting, Serving
  <2>2. /\ connecting' = {} /\ reading'[h] # "none"
        /\ \A g \in Handlers \ {h} : reading'[g] = reading[g]
        /\ UNCHANGED <<timer0, stopped, is_valid_, socket_, posted>>
    BY <1>6, <2>1 DEF Connected, Connecting, TypeOK
  <2>3. Registered' = {h}
    BY <2>1, <2>2 DEF Registered, Connecting
  <2>4. Serving(h)'
    BY <2>1, <2>2, <2>3 DEF Serving, Connecting
  <2>5. QED
    BY <2>1, <2>2, <2>4 DEF ClientInv, Serving, Connecting, ClosePosted
<1>7. ASSUME NEW h \in Handlers, FirstPackageFails(h)
      PROVE  ClientInv'
  <2>1. /\ CloseCompleted(h) /\ h \in connecting
        /\ UNCHANGED <<timer0, reading, posted>>
    BY <1>7 DEF FirstPackageFails
  <2>2. QED
    BY <2>1, ReplaceStep DEF ClosePosted
<1>8. ASSUME NEW h \in Handlers, Refused(h) \/ ConnectFails(h)
      PROVE  ClientInv'
  <2>1. Connecting(h)
    BY <1>8 DEF Refused, ConnectFails, ClientInv, Idle, Waiting, Connecting, Serving
  <2>2. /\ connecting' = {} /\ socket_' = [socket_ EXCEPT ![h] = "closed"]
        /\ UNCHANGED <<is_valid_, reading, posted>>
    BY <1>8, <2>1 DEF Refused, ConnectFails, Connecting
  <2>3. (stopped' /\ ~timer0') \/ (~stopped' /\ timer0')
    <3>1. ~stopped /\ ~timer0
      BY <2>1 DEF Connecting
    <3>2. CASE Refused(h)
      BY <3>1, <3>2 DEF Refused
    <3>3. CASE ConnectFails(h) /\ retry_delay_seconds = 0
      BY <3>1, <3>3 DEF ConnectFails
    <3>4. CASE ConnectFails(h) /\ retry_delay_seconds # 0
      BY <3>1, <3>4 DEF ConnectFails
    <3>5. QED
      BY <1>8, <3>2, <3>3, <3>4
  <2>4. Registered' = {}
    BY <2>1, <2>2 DEF Registered, Connecting
  <2>5. (Idle \/ Waiting)'
    BY <2>2, <2>3, <2>4 DEF Idle, Waiting
  <2>6. \A g \in Handlers : socket_'[g] = "closed"
    BY <2>1, <2>2 DEF ClientInv, Connecting, TypeOK
  <2>7. \A g \in Handlers : is_valid_'[g] => ~ClosePosted(g)'
    BY <2>1, <2>2 DEF ClientInv, Connecting, ClosePosted
  <2>8. QED
    BY <2>2, <2>5, <2>6, <2>7 DEF ClientInv
<1>9. ASSUME NEW h \in Handlers, SendClose(h)
      PROVE  ClientInv'
  <2>1. UNCHANGED <<connecting, timer0, stopped, is_valid_, reading, socket_>>
    BY <1>9 DEF SendClose
  <2>2. \A g \in Handlers \ Registered : ClosePosted(g)' => ClosePosted(g)
    BY <1>9 DEF SendClose, ClosePosted, TypeOK
  <2>3. QED
    BY <2>1, <2>2, QuietStep DEF Registered
<1>10. ASSUME NEW h \in Handlers, CloseSocket(h)
       PROVE  ClientInv'
  <2>1. /\ UNCHANGED <<connecting, timer0, stopped, is_valid_, reading, posted>>
        /\ \A g \in Handlers : socket_'[g] = "open" => socket_[g] = "open"
    BY <1>10 DEF CloseSocket, TypeOK
  <2>2. QED
    BY <2>1, QuietStep DEF Registered, ClosePosted
<1>11. ASSUME NEW h \in Handlers, ActiveClose(h)
       PROVE  ClientInv'
  <2>1. /\ UNCHANGED <<timer0, reading>>
        /\ \A g \in Handlers : ClosePosted(g)' => ClosePosted(g)
    BY <1>11, RunLeaves DEF ActiveClose
  <2>2. ClosePosted(h)
    <3>1. posted[h] \in Seq(Packages \cup {"close"}) /\ posted[h] # <<>>
      BY <1>11 DEF ActiveClose, Run, TypeOK
    <3>2. 1 \in 1..Len(posted[h]) /\ posted[h][1] = "close"
      BY <1>11, <3>1 DEF ActiveClose, Run
    <3>3. QED
      BY <3>2 DEF ClosePosted
  <2>3. CASE is_valid_[h]
    <3>1. CloseCompleted(h)
      BY <1>11, <2>3, Zenon DEF ActiveClose
    <3>2. h \in Registered
      BY <2>2, <2>3 DEF ClientInv
    <3>3. QED
      BY <2>1, <3>1, <3>2, ReplaceStep
  <2>4. CASE ~is_valid_[h]
    <3>1. UNCHANGED <<connecting, stopped, is_valid_, socket_>>
      BY <1>11, <2>4, Zenon DEF ActiveClose
    <3>2. QED
      BY <2>1, <3>1, QuietStep DEF Registered
  <2>5. QED
    BY <2>3, <2>4
<1>12. ASSUME NEW h \in Handlers, NEW pk \in Packages,
              ActiveSend(h, pk) \/ ActiveSendDropped(h, pk)
       PROVE  ClientInv'
  <2>1. /\ UNCHANGED <<connecting, timer0, stopped, is_valid_, reading, socket_>>
        /\ Run(h, pk)
    BY <1>12 DEF ActiveSend, ActiveSendDropped
  <2>2. \A g \in Handlers : ClosePosted(g)' => ClosePosted(g)
    BY <2>1, RunLeaves
  <2>3. QED
    BY <2>1, <2>2, QuietStep DEF Registered
<1>13. ASSUME NEW h \in Handlers,
              WriteFirstHandler(h) \/ ReadHeader(h) \/ ReadFull(h) \/ ReadCancelled(h)
       PROVE  ClientInv'
  <2>1. UNCHANGED <<connecting, timer0, stopped, is_valid_, socket_, posted>>
    BY <1>13 DEF WriteFirstHandler, ReadHeader, ReadFull, ReadCancelled
  <2>2. Registered' = Registered
    BY <1>13, <2>1 DEF WriteFirstHandler, ReadHeader, ReadFull, ReadCancelled, Registered, TypeOK
  <2>3. \A g \in connecting : reading'[g] = reading[g]
    BY <1>13 DEF WriteFirstHandler, ReadHeader, ReadFull, ReadCancelled, ClientInv, TypeOK
  <2>4. QED
    BY <2>1, <2>2, <2>3, QuietStep DEF ClosePosted
<1>14. ASSUME NEW h \in Handlers, ReadEnds(h)
       PROVE  ClientInv'
  <2>1. /\ CloseCompleted(h) /\ UNCHANGED <<timer0, posted>>
        /\ \A g \in Handlers \ {h} : reading'[g] = reading[g]
    BY <1>14 DEF ReadEnds, TypeOK
  <2>2. h \in Registered
    BY <1>14 DEF ReadEnds, Registered
  <2>3. QED
    BY <2>1, <2>2, ReplaceStep DEF ClosePosted
<1>15. QED
  BY <1>1, <1>2, <1>3, <1>4, <1>5, <1>6, <1>7, <1>8, <1>9, <1>10, <1>11, <1>12, <1>13,
     <1>14 DEF Next, Step, ConnectHandler, RunTask

\* However its connections end, the client has one connection, one attempt or one
\* wait, or has given up: no second connection is ever made.
THEOREM OneConnectionAlways == SafeSpec => []OneConnection
<1>1. TypeOK /\ ClientInv /\ [Next]_vars => (TypeOK /\ ClientInv)'
  BY TypeStep, ClientInvStep
<1>2. QED
  BY TypeInit, ClientInvInit, ClientInvImplies, <1>1, PTL DEF SafeSpec

-----------------------------------------------------------------------------
(* The raw pointer *)

\* The inductive invariant: the registered handler is also the one handler_ names.
PointerInv == HeartjumpOnLiveHandler /\ Registered \subseteq {handler_}

LEMMA PointerInvInit == Init => PointerInv
BY DEF Init, PointerInv, HeartjumpOnLiveHandler, Registered

\* When the end of a connection or an attempt is reported, no handler is registered.
LEMMA ReplaceEmpties ==
    ASSUME TypeOK, ClientInv, NEW g \in connecting \cup Registered, CloseCompleted(g),
           \A h \in Handlers \ {g} : reading'[h] = reading[h]
    PROVE  Registered' = {}
<1>1. g \in Handlers /\ Registered \ {g} = {}
  BY DEF ClientInv, Idle, Waiting, Connecting, Serving, Registered, TypeOK
<1>2. \A h \in Handlers \ {g} : ~(is_valid_[h] /\ reading[h] # "none")
  BY <1>1 DEF Registered
<1>3. CASE retry_delay_seconds = 0
  <2>1. is_valid_' = [is_valid_ EXCEPT ![g] = FALSE]
    BY <1>3 DEF CloseCompleted, Reconnect
  <2>2. QED
    BY <1>1, <1>2, <2>1 DEF Registered, TypeOK
<1>4. CASE retry_delay_seconds # 0
  <2>1. PICK n \in Handlers : StartConnect(n, {g})
    BY <1>4 DEF CloseCompleted, Reconnect
  <2>2. n # g /\ reading[n] = "none"
    BY <1>1, <2>1 DEF StartConnect, Referenced
  <2>3. \A h \in Handlers : is_valid_'[h] <=> h = n \/ (h # g /\ is_valid_[h])
    BY <2>1 DEF StartConnect
  <2>4. QED
    BY <1>2, <2>2, <2>3 DEF Registered
<1>5. QED
  BY <1>3, <1>4

LEMMA PointerInvStep ==
    TypeOK /\ ClientInv /\ ClientInv' /\ PointerInv /\ [Next]_vars => PointerInv'
<1> SUFFICES ASSUME TypeOK, ClientInv, ClientInv', PointerInv, [Next]_vars
             PROVE  PointerInv'
  OBVIOUS
<1> USE DEF clientVars, authVars, sendVars, envVars
<1>1. ASSUME UNCHANGED <<authVars, crashed, handler_>>, Registered' = Registered
      PROVE  PointerInv'
  BY <1>1 DEF PointerInv, HeartjumpOnLiveHandler
<1>2. ASSUME NEW g \in connecting \cup Registered, CloseCompleted(g),
             \A h \in Handlers \ {g} : reading'[h] = reading[h], UNCHANGED crashed
      PROVE  PointerInv'
  <2>1. Registered' = {}
    BY <1>2, ReplaceEmpties
  <2>2. careless' \/ (~is_authenticate_pass_' /\ ~careless)
    <3>1. PICK keep \in {is_authenticate_pass_, FALSE} :
             is_authenticate_pass_' = keep /\ careless' = (careless \/ keep)
      BY <1>2 DEF CloseCompleted
    <3>2. keep \in BOOLEAN /\ careless \in BOOLEAN
      BY <3>1 DEF TypeOK
    <3>3. QED
      BY <3>1, <3>2
  <2>3. QED
    BY <1>2, <2>1, <2>2 DEF PointerInv, HeartjumpOnLiveHandler
<1>3. CASE ReconnectTimeout
  <2>1. Registered = {} /\ Registered' = {}
    BY <1>3 DEF ReconnectTimeout, StartConnect, ClientInv, Idle, Waiting, Connecting, Serving
  <2>2. QED
    BY <1>1, <1>3, <2>1 DEF ReconnectTimeout
<1>4. CASE SendHeartjump
  <2>1. Registered' = Registered /\ UNCHANGED <<authVars, handler_>>
    BY <1>4 DEF SendHeartjump, Registered
  <2>2. CASE handler_ \in Registered
    <3>1. Referenced(handler_) /\ handler_ \in Handlers
      BY <2>2 DEF Registered, Referenced
    <3>2. UNCHANGED crashed
      BY <1>4, <3>1, Zenon DEF SendHeartjump
    <3>3. QED
      BY <1>1, <2>1, <3>2
  <2>3. CASE careless
    BY <2>1, <2>3 DEF PointerInv, HeartjumpOnLiveHandler
  <2>4. QED
    BY <1>4, <2>2, <2>3 DEF SendHeartjump, PointerInv, HeartjumpOnLiveHandler
<1>5. CASE ServerChanges \/ UNCHANGED vars
  BY <1>1, <1>5 DEF ServerChanges, vars, Registered
<1>6. ASSUME NEW h \in Handlers, NEW pk \in Packages,
             SendData(h, pk) \/ WriteHandler(h, pk) \/ ActiveSend(h, pk) \/ ActiveSendDropped(h, pk)
      PROVE  PointerInv'
  BY <1>1, <1>6 DEF SendData, WriteHandler, ActiveSend, ActiveSendDropped, Registered
<1>7. ASSUME NEW h \in Handlers, Connected(h)
      PROVE  PointerInv'
  <2>1. Connecting(h)
    BY <1>7 DEF Connected, ClientInv, Idle, Waiting, Connecting, Serving
  <2>2. /\ \A g \in Handlers \ {h} : reading'[g] = reading[g]
        /\ handler_' = h /\ UNCHANGED <<authVars, crashed, is_valid_>>
    BY <1>7 DEF Connected, TypeOK
  <2>3. Registered' \subseteq {h}
    BY <2>1, <2>2 DEF Registered, Connecting
  <2>4. careless \/ (~is_authenticate_pass_ /\ ~crashed)
    <3>1. handler_ \notin Registered
      BY <2>1 DEF Connecting
    <3>2. QED
      BY <3>1, Zenon DEF PointerInv, HeartjumpOnLiveHandler
  <2>5. QED
    BY <2>2, <2>3, <2>4 DEF PointerInv, HeartjumpOnLiveHandler
<1>8. ASSUME NEW h \in Handlers, FirstPackageFails(h)
      PROVE  PointerInv'
  BY <1>2, <1>8 DEF FirstPackageFails
<1>9. ASSUME NEW h \in Handlers, Refused(h) \/ ConnectFails(h)
      PROVE  PointerInv'
  <2>1. UNCHANGED <<authVars, crashed, handler_, is_valid_, reading>>
    BY <1>9 DEF Refused, ConnectFails
  <2>2. QED
    BY <1>1, <2>1 DEF Registered
<1>10. ASSUME NEW h \in Handlers, SendClose(h) \/ CloseSocket(h)
       PROVE  PointerInv'
  BY <1>1, <1>10 DEF SendClose, CloseSocket, Registered
<1>11. ASSUME NEW h \in Handlers, ActiveClose(h)
       PROVE  PointerInv'
  <2>1. UNCHANGED <<reading, handler_, crashed>>
    BY <1>11 DEF ActiveClose
  <2>2. CASE is_valid_[h]
    <3>1. CloseCompleted(h)
      BY <1>11, <2>2, Zenon DEF ActiveClose
    <3>2. ClosePosted(h)
      <4>1. posted[h] \in Seq(Packages \cup {"close"}) /\ posted[h] # <<>>
        BY <1>11 DEF ActiveClose, Run, TypeOK
      <4>2. 1 \in 1..Len(posted[h]) /\ posted[h][1] = "close"
        BY <1>11, <4>1 DEF ActiveClose, Run
      <4>3. QED
        BY <4>2 DEF ClosePosted
    <3>3. h \in Registered
      BY <2>2, <3>2 DEF ClientInv
    <3>4. QED
      BY <1>2, <2>1, <3>1, <3>3
  <2>3. CASE ~is_valid_[h]
    <3>1. UNCHANGED <<authVars, is_valid_>>
      BY <1>11, <2>3, Zenon DEF ActiveClose
    <3>2. QED
      BY <1>1, <2>1, <3>1 DEF Registered
  <2>4. QED
    BY <2>2, <2>3
<1>12. ASSUME NEW h \in Handlers,
              WriteFirstHandler(h) \/ ReadHeader(h) \/ ReadCancelled(h)
       PROVE  PointerInv'
  <2>1. UNCHANGED <<authVars, crashed, handler_, is_valid_>>
    BY <1>12 DEF WriteFirstHandler, ReadHeader, ReadCancelled
  <2>2. Registered' = Registered
    BY <1>12, <2>1 DEF WriteFirstHandler, ReadHeader, ReadCancelled, Registered, TypeOK
  <2>3. QED
    BY <1>1, <2>1, <2>2
<1>13. ASSUME NEW h \in Handlers, ReadFull(h)
       PROVE  PointerInv'
  <2>1. h \in Registered
    BY <1>13 DEF ReadFull, Registered
  <2>2. Registered' = Registered
    BY <1>13 DEF ReadFull, Registered, TypeOK
  <2>3. UNCHANGED <<careless, crashed, handler_>>
    BY <1>13 DEF ReadFull
  <2>4. QED
    BY <2>1, <2>2, <2>3 DEF PointerInv, HeartjumpOnLiveHandler
<1>14. ASSUME NEW h \in Handlers, ReadEnds(h)
       PROVE  PointerInv'
  <2>1. h \in Registered /\ CloseCompleted(h) /\ UNCHANGED crashed
    BY <1>14 DEF ReadEnds, Registered
  <2>2. \A g \in Handlers \ {h} : reading'[g] = reading[g]
    BY <1>14 DEF ReadEnds, TypeOK
  <2>3. QED
    BY <1>2, <2>1, <2>2
<1>15. QED
  BY <1>3, <1>4, <1>5, <1>6, <1>7, <1>8, <1>9, <1>10, <1>11, <1>12, <1>13, <1>14
     DEF Next, Step, ConnectHandler, RunTask

\* While close_complete_func takes the authentication back, the raw pointer that
\* the heart-jump timer uses is the connection's handler, never a destroyed one.
THEOREM HeartjumpPointerGood == SafeSpec => []HeartjumpOnLiveHandler
<1>1. TypeOK /\ ClientInv /\ PointerInv /\ [Next]_vars
          => (TypeOK /\ ClientInv /\ PointerInv)'
  BY TypeStep, ClientInvStep, PointerInvStep
<1>2. PointerInv => HeartjumpOnLiveHandler
  BY DEF PointerInv
<1>3. QED
  BY TypeInit, ClientInvInit, PointerInvInit, <1>1, <1>2, PTL DEF SafeSpec
=============================================================================
