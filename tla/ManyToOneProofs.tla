--------------------------- MODULE ManyToOneProofs ---------------------------
(***************************************************************************)
(* Proofs about many_to_one for any number of callers and messages.        *)
(***************************************************************************)
EXTENDS ManyToOne, QueueLemmas, TLAPS

LEMMA MessageFacts ==
    /\ Data \cup ClientExits \subseteq Messages
    /\ DtorExit \in Messages /\ DtorExit \in Exits
    /\ DtorExit \notin Data \cup ClientExits
    /\ Exits \subseteq Messages
    /\ \A m \in Messages : m # NoMessage /\ (m \in Data <=> m \notin Exits)
BY ManyToOneAssumption DEF Messages, Exits

\* svc() holds a message exactly between the pop and the delete.
HandInv ==
    /\ svc = "call" => data_p \in Data
    /\ svc = "free" => data_p \in Messages
    /\ svc \notin {"call", "free", "crashed"} => data_p = NoMessage

TypeInv == TypeOK /\ HandInv

LEMMA TypeInvInit == Init => TypeInv
<1>1. Init => is_thread_exit_ \in BOOLEAN
  BY Zenon DEF Init, ExitFlagInit
<1>2. Init => /\ queue \in Seq(Messages) /\ accepted \in Seq(Messages)
              /\ taken \in Seq(Messages) /\ called \in Seq(Messages)
  BY DEF Init
<1>3. Init => /\ freed \in [Messages -> Nat]
              /\ caller \in [Callers -> {"idle", "notify"}]
  BY DEF Init
<1>4. QED
  BY <1>1, <1>2, <1>3, MessageFacts DEF Init, TypeOK, HandInv, TypeInv

LEMMA TypeInvStep == TypeInv /\ [Next]_vars => TypeInv'
<1> SUFFICES ASSUME TypeInv, [Next]_vars PROVE TypeInv'
  OBVIOUS
<1> USE MessageFacts DEF TypeOK, HandInv, TypeInv
<1>1. ASSUME NEW c \in Callers, NEW m \in unsent, PutAccepted(c, m)
      PROVE  TypeInv'
  BY <1>1 DEF PutAccepted, Push, svcVars
<1>2. ASSUME NEW c \in Callers, NEW m \in unsent, PutRefused(c, m)
      PROVE  TypeInv'
  BY <1>2 DEF PutRefused, Free, svcVars
<1>3. ASSUME NEW c \in Callers, PutNotify(c)
      PROVE  TypeInv'
  BY <1>3 DEF PutNotify, NotifyOne
<1>4. CASE SvcInit
  BY <1>4 DEF SvcInit
<1>5. CASE SvcWait
  BY <1>5 DEF SvcWait
<1>6. CASE SvcPop
  BY <1>6 DEF SvcPop
<1>7. CASE SvcCall
  BY <1>7 DEF SvcCall
<1>8. CASE SvcFree
  BY <1>8 DEF SvcFree, Free
<1>9. CASE SvcDrained \/ SvcReturn \/ SpuriousWake \/ SvcCrash
  BY <1>9 DEF SvcDrained, SvcReturn, SpuriousWake, SvcCrash
<1>10. CASE DtorPut
  BY <1>10 DEF DtorPut, Push, svcVars
<1>11. CASE DtorLeave
  BY <1>11 DEF DtorLeave, Free, svcVars
<1>12. CASE DtorNotify
  BY <1>12 DEF DtorNotify, NotifyOne
<1>13. CASE DtorJoin
  BY <1>13 DEF DtorJoin, svcVars
<1>14. CASE Terminated \/ UNCHANGED vars
  BY <1>14 DEF Terminated, vars
<1>15. QED
  BY <1>1, <1>2, <1>3, <1>4, <1>5, <1>6, <1>7, <1>8, <1>9, <1>10, <1>11,
     <1>12, <1>13, <1>14
     DEF Next, SvcStep

LEMMA TypeInvariant == SafeSpec => []TypeInv
BY TypeInvInit, TypeInvStep, PTL DEF SafeSpec

\* Every variable of the service thread, the callers and the destructor keeps
\* its type, whatever the interleaving.
THEOREM TypeCorrect == SafeSpec => []TypeOK
BY TypeInvariant, PTL DEF TypeInv
-----------------------------------------------------------------------------
(* Order of delivery, and the promise of TaskQueue *)

LEMMA FifoStep == TypeInv /\ FifoDelivery /\ [Next]_vars => FifoDelivery'
<1> SUFFICES ASSUME TypeInv, FifoDelivery, [Next]_vars PROVE FifoDelivery'
  OBVIOUS
<1> USE MessageFacts DEF TypeInv, TypeOK, FifoDelivery
<1>1. ASSUME NEW m \in Messages, Push(m), UNCHANGED taken
      PROVE  FifoDelivery'
  <2>1. Append(taken \o queue, m) = taken \o Append(queue, m)
    BY PushAppends
  <2>2. QED
    BY <1>1, <2>1 DEF Push
<1>2. CASE SvcPop
  <2>1. queue # <<>>
    BY <1>2 DEF SvcPop
  <2> HIDE MessageFacts
  <2>2. Append(taken, Head(queue)) \o Tail(queue) = taken \o queue
    <3>1. queue \in Seq(Messages) /\ taken \in Seq(Messages)
      OBVIOUS
    <3> HIDE DEF TypeOK, TypeInv
    <3>2. QED
      BY <2>1, <3>1, PopMoves
  <2>3. QED
    BY <1>2, <2>2 DEF SvcPop
<1>3. CASE UNCHANGED <<queue, accepted, taken>>
  BY <1>3
<1>4. ASSUME NEW c \in Callers, NEW m \in unsent, PutAccepted(c, m)
      PROVE  FifoDelivery'
  BY <1>4, <1>1 DEF PutAccepted, svcVars
<1>5. CASE DtorPut
  BY <1>5, <1>1 DEF DtorPut, svcVars
<1>6. ASSUME NEW c \in Callers, NEW m \in unsent, PutRefused(c, m)
      PROVE  FifoDelivery'
  BY <1>6, <1>3 DEF PutRefused, svcVars
<1>7. ASSUME NEW c \in Callers, PutNotify(c)
      PROVE  FifoDelivery'
  BY <1>7, <1>3 DEF PutNotify
<1>8. CASE \/ SvcInit \/ SvcWait \/ SvcCall \/ SvcFree \/ SvcDrained \/ SvcReturn
           \/ SpuriousWake \/ SvcCrash
  BY <1>8, <1>3 DEF SvcInit, SvcWait, SvcCall, SvcFree, SvcDrained, SvcReturn,
     SpuriousWake, SvcCrash
<1>9. CASE DtorLeave \/ DtorNotify \/ DtorJoin
  BY <1>9, <1>3 DEF DtorLeave, DtorNotify, DtorJoin, svcVars
<1>10. CASE Terminated \/ UNCHANGED vars
  BY <1>10, <1>3 DEF Terminated, vars
<1>11. QED
  BY <1>2, <1>4, <1>5, <1>6, <1>7, <1>8, <1>9, <1>10 DEF Next, SvcStep

\* For any callers and messages: what was taken followed by what is queued is
\* what put() accepted, in the order in which it accepted it.
THEOREM Fifo == SafeSpec => []FifoDelivery
<1>1. Init => FifoDelivery
  BY DEF Init, FifoDelivery
<1>2. QED
  BY <1>1, FifoStep, TypeInvariant, PTL DEF SafeSpec

\* many_to_one implements the task queue with one service thread, as far as
\* safety goes: every step is a Put, a Take or a stutter of TaskQueue.
THEOREM TaskQueueRefinement == SafeSpec => Queue!SafeSpec
<1>1. Init => Queue!Init
  BY DEF Init, ExitFlagInit, ActiveThreads, Queue!Init
<1>2. TypeInv /\ FifoDelivery /\ [Next]_vars => [Queue!Next]_(Queue!vars)
  <2> SUFFICES ASSUME TypeInv, FifoDelivery, [Next]_vars
               PROVE  [Queue!Next]_(Queue!vars)
    OBVIOUS
  <2> USE MessageFacts DEF TypeInv, TypeOK, FifoDelivery, Queue!vars
  <2>1. ASSUME NEW m \in Messages, Push(m), UNCHANGED <<taken, is_thread_exit_>>
        PROVE  Queue!Next
    BY <2>1 DEF Push, Queue!Next, Queue!Put, Messages, ActiveThreads
  <2>2. CASE SvcPop
    <3>1. queue # <<>>
      BY <2>2 DEF SvcPop
    <3>2. Len(taken) < Len(accepted) /\ accepted[Len(taken) + 1] = Head(queue)
      <4>1. queue \in Seq(Messages) /\ taken \in Seq(Messages)
        OBVIOUS
      <4>2. accepted = taken \o queue
        OBVIOUS
      <4> HIDE MessageFacts DEF TypeOK, TypeInv, FifoDelivery
      <4>3. Len(taken) < Len(taken \o queue) /\ (taken \o queue)[Len(taken) + 1] = Head(queue)
        BY <3>1, <4>1, PopMoves
      <4>4. QED
        BY <4>2, <4>3
    <3>3. taken' = Append(taken, Head(queue)) /\ UNCHANGED accepted
      BY <2>2 DEF SvcPop
    <3>4. ActiveThreads' = IF Head(queue) \in Exits /\ ActiveThreads > 0
                             THEN ActiveThreads - 1 ELSE ActiveThreads
      <4>1. is_thread_exit_' <=> (is_thread_exit_ \/ Head(queue) \in Exits)
        BY <2>2 DEF SvcPop
      <4>2. CASE is_thread_exit_
        BY <4>1, <4>2 DEF ActiveThreads
      <4>3. CASE ~is_thread_exit_ /\ Head(queue) \in Exits
        BY <4>1, <4>3 DEF ActiveThreads
      <4>4. CASE ~is_thread_exit_ /\ Head(queue) \notin Exits
        BY <4>1, <4>4 DEF ActiveThreads
      <4>5. QED
        BY <4>2, <4>3, <4>4
    <3>5. Queue!Take
      BY <3>2, <3>3, <3>4 DEF Queue!Take
    <3>6. QED
      BY <3>5 DEF Queue!Next
  <2>3. CASE UNCHANGED <<accepted, taken, is_thread_exit_>>
    BY <2>3 DEF ActiveThreads
  <2>4. ASSUME NEW c \in Callers, NEW m \in unsent, PutAccepted(c, m)
        PROVE  Queue!Next
    BY <2>4, <2>1 DEF PutAccepted, svcVars
  <2>5. CASE DtorPut
    BY <2>5, <2>1 DEF DtorPut, svcVars
  <2>6. ASSUME NEW c \in Callers, NEW m \in unsent, PutRefused(c, m)
        PROVE  UNCHANGED <<accepted, taken, is_thread_exit_>>
    BY <2>6 DEF PutRefused, svcVars
  <2>7. ASSUME NEW c \in Callers, PutNotify(c)
        PROVE  UNCHANGED <<accepted, taken, is_thread_exit_>>
    BY <2>7 DEF PutNotify
  <2>8. CASE \/ SvcInit \/ SvcWait \/ SvcCall \/ SvcFree \/ SvcDrained
             \/ SvcReturn \/ SpuriousWake \/ SvcCrash
    BY <2>8, <2>3 DEF SvcInit, SvcWait, SvcCall, SvcFree, SvcDrained, SvcReturn,
       SpuriousWake, SvcCrash
  <2>9. CASE DtorLeave \/ DtorNotify \/ DtorJoin
    BY <2>9, <2>3 DEF DtorLeave, DtorNotify, DtorJoin, svcVars
  <2>10. CASE Terminated \/ UNCHANGED vars
    BY <2>10, <2>3 DEF Terminated, vars
  <2>11. QED
    BY <2>2, <2>3, <2>4, <2>5, <2>6, <2>7, <2>8, <2>9, <2>10 DEF Next, SvcStep
<1>3. QED
  BY <1>1, <1>2, Fifo, TypeInvariant, PTL DEF SafeSpec, Queue!SafeSpec

-----------------------------------------------------------------------------
(* Wakeups *)

LEMMA WakeupStep == TypeInv /\ NoLostWakeup /\ [Next]_vars => NoLostWakeup'
<1> SUFFICES ASSUME TypeInv, NoLostWakeup, [Next]_vars PROVE NoLostWakeup'
  OBVIOUS
<1> USE DEF TypeInv, TypeOK, NoLostWakeup
<1>1. ASSUME NEW c \in Callers, NEW m \in unsent, PutAccepted(c, m)
      PROVE  NoLostWakeup'
  BY <1>1 DEF PutAccepted
<1>2. ASSUME NEW c \in Callers, NEW m \in unsent, PutRefused(c, m)
      PROVE  NoLostWakeup'
  BY <1>2 DEF PutRefused, svcVars
<1>3. ASSUME NEW c \in Callers, PutNotify(c)
      PROVE  NoLostWakeup'
  BY <1>3 DEF PutNotify, NotifyOne
<1>4. CASE SvcWait
  BY <1>4 DEF SvcWait
<1>5. CASE \/ SvcInit \/ SvcPop \/ SvcCall \/ SvcFree \/ SvcDrained
           \/ SvcReturn \/ SpuriousWake \/ SvcCrash
  BY <1>5 DEF SvcInit, SvcPop, SvcCall, SvcFree, SvcDrained, SvcReturn,
     SpuriousWake, SvcCrash
<1>6. CASE DtorPut
  BY <1>6 DEF DtorPut
<1>7. CASE DtorNotify
  BY <1>7 DEF DtorNotify, NotifyOne
<1>8. CASE DtorLeave
  BY <1>8 DEF DtorLeave, svcVars
<1>9. CASE DtorJoin
  BY <1>9 DEF DtorJoin, svcVars
<1>10. CASE Terminated \/ UNCHANGED vars
  BY <1>10 DEF Terminated, vars
<1>11. QED
  BY <1>1, <1>2, <1>3, <1>4, <1>5, <1>6, <1>7, <1>8, <1>9, <1>10
     DEF Next, SvcStep

\* The service thread never sleeps beside a queued message with nobody left to
\* wake it, for any number of callers.
THEOREM NoWakeupIsLost == SafeSpec => []NoLostWakeup
<1>1. Init => NoLostWakeup
  BY DEF Init, NoLostWakeup
<1>2. QED
  BY <1>1, WakeupStep, TypeInvariant, PTL DEF SafeSpec

-----------------------------------------------------------------------------
(* Ownership of messages *)

\* A message is in one place: with its caller, in the queue, in the hands of
\* svc(), or deleted. The destructor's message exists only after it was allocated.
OwnInv ==
    /\ \A j, k \in 1..Len(queue) : queue[j] = queue[k] => j = k
    /\ \A k \in 1..Len(queue) : queue[k] # data_p /\ queue[k] \notin unsent
    /\ data_p \notin unsent
    /\ dtor = "alive" => /\ freed[DtorExit] = 0
                         /\ data_p # DtorExit
                         /\ \A k \in 1..Len(queue) : queue[k] # DtorExit
    /\ \A m \in Messages :
         /\ freed[m] \in {0, 1}
         /\ freed[m] = 1 => /\ m # data_p /\ m \notin unsent
                            /\ \A k \in 1..Len(queue) : queue[k] # m

LEMMA OwnPush ==
    ASSUME TypeInv, OwnInv, NEW m \in Messages, Push(m),
           m # data_p, freed[m] = 0, \A k \in 1..Len(queue) : queue[k] # m,
           UNCHANGED <<data_p, freed>>, unsent' \subseteq unsent, m \notin unsent',
           dtor' # "alive" \/ (dtor = "alive" /\ m # DtorExit)
    PROVE  OwnInv'
<1>1. /\ queue' \in Seq(Messages) /\ Len(queue') = Len(queue) + 1
      /\ \A k \in 1..Len(queue) : queue'[k] = queue[k]
      /\ queue'[Len(queue) + 1] = m
      /\ Len(queue) \in Nat
  <2>1. queue \in Seq(Messages)
    BY DEF TypeInv, TypeOK
  <2>2. QED
    BY <2>1, AppendProperties, LenProperties DEF Push
<1>2. \A k \in 1..Len(queue') : k \in 1..Len(queue) \/ k = Len(queue) + 1
  BY <1>1
<1>3. \A j, k \in 1..Len(queue') : queue'[j] = queue'[k] => j = k
  BY <1>1, <1>2 DEF OwnInv
<1>4. \A k \in 1..Len(queue') : queue'[k] # data_p /\ queue'[k] \notin unsent'
  BY <1>1, <1>2 DEF OwnInv
<1>5. dtor' = "alive" => /\ freed[DtorExit] = 0
                         /\ data_p # DtorExit
                         /\ \A k \in 1..Len(queue') : queue'[k] # DtorExit
  BY <1>1, <1>2 DEF OwnInv
<1>6. ASSUME NEW n \in Messages
      PROVE  /\ freed[n] \in {0, 1}
             /\ freed[n] = 1 => /\ n # data_p /\ n \notin unsent'
                                /\ \A k \in 1..Len(queue') : queue'[k] # n
  BY <1>1, <1>2 DEF OwnInv
<1>7. QED
  BY <1>3, <1>4, <1>5, <1>6 DEF OwnInv

LEMMA OwnPop == TypeInv /\ OwnInv /\ SvcPop => OwnInv'
<1> SUFFICES ASSUME TypeInv, OwnInv, SvcPop PROVE OwnInv'
  OBVIOUS
<1>1. queue \in Seq(Messages) /\ queue # <<>>
  BY DEF TypeInv, TypeOK, SvcPop
<1>2. /\ Len(queue) \in Nat \ {0} /\ Head(queue) = queue[1]
      /\ Len(Tail(queue)) = Len(queue) - 1
      /\ \A k \in 1..Len(Tail(queue)) : Tail(queue)[k] = queue[k + 1]
  BY <1>1, HeadTailProperties, EmptySeq
<1>3. /\ queue' = Tail(queue) /\ data_p' = queue[1]
      /\ UNCHANGED <<unsent, dtor, freed>>
  BY <1>2 DEF SvcPop
<1>4. \A k \in 1..Len(queue') : k + 1 \in 1..Len(queue) /\ queue'[k] = queue[k + 1] /\ k + 1 # 1
  BY <1>2, <1>3
<1>5. 1 \in 1..Len(queue)
  BY <1>2
<1>6. \A j, k \in 1..Len(queue') : queue'[j] = queue'[k] => j = k
  BY <1>4 DEF OwnInv
<1>7. \A k \in 1..Len(queue') : queue'[k] # data_p' /\ queue'[k] \notin unsent
  BY <1>3, <1>4, <1>5 DEF OwnInv
<1>8. QED
  BY <1>3, <1>4, <1>5, <1>6, <1>7 DEF OwnInv

LEMMA OwnStep == TypeInv /\ OwnInv /\ [Next]_vars => OwnInv'
<1> SUFFICES ASSUME TypeInv, OwnInv, [Next]_vars PROVE OwnInv'
  OBVIOUS
<1>1. freed \in [Messages -> Nat] /\ unsent \subseteq Data \cup ClientExits
  BY DEF TypeInv, TypeOK
<1>2. ASSUME NEW c \in Callers, NEW m \in unsent, PutAccepted(c, m)
      PROVE  OwnInv'
  <2>1. m \in Messages /\ m # DtorExit /\ m # data_p /\ m \notin unsent'
    BY <1>1, <1>2, MessageFacts DEF OwnInv, PutAccepted
  <2>2. freed[m] = 0 /\ \A k \in 1..Len(queue) : queue[k] # m
    BY <2>1 DEF OwnInv
  <2>3. /\ Push(m) /\ UNCHANGED <<data_p, freed, dtor>> /\ unsent' \subseteq unsent
        /\ dtor = "alive"
    BY <1>2 DEF PutAccepted, svcVars
  <2>4. QED
    BY <2>1, <2>2, <2>3, OwnPush
<1>3. ASSUME NEW c \in Callers, NEW m \in unsent, PutRefused(c, m)
      PROVE  OwnInv'
  <2>1. m \in Messages /\ m # DtorExit /\ freed[m] = 0
    BY <1>1, MessageFacts DEF OwnInv
  <2>2. /\ unsent' = unsent \ {m} /\ freed' = [freed EXCEPT ![m] = @ + 1]
        /\ UNCHANGED <<queue, data_p, dtor>>
    BY <1>3 DEF PutRefused, Free, svcVars
  <2>3. freed'[m] = 1 /\ \A n \in Messages : n # m => freed'[n] = freed[n]
    BY <2>1, <2>2, <1>1
  <2>4. m # data_p /\ \A k \in 1..Len(queue) : queue[k] # m
    BY DEF OwnInv
  <2>5. QED
    BY <2>1, <2>2, <2>3, <2>4, MessageFacts DEF OwnInv
<1>4. ASSUME NEW c \in Callers, PutNotify(c)
      PROVE  OwnInv'
  BY <1>4 DEF PutNotify, OwnInv
<1>5. CASE SvcPop
  BY <1>5, OwnPop
<1>6. CASE SvcFree
  <2>1. /\ data_p \in Messages /\ data_p # NoMessage
        /\ data_p' = NoMessage /\ freed' = [freed EXCEPT ![data_p] = @ + 1]
        /\ UNCHANGED <<queue, unsent, dtor>>
    BY <1>6, MessageFacts DEF SvcFree, Free, TypeInv, HandInv
  <2>2. freed[data_p] = 0
    BY <2>1 DEF OwnInv
  <2>3. freed'[data_p] = 1 /\ \A n \in Messages : n # data_p => freed'[n] = freed[n]
    BY <2>1, <2>2, <1>1
  <2>4. NoMessage \notin unsent /\ NoMessage \notin Messages
    BY <1>1, MessageFacts
  <2>5. \A k \in 1..Len(queue) : queue[k] # NoMessage
    BY <2>4, ElementOfSeq DEF TypeInv, TypeOK
  <2>6. QED
    BY <2>1, <2>2, <2>3, <2>4, <2>5, MessageFacts DEF OwnInv
<1>7. CASE \/ SvcInit \/ SvcWait \/ SvcCall \/ SvcDrained \/ SvcReturn
           \/ SpuriousWake \/ SvcCrash
  BY <1>7 DEF SvcInit, SvcWait, SvcCall, SvcDrained, SvcReturn, SpuriousWake,
     SvcCrash, OwnInv
<1>8. CASE DtorPut
  <2>1. /\ Push(DtorExit) /\ UNCHANGED <<data_p, freed, unsent>>
        /\ dtor' # "alive" /\ dtor = "alive"
    BY <1>8 DEF DtorPut, svcVars
  <2>2. /\ freed[DtorExit] = 0 /\ data_p # DtorExit
        /\ \A k \in 1..Len(queue) : queue[k] # DtorExit
    BY <2>1 DEF OwnInv
  <2>3. DtorExit \notin unsent' /\ unsent' \subseteq unsent
    BY <1>1, <2>1, MessageFacts
  <2>4. QED
    BY <2>1, <2>2, <2>3, OwnPush, MessageFacts
<1>9. CASE DtorLeave
  <2>1. /\ freed' = [freed EXCEPT ![DtorExit] = @ + 1] /\ dtor' = "left"
        /\ UNCHANGED <<queue, unsent, data_p>> /\ dtor = "alive"
    BY <1>9 DEF DtorLeave, Free, svcVars
  <2>2. freed'[DtorExit] = 1 /\ \A n \in Messages : n # DtorExit => freed'[n] = freed[n]
    BY <2>1, <1>1, MessageFacts DEF OwnInv
  <2>3. DtorExit \notin unsent
    BY <1>1, MessageFacts
  <2>4. QED
    BY <2>1, <2>2, <2>3 DEF OwnInv
<1>10. CASE DtorNotify
  BY <1>10 DEF DtorNotify, OwnInv
<1>11. CASE DtorJoin
  BY <1>11 DEF DtorJoin, svcVars, OwnInv
<1>12. CASE Terminated \/ UNCHANGED vars
  BY <1>12 DEF Terminated, vars, OwnInv
<1>13. QED
  BY <1>2, <1>3, <1>4, <1>5, <1>6, <1>7, <1>8, <1>9, <1>10, <1>11, <1>12
     DEF Next, SvcStep

LEMMA OwnInvariant == SafeSpec => []OwnInv
<1>1. Init => OwnInv
  BY MessageFacts DEF Init, OwnInv
<1>2. QED
  BY <1>1, OwnStep, TypeInvariant, PTL DEF SafeSpec

\* No message is deleted twice or while it is still queued or handled, whoever
\* deletes it: a refused caller, the service thread or the destructor.
THEOREM NoDoubleFree == SafeSpec => []FreedOnce
<1>1. OwnInv => FreedOnce
  BY DEF OwnInv, FreedOnce
<1>2. QED
  BY <1>1, OwnInvariant, PTL

-----------------------------------------------------------------------------
(* What a joining destructor leaves behind *)

Handled == {called[j] : j \in 1..Len(called)}

DrainInv ==
    /\ svc \in {"f2", "done"} => queue = <<>> /\ is_thread_exit_
    /\ dtor = "joined" => svc = "done"
    /\ svc # "crashed" =>
         \A k \in 1..Len(taken) :
            /\ freed[taken[k]] = 1 \/ taken[k] = data_p
            /\ taken[k] \in Data => taken[k] \in Handled \/ (taken[k] = data_p /\ svc = "call")

LEMMA DrainStep == TypeInv /\ OwnInv /\ DrainInv /\ [Next]_vars => DrainInv'
<1> SUFFICES ASSUME TypeInv, OwnInv, DrainInv, [Next]_vars PROVE DrainInv'
  OBVIOUS
<1>1. /\ freed \in [Messages -> Nat] /\ unsent \subseteq Data \cup ClientExits
      /\ taken \in Seq(Messages) /\ called \in Seq(Messages)
      /\ \A k \in 1..Len(taken) : taken[k] \in Messages
  BY ElementOfSeq DEF TypeInv, TypeOK
<1>2. ASSUME NEW m \in Messages, freed' = [freed EXCEPT ![m] = @ + 1]
      PROVE  \A n \in Messages : freed[n] = 1 /\ freed[m] = 0 => freed'[n] = 1
  BY <1>1, <1>2
<1>3. ASSUME NEW c \in Callers, NEW m \in unsent, PutAccepted(c, m)
      PROVE  DrainInv'
  BY <1>3 DEF PutAccepted, Push, svcVars, DrainInv, Handled, MutexFree
<1>4. ASSUME NEW c \in Callers, NEW m \in unsent, PutRefused(c, m)
      PROVE  DrainInv'
  <2>1. m \in Messages /\ freed[m] = 0
    BY <1>1, MessageFacts DEF OwnInv
  <2>2. \A k \in 1..Len(taken) : freed[taken[k]] = 1 => freed'[taken[k]] = 1
    BY <1>1, <1>2, <1>4, <2>1 DEF PutRefused, Free
  <2>3. UNCHANGED <<queue, is_thread_exit_, svc, data_p, taken, called, dtor>>
    BY <1>4 DEF PutRefused, svcVars
  <2>4. QED
    BY <2>2, <2>3 DEF DrainInv, Handled
<1>5. ASSUME NEW c \in Callers, PutNotify(c)
      PROVE  DrainInv'
  BY <1>5 DEF PutNotify, NotifyOne, DrainInv, Handled
<1>6. CASE SvcPop
  <2>1. queue \in Seq(Messages) /\ queue # <<>> /\ svc = "top" /\ dtor # "joined"
    BY <1>6 DEF SvcPop, TypeInv, TypeOK, DrainInv
  <2>2. Head(queue) \in Messages
    BY <2>1, HeadTailProperties
  <2>3. /\ Len(taken') = Len(taken) + 1 /\ Len(taken) \in Nat
        /\ \A k \in 1..Len(taken) : taken'[k] = taken[k]
        /\ taken'[Len(taken) + 1] = Head(queue)
    BY <1>1, <1>6, <2>2, AppendProperties, LenProperties DEF SvcPop
  <2>4. /\ data_p = NoMessage /\ data_p' = Head(queue) /\ UNCHANGED <<freed, called, dtor>>
        /\ svc' = (IF Head(queue) \in Exits THEN "free" ELSE "call")
    BY <1>6, <2>1 DEF SvcPop, TypeInv, HandInv
  <2>5. ASSUME NEW k \in 1..Len(taken')
        PROVE  (/\ freed[taken[k]] = 1 \/ taken[k] = data_p
                /\ taken[k] \in Data =>
                     taken[k] \in Handled \/ (taken[k] = data_p /\ svc = "call"))'
    <3>1. CASE k \in 1..Len(taken)
      <4>1. taken[k] # NoMessage
        BY <3>1, <1>1, MessageFacts
      <4>2. /\ freed[taken[k]] = 1
            /\ taken[k] \in Data => taken[k] \in Handled
        BY <3>1, <4>1, <2>1, <2>4 DEF DrainInv
      <4>3. taken'[k] = taken[k] /\ UNCHANGED <<freed, Handled>>
        BY <3>1, <2>3, <2>4 DEF Handled
      <4>4. QED
        BY <4>2, <4>3
    <3>2. CASE k = Len(taken) + 1
      BY <3>2, <2>2, <2>3, <2>4, MessageFacts
    <3>3. QED
      BY <3>1, <3>2, <2>3
  <2>6. svc' \notin {"f2", "done"} /\ dtor' # "joined"
    BY <2>1, <2>4
  <2>7. QED
    BY <2>5, <2>6 DEF DrainInv
<1>7. CASE SvcCall
  <2>1. /\ svc = "call" /\ svc' = "free" /\ data_p \in Messages
        /\ called' = Append(called, data_p)
        /\ UNCHANGED <<queue, is_thread_exit_, data_p, dtor, taken, freed>>
    BY <1>7, MessageFacts DEF SvcCall, TypeInv, HandInv
  <2>2. /\ Len(called') = Len(called) + 1 /\ Len(called) \in Nat
        /\ \A k \in 1..Len(called) : called'[k] = called[k]
        /\ called'[Len(called) + 1] = data_p
    BY <1>1, <2>1, AppendProperties, LenProperties
  <2>3. Handled \subseteq Handled' /\ data_p \in Handled'
    BY <2>2 DEF Handled
  <2>4. QED
    BY <2>1, <2>3 DEF DrainInv
<1>8. CASE SvcFree
  <2>1. /\ data_p \in Messages /\ svc = "free" /\ svc' = "top"
        /\ freed' = [freed EXCEPT ![data_p] = @ + 1]
        /\ UNCHANGED <<queue, is_thread_exit_, dtor, taken, called>>
    BY <1>8 DEF SvcFree, Free, TypeInv, HandInv
  <2>2. freed[data_p] = 0
    BY <2>1 DEF OwnInv
  <2>3. freed'[data_p] = 1 /\ \A n \in Messages : freed[n] = 1 => freed'[n] = 1
    BY <2>1, <2>2, <1>1, <1>2
  <2>4. QED
    BY <2>1, <2>3, <1>1 DEF DrainInv, Handled
<1>9. CASE \/ SvcInit \/ SvcWait \/ SvcDrained \/ SvcReturn \/ SpuriousWake \/ SvcCrash
  BY <1>9 DEF SvcInit, SvcWait, SvcDrained, SvcReturn, SpuriousWake, SvcCrash,
     DrainInv, Handled
<1>10. CASE DtorPut
  BY <1>10 DEF DtorPut, Push, svcVars, DrainInv, Handled, MutexFree
<1>11. CASE DtorLeave
  <2>1. freed[DtorExit] = 0 /\ DtorExit \in Messages
    BY <1>11, MessageFacts DEF DtorLeave, OwnInv
  <2>2. \A k \in 1..Len(taken) : freed[taken[k]] = 1 => freed'[taken[k]] = 1
    BY <1>1, <1>2, <1>11, <2>1 DEF DtorLeave, Free
  <2>3. /\ UNCHANGED <<queue, is_thread_exit_, svc, data_p, taken, called>>
        /\ dtor' = "left"
    BY <1>11 DEF DtorLeave, svcVars
  <2>4. QED
    BY <2>2, <2>3 DEF DrainInv, Handled
<1>12. CASE DtorNotify
  BY <1>12 DEF DtorNotify, NotifyOne, DrainInv, Handled
<1>13. CASE DtorJoin
  BY <1>13 DEF DtorJoin, svcVars, DrainInv, Handled
<1>14. CASE Terminated \/ UNCHANGED vars
  BY <1>14 DEF Terminated, vars, DrainInv, Handled
<1>15. QED
  BY <1>3, <1>4, <1>5, <1>6, <1>7, <1>8, <1>9, <1>10, <1>11, <1>12, <1>13, <1>14
     DEF Next, SvcStep

\* A destructor that joined the thread leaves no accepted message unhandled or
\* undeleted, however many callers raced with it before.
THEOREM JoinedDestructorDrains == SafeSpec => []JoinedMeansDrained
<1>1. Init => DrainInv
  BY DEF Init, DrainInv
<1>2. TypeInv /\ FifoDelivery /\ DrainInv => JoinedMeansDrained
  <2> SUFFICES ASSUME TypeInv, FifoDelivery, DrainInv, dtor = "joined"
               PROVE  JoinedMeansDrained
    BY DEF JoinedMeansDrained
  <2>1. svc = "done" /\ queue = <<>> /\ data_p = NoMessage
    BY DEF DrainInv, TypeInv, HandInv
  <2>2. taken \in Seq(Messages)
    BY DEF TypeInv, TypeOK
  <2>3. accepted = taken
    BY <2>1, <2>2, ConcatEmptySeq DEF FifoDelivery
  <2>4. \A k \in 1..Len(taken) : taken[k] # NoMessage
    BY <2>2, ElementOfSeq, MessageFacts
  <2>5. QED
    BY <2>1, <2>3, <2>4 DEF DrainInv, Handled, JoinedMeansDrained
<1>3. QED
  BY <1>1, <1>2, DrainStep, OwnInvariant, Fifo, TypeInvariant, PTL DEF SafeSpec

-----------------------------------------------------------------------------
(* When the destructor does block *)

\* Without exit messages of the callers only the destructor raises the flag.
SoleExitInv ==
    /\ dtor = "alive" => ~is_thread_exit_
    /\ dtor # "left"

LEMMA SoleExitStep ==
    ASSUME ClientExits = {}, TypeInv, OwnInv, SoleExitInv, [Next]_vars
    PROVE  SoleExitInv'
<1> USE DEF SoleExitInv
<1>1. ASSUME NEW c \in Callers, NEW m \in unsent, PutAccepted(c, m) \/ PutRefused(c, m)
      PROVE  SoleExitInv'
  BY <1>1 DEF PutAccepted, PutRefused
<1>2. ASSUME NEW c \in Callers, PutNotify(c)
      PROVE  SoleExitInv'
  BY <1>2 DEF PutNotify
<1>3. CASE SvcPop
  <2>1. queue \in Seq(Messages) /\ queue # <<>> /\ UNCHANGED dtor
    BY <1>3 DEF SvcPop, TypeInv, TypeOK
  <2>2. Head(queue) = queue[1] /\ 1 \in 1..Len(queue)
    BY <2>1, EmptySeq
  <2>3. dtor = "alive" => Head(queue) \notin Exits
    BY <2>2 DEF OwnInv, Exits
  <2>4. is_thread_exit_' <=> is_thread_exit_ \/ Head(queue) \in Exits
    BY <1>3 DEF SvcPop
  <2>5. QED
    BY <2>1, <2>3, <2>4
<1>4. CASE \/ SvcInit \/ SvcWait \/ SvcCall \/ SvcFree \/ SvcDrained \/ SvcReturn
           \/ SpuriousWake \/ SvcCrash
  BY <1>4 DEF SvcInit, SvcWait, SvcCall, SvcFree, SvcDrained, SvcReturn,
     SpuriousWake, SvcCrash
<1>5. CASE DtorPut \/ DtorNotify \/ DtorJoin \/ DtorLeave
  BY <1>5 DEF DtorPut, DtorNotify, DtorJoin, DtorLeave
<1>6. CASE Terminated \/ UNCHANGED vars
  BY <1>6 DEF Terminated, vars
<1>7. QED
  BY <1>1, <1>2, <1>3, <1>4, <1>5, <1>6 DEF Next, SvcStep

\* The destructor blocks until the service thread has returned provided that no
\* caller ever puts an exit message of its own. (With such callers it does not:
\* the run many_to_one_dtor.)
THEOREM DestructorBlocks ==
    ASSUME ClientExits = {}
    PROVE  SafeSpec => []DtorBlocksUntilExit
<1>1. Init => SoleExitInv /\ DrainInv
  BY DEF Init, ExitFlagInit, SoleExitInv, DrainInv
<1>2. TypeInv /\ OwnInv /\ SoleExitInv /\ [Next]_vars => SoleExitInv'
  BY SoleExitStep
<1>3. SoleExitInv /\ DrainInv => DtorBlocksUntilExit
  BY DEF SoleExitInv, DrainInv, DtorBlocksUntilExit
<1>4. QED
  BY <1>1, <1>2, <1>3, DrainStep, OwnInvariant, TypeInvariant, PTL DEF SafeSpec
=============================================================================
