--------------------------- MODULE ManyToManyProofs --------------------------
(***************************************************************************)
(* Proofs about many_to_many for any number of service threads, callers    *)
(* and messages.                                                           *)
(***************************************************************************)
EXTENDS ManyToMany, QueueLemmas, FiniteSetTheorems, TLAPS

LEMMA MessageFacts ==
    /\ Data \cup ClientExits \subseteq Messages
    /\ DtorExit \in Messages /\ DtorExit \in Exits
    /\ DtorExit \notin Data \cup ClientExits
    /\ Exits \subseteq Messages
    /\ \A m \in Messages : m # NoMessage /\ (m \in Data <=> m \notin Exits)
BY ManyToManyAssumption DEF Messages, Exits

\* A thread has a message in hand exactly between the pop and the delete.
HandInv ==
    \A t \in Threads :
        /\ svc[t] \in {"call", "free"} => data_p[t] \in Data
        /\ svc[t] \notin {"call", "free", "crashed"} => data_p[t] = NoMessage

\* thread_active_num_ without its sign, which CountInv settles.
PreTypeOK ==
    /\ queue \in Seq(Messages)
    /\ is_thread_exit_ \in BOOLEAN
    /\ thread_active_num_ \in Int
    /\ svc \in [Threads -> {"init", "top", "wait", "call", "free", "f2", "done",
                            "crashed"}]
    /\ data_p \in [Threads -> Messages \cup {NoMessage}]
    /\ caller \in [Callers -> {"idle", "notify"}]
    /\ unsent \subseteq Data \cup ClientExits
    /\ dtor \in {"alive", "check", "put", "notify", "join", "joined", "left"}
    /\ i \in Nat /\ suc \in {-1, 0}
    /\ accepted \in Seq(Messages)
    /\ taken \in Seq(Messages)
    /\ calls \in [Data -> Nat]
    /\ freed \in [Messages -> Nat]

TypeInv == PreTypeOK /\ HandInv

LEMMA TypeInvInit == Init => TypeInv
<1>1. Init => is_thread_exit_ \in BOOLEAN
  BY Zenon DEF Init
<1>2. Init => thread_active_num_ \in Int
  BY FS_CardinalityType, ManyToManyAssumption DEF Init
<1>3. Init => queue \in Seq(Messages) /\ accepted \in Seq(Messages) /\ taken \in Seq(Messages)
  BY DEF Init
<1>4. Init => calls \in [Data -> Nat] /\ freed \in [Messages -> Nat]
  BY DEF Init
<1>5. QED
  BY <1>1, <1>2, <1>3, <1>4 DEF Init, PreTypeOK, HandInv, TypeInv

LEMMA TypeInvStep == TypeInv /\ [Next]_vars => TypeInv'
<1> SUFFICES ASSUME TypeInv, [Next]_vars PROVE TypeInv'
  OBVIOUS
<1> USE MessageFacts DEF PreTypeOK, HandInv, TypeInv, Goto, LeaveLoop, flagVars, dtorVars
<1>1. ASSUME NEW c \in Callers, NEW m \in unsent, PutAccepted(c, m)
      PROVE  TypeInv'
  BY <1>1 DEF PutAccepted, Push
<1>2. ASSUME NEW c \in Callers, NEW m \in unsent, PutRefused(c, m)
      PROVE  TypeInv'
  BY <1>2 DEF PutRefused, Free
<1>3. ASSUME NEW c \in Callers, PutNotify(c)
      PROVE  TypeInv'
  BY <1>3 DEF PutNotify, NotifyAll
<1>4. ASSUME NEW t \in Threads,
             SvcInit(t) \/ SvcWait(t) \/ SpuriousWake(t) \/ SvcReturn(t) \/ SvcCrash(t)
      PROVE  TypeInv'
  BY <1>4 DEF SvcInit, SvcWait, SpuriousWake, SvcReturn, SvcCrash
<1>5. ASSUME NEW t \in Threads, SvcPopData(t)
      PROVE  TypeInv'
  BY <1>5 DEF SvcPopData, Pop
<1>6. ASSUME NEW t \in Threads, SvcPopExit(t)
      PROVE  TypeInv'
  <2>1. is_thread_exit_' \in BOOLEAN /\ thread_active_num_' \in Int
    BY <1>6 DEF SvcPopExit, Retire
  <2>2. QED
    BY <1>6, <2>1 DEF SvcPopExit, Pop, Free
<1>7. ASSUME NEW t \in Threads, SvcCall(t)
      PROVE  TypeInv'
  BY <1>7 DEF SvcCall
<1>8. ASSUME NEW t \in Threads, SvcFree(t)
      PROVE  TypeInv'
  BY <1>8 DEF SvcFree, Free
<1>9. CASE DtorStart \/ DtorCheck \/ DtorJoin
  BY <1>9 DEF DtorStart, DtorCheck, DtorJoin
<1>10. CASE DtorPut
  BY <1>10 DEF DtorPut, Push
<1>11. CASE DtorPutRefused
  BY <1>11 DEF DtorPutRefused, Free
<1>12. CASE DtorNotify
  BY <1>12 DEF DtorNotify, NotifyAll
<1>13. CASE UNCHANGED vars
  BY <1>13 DEF vars
<1>14. QED
  BY <1>1, <1>2, <1>3, <1>4, <1>5, <1>6, <1>7, <1>8, <1>9, <1>10, <1>11, <1>12,
     <1>13 DEF Next, SvcStep, DtorStep

LEMMA TypeInvariant == SafeSpec => []TypeInv
BY TypeInvInit, TypeInvStep, PTL DEF SafeSpec

-----------------------------------------------------------------------------
(* Order of delivery *)

\* As in ManyToOne: the pops, of whatever thread, follow the order of the puts.
FifoInv == accepted = taken \o queue

LEMMA FifoStep == TypeInv /\ FifoInv /\ [Next]_vars => FifoInv'
<1> SUFFICES ASSUME TypeInv, FifoInv, [Next]_vars PROVE FifoInv'
  OBVIOUS
<1>1. queue \in Seq(Messages) /\ taken \in Seq(Messages)
  BY DEF TypeInv, PreTypeOK
<1>2. ASSUME NEW m \in Messages, Push(m), UNCHANGED taken
      PROVE  FifoInv'
  <2>1. taken \o Append(queue, m) = Append(taken \o queue, m)
    <3>1. \A popped, q \in Seq(Messages) : \A e \in Messages :
              popped \o Append(q, e) = Append(popped \o q, e)
      BY PushAppends
    <3>2. QED
      BY <1>1, <3>1
  <2>2. QED
    BY <1>2, <2>1 DEF Push, FifoInv
<1>3. ASSUME Pop, UNCHANGED accepted
      PROVE  FifoInv'
  <2>1. Append(taken, Head(queue)) \o Tail(queue) = taken \o queue
    BY <1>1, <1>3, PopMoves DEF Pop
  <2>2. QED
    BY <1>3, <2>1 DEF Pop, FifoInv
<1>4. CASE UNCHANGED <<queue, accepted, taken>>
  BY <1>4 DEF FifoInv
<1>5. ASSUME NEW c \in Callers, NEW m \in unsent, PutAccepted(c, m)
      PROVE  FifoInv'
  BY <1>5, <1>2, MessageFacts DEF PutAccepted, TypeInv, PreTypeOK
<1>6. ASSUME NEW c \in Callers, NEW m \in unsent, PutRefused(c, m) \/ PutNotify(c)
      PROVE  FifoInv'
  BY <1>6, <1>4 DEF PutRefused, PutNotify
<1>7. ASSUME NEW c \in Callers, PutNotify(c)
      PROVE  FifoInv'
  BY <1>7, <1>4 DEF PutNotify
<1>8. ASSUME NEW t \in Threads, SvcPopData(t) \/ SvcPopExit(t)
      PROVE  FifoInv'
  BY <1>8, <1>3 DEF SvcPopData, SvcPopExit
<1>9. ASSUME NEW t \in Threads,
             \/ SvcInit(t) \/ SvcWait(t) \/ SpuriousWake(t) \/ SvcCall(t)
             \/ SvcFree(t) \/ SvcReturn(t) \/ SvcCrash(t)
      PROVE  FifoInv'
  BY <1>9, <1>4 DEF SvcInit, SvcWait, SpuriousWake, SvcCall, SvcFree, SvcReturn, SvcCrash
<1>10. CASE DtorPut
  BY <1>10, <1>2, MessageFacts DEF DtorPut
<1>11. CASE DtorStart \/ DtorCheck \/ DtorPutRefused \/ DtorNotify \/ DtorJoin
  BY <1>11, <1>4 DEF DtorStart, DtorCheck, DtorPutRefused, DtorNotify, DtorJoin
<1>12. CASE UNCHANGED vars
  BY <1>12, <1>4 DEF vars
<1>13. QED
  BY <1>5, <1>6, <1>7, <1>8, <1>9, <1>10, <1>11, <1>12 DEF Next, SvcStep, DtorStep

LEMMA FifoInvariant == SafeSpec => []FifoInv
<1>1. Init => FifoInv
  BY DEF Init, FifoInv
<1>2. QED
  BY <1>1, FifoStep, TypeInvariant, PTL DEF SafeSpec

-----------------------------------------------------------------------------
(* Counting the threads down *)

CountInv ==
    /\ thread_active_num_ = Cardinality(Threads \ Retired)
    /\ thread_active_num_ = Cardinality(Threads) - Cardinality(ExitsTaken)
    /\ IsFiniteSet(ExitsTaken)
    /\ is_thread_exit_ <=> thread_active_num_ = 0
    /\ dtor = "left" => is_thread_exit_
    /\ dtor = "notify" => suc = 0
    /\ dtor # "notify" /\ suc = -1 /\ i > 0 => is_thread_exit_

LEMMA RetiredFacts ==
    /\ IsFiniteSet(Threads \ Retired)
    /\ Cardinality(Threads \ Retired) \in Nat
    /\ Cardinality(Threads \ Retired) = 0 => Retired = Threads
<1>1. IsFiniteSet(Threads \ Retired)
  BY FS_Subset, ManyToManyAssumption
<1>2. Retired \subseteq Threads
  BY DEF Retired
<1>3. QED
  BY <1>1, <1>2, FS_CardinalityType, FS_EmptySet

LEMMA CountStep == TypeInv /\ CountInv /\ [Next]_vars => CountInv'
<1> SUFFICES ASSUME TypeInv, CountInv, [Next]_vars PROVE CountInv'
  OBVIOUS
<1> USE DEF TypeInv, PreTypeOK
<1>1. is_thread_exit_ => Retired = Threads
  BY RetiredFacts DEF CountInv
<1>2. ASSUME UNCHANGED <<thread_active_num_, is_thread_exit_, taken, dtorVars>>,
             Retired' = Retired
      PROVE  CountInv'
  <2>1. ExitsTaken' = ExitsTaken
    BY <1>2 DEF ExitsTaken
  <2>2. QED
    BY <1>2, <2>1 DEF CountInv, dtorVars
<1>3. ASSUME NEW t \in Threads, NEW where \in {"top", "wait", "call", "free"},
             svc[t] \notin {"f2", "done", "crashed"}, Goto(t, where)
      PROVE  Retired' = Retired
  BY <1>3 DEF Goto, Retired
<1>4. ASSUME NEW t \in Threads, NEW where \in {"done", "crashed"},
             t \in Retired, Goto(t, where)
      PROVE  Retired' = Retired
  BY <1>4 DEF Goto, Retired
<1>5. NotifyAll => Retired' = Retired
  BY DEF NotifyAll, Retired
<1>6. UNCHANGED svc => Retired' = Retired
  BY DEF Retired
<1>7. ASSUME NEW c \in Callers, NEW m \in unsent, PutAccepted(c, m) \/ PutRefused(c, m)
      PROVE  CountInv'
  BY <1>7, <1>2, <1>6 DEF PutAccepted, PutRefused, flagVars
<1>8. ASSUME NEW c \in Callers, PutNotify(c)
      PROVE  CountInv'
  BY <1>8, <1>2, <1>5 DEF PutNotify, flagVars
<1>9. ASSUME NEW t \in Threads,
             SvcInit(t) \/ SvcWait(t) \/ SpuriousWake(t) \/ SvcCall(t) \/ SvcFree(t)
      PROVE  CountInv'
  <2>1. Retired' = Retired
    BY <1>9, <1>3 DEF SvcInit, SvcWait, SpuriousWake, SvcCall, SvcFree
  <2>2. QED
    BY <1>9, <1>2, <2>1 DEF SvcInit, SvcWait, SpuriousWake, SvcCall, SvcFree, flagVars
<1>10. ASSUME NEW t \in Threads, SvcReturn(t)
       PROVE  CountInv'
  <2>1. t \in Retired
    BY <1>10 DEF SvcReturn, Retired
  <2>2. QED
    BY <1>10, <1>2, <1>4, <2>1 DEF SvcReturn, flagVars
<1>11. ASSUME NEW t \in Threads, SvcCrash(t)
       PROVE  CountInv'
  <2>1. t \in Retired
    BY <1>11, <1>1 DEF SvcCrash, CountInv
  <2>2. QED
    BY <1>11, <1>2, <1>4, <2>1 DEF SvcCrash, flagVars
<1>12. ASSUME Pop, NEW m, m = Head(queue)
       PROVE  /\ m \in Exits => ExitsTaken' = ExitsTaken \cup {Len(taken) + 1}
              /\ m \notin Exits => ExitsTaken' = ExitsTaken
              /\ Len(taken) + 1 \notin ExitsTaken
  <2>1. Head(queue) \in Messages
    BY <1>12, HeadTailProperties DEF Pop
  <2>2. /\ Len(taken') = Len(taken) + 1 /\ Len(taken) \in Nat
        /\ \A k \in 1..Len(taken) : taken'[k] = taken[k]
        /\ taken'[Len(taken) + 1] = m
    BY <1>12, <2>1, AppendProperties, LenProperties DEF Pop
  <2>3. 1..Len(taken') = (1..Len(taken)) \cup {Len(taken) + 1}
    BY <2>2
  <2>4. QED
    BY <2>2, <2>3 DEF ExitsTaken
<1>13. ASSUME NEW t \in Threads, SvcPopData(t)
       PROVE  CountInv'
  <2>1. ExitsTaken' = ExitsTaken
    <3>1. Pop /\ Head(queue) \notin Exits
      BY <1>13, ManyToManyAssumption DEF SvcPopData, Exits
    <3>2. QED
      BY <1>12, <3>1
  <2>2. Retired' = Retired
    BY <1>3, <1>13 DEF SvcPopData
  <2>3. UNCHANGED <<thread_active_num_, is_thread_exit_, dtor, i, suc>>
    BY <1>13 DEF SvcPopData, flagVars, dtorVars
  <2>4. QED
    BY <2>1, <2>2, <2>3 DEF CountInv
<1>14. ASSUME NEW t \in Threads, SvcPopExit(t)
       PROVE  CountInv'
  <2>1. ExitsTaken' = ExitsTaken \cup {Len(taken) + 1} /\ Len(taken) + 1 \notin ExitsTaken
    BY <1>12, <1>14 DEF SvcPopExit
  <2>2. /\ IsFiniteSet(ExitsTaken')
        /\ Cardinality(ExitsTaken') = Cardinality(ExitsTaken) + 1
    BY <2>1, FS_AddElement DEF CountInv
  <2>3. t \in Threads \ Retired /\ Threads \ Retired' = (Threads \ Retired) \ {t}
    BY <1>14 DEF SvcPopExit, Retired, LeaveLoop, Goto
  <2>4. Cardinality(Threads \ Retired') = Cardinality(Threads \ Retired) - 1
    <3>1. Cardinality((Threads \ Retired) \ {t}) = Cardinality(Threads \ Retired) - 1
      BY <2>3, RetiredFacts, FS_RemoveElement
    <3>2. QED
      BY <2>3, <3>1
  <2>5. /\ thread_active_num_' = thread_active_num_ - 1
        /\ is_thread_exit_' <=> thread_active_num_' = 0
        /\ UNCHANGED <<dtor, i, suc>>
    BY <1>14 DEF SvcPopExit, Retire, dtorVars
  <2>6. ~is_thread_exit_
    BY <1>1, <2>3
  <2>7. Cardinality(Threads) \in Nat /\ Cardinality(ExitsTaken) \in Nat
    BY FS_CardinalityType, ManyToManyAssumption DEF CountInv
  <2>8. thread_active_num_' = Cardinality(Threads \ Retired')
    BY <2>4, <2>5 DEF CountInv
  <2>9. thread_active_num_' = Cardinality(Threads) - Cardinality(ExitsTaken')
    BY <2>2, <2>5, <2>7 DEF CountInv
  <2>10. /\ dtor' # "left" /\ (dtor' = "notify" => suc' = 0)
         /\ ~(dtor' # "notify" /\ suc' = -1 /\ i' > 0)
    BY <2>5, <2>6 DEF CountInv
  <2>11. QED
    BY <2>2, <2>5, <2>8, <2>9, <2>10 DEF CountInv
<1>15. CASE DtorStart \/ DtorJoin
  <2>1. ExitsTaken' = ExitsTaken /\ Retired' = Retired
    BY <1>15, <1>6 DEF DtorStart, DtorJoin, ExitsTaken
  <2>2. QED
    BY <1>15, <2>1 DEF DtorStart, DtorJoin, flagVars, CountInv
<1>16. CASE DtorCheck
  <2>1. ExitsTaken' = ExitsTaken /\ Retired' = Retired
    BY <1>16, <1>6 DEF DtorCheck, ExitsTaken
  <2>2. thread_active_num_ \in Nat
    BY RetiredFacts DEF CountInv
  <2>3. dtor' = "left" => is_thread_exit_
    <3>1. CASE i > 0
      BY <1>16, <3>1 DEF DtorCheck, CountInv
    <3>2. CASE i = 0
      BY <1>16, <3>2, <2>2 DEF DtorCheck, CountInv
    <3>3. QED
      BY <3>1, <3>2
  <2>4. QED
    BY <1>16, <2>1, <2>3 DEF DtorCheck, flagVars, CountInv
<1>17. CASE DtorPut
  <2>1. ExitsTaken' = ExitsTaken /\ Retired' = Retired
    BY <1>17, <1>6 DEF DtorPut, ExitsTaken
  <2>2. QED
    BY <1>17, <2>1 DEF DtorPut, flagVars, CountInv
<1>18. CASE DtorPutRefused
  <2>1. ExitsTaken' = ExitsTaken /\ Retired' = Retired
    BY <1>18, <1>6 DEF DtorPutRefused, ExitsTaken
  <2>2. QED
    BY <1>18, <2>1 DEF DtorPutRefused, flagVars, CountInv
<1>19. CASE DtorNotify
  <2>1. ExitsTaken' = ExitsTaken /\ Retired' = Retired
    BY <1>19, <1>5 DEF DtorNotify, ExitsTaken
  <2>2. QED
    BY <1>19, <2>1 DEF DtorNotify, flagVars, CountInv
<1>20. CASE UNCHANGED vars
  BY <1>20, <1>2, <1>6 DEF vars, dtorVars
<1>21. QED
  BY <1>7, <1>8, <1>9, <1>10, <1>11, <1>13, <1>14, <1>15, <1>16, <1>17, <1>18,
     <1>19, <1>20 DEF Next, SvcStep, DtorStep

LEMMA CountInit == Init => CountInv
<1> SUFFICES ASSUME Init PROVE CountInv
  OBVIOUS
<1>1. Retired = {} /\ Threads \ Retired = Threads
  BY DEF Init, Retired
<1>2. ExitsTaken = {}
  BY DEF Init, ExitsTaken
<1>3. Cardinality(Threads) \in Nat \ {0}
  BY ManyToManyAssumption, FS_CardinalityType, FS_EmptySet
<1>4. ~is_thread_exit_ /\ thread_active_num_ = Cardinality(Threads) /\ dtor = "alive" /\ i = 0
  BY DEF Init
<1>5. QED
  BY <1>1, <1>2, <1>3, <1>4, FS_EmptySet DEF CountInv

LEMMA CountInvariant == SafeSpec => []CountInv
BY CountInit, CountStep, TypeInvariant, PTL DEF SafeSpec

\* Every variable keeps its type; thread_active_num_ never drops below zero.
THEOREM TypeCorrect == SafeSpec => []TypeOK
<1>1. TypeInv /\ CountInv => TypeOK
  BY RetiredFacts DEF TypeInv, PreTypeOK, CountInv, TypeOK
<1>2. QED
  BY <1>1, TypeInvariant, CountInvariant, PTL

\* For any number of threads: one thread retires for each exit message taken,
\* and thread_active_num_ counts the threads that are left.
THEOREM ThreadsRetireOneByOne == SafeSpec => []RetiredOneByOne
<1>1. CountInv => RetiredOneByOne
  BY DEF CountInv, RetiredOneByOne
<1>2. QED
  BY <1>1, CountInvariant, PTL

\* For any number of threads: no thread is in its loop once is_thread_exit_ is
\* up, so the branch at many_to_many.h:151 is dead code.
THEOREM NobodySeesExitFlag == SafeSpec => []ExitBranchDead
<1>1. CountInv => ExitBranchDead
  BY RetiredFacts DEF CountInv, ExitBranchDead
<1>2. QED
  BY <1>1, CountInvariant, PTL
-----------------------------------------------------------------------------
(* The promise of TaskQueue *)

\* many_to_many implements the task queue for any number of service threads, as
\* far as safety goes: every step is a Put, a Take or a stutter of TaskQueue.
THEOREM TaskQueueRefinement == SafeSpec => Queue!SafeSpec
<1>1. Init => Queue!Init
  BY DEF Init, Queue!Init
<1>2. TypeInv /\ CountInv /\ FifoInv /\ [Next]_vars => [Queue!Next]_(Queue!vars)
  <2> SUFFICES ASSUME TypeInv, CountInv, FifoInv, [Next]_vars
               PROVE  [Queue!Next]_(Queue!vars)
    OBVIOUS
  <2>0. /\ queue \in Seq(Messages) /\ taken \in Seq(Messages)
        /\ accepted = taken \o queue
        /\ unsent \subseteq Data \cup ClientExits
        /\ thread_active_num_ \in Nat
        /\ is_thread_exit_ <=> thread_active_num_ = 0
    BY RetiredFacts DEF TypeInv, PreTypeOK, FifoInv, CountInv
  <2>1. ASSUME NEW m \in Messages, Push(m), UNCHANGED <<taken, thread_active_num_>>
        PROVE  Queue!Next
    BY <2>0, <2>1 DEF Push, Queue!Next, Queue!Put, Messages
  <2>2. ASSUME Pop
        PROVE  /\ Len(taken) < Len(accepted)
               /\ accepted[Len(taken) + 1] = Head(queue)
               /\ taken' = Append(taken, Head(queue))
    <3>1. queue # <<>> /\ taken' = Append(taken, Head(queue))
      BY <2>2 DEF Pop
    <3>2. Len(taken) < Len(taken \o queue) /\ (taken \o queue)[Len(taken) + 1] = Head(queue)
      BY <3>1, <2>0, PopMoves
    <3>3. QED
      BY <2>0, <3>1, <3>2
  <2>3. ASSUME NEW t \in Threads, SvcPopData(t)
        PROVE  Queue!Next
    <3>1. Pop /\ Head(queue) \notin Exits /\ UNCHANGED <<accepted, thread_active_num_>>
      BY <2>3, ManyToManyAssumption DEF SvcPopData, Exits, flagVars
    <3>2. QED
      BY <2>2, <3>1 DEF Queue!Next, Queue!Take
  <2>4. ASSUME NEW t \in Threads, SvcPopExit(t)
        PROVE  Queue!Next
    <3>1. /\ Pop /\ Head(queue) \in Exits /\ UNCHANGED accepted
          /\ thread_active_num_' = thread_active_num_ - 1
      BY <2>4 DEF SvcPopExit, Retire
    <3>2. thread_active_num_ > 0
      <4>1. t \notin Retired /\ (thread_active_num_ = 0 => Retired = Threads)
        BY <2>4, RetiredFacts DEF SvcPopExit, Retired, CountInv
      <4>2. QED
        BY <2>0, <4>1
    <3>3. QED
      BY <2>2, <3>1, <3>2 DEF Queue!Next, Queue!Take
  <2>5. CASE UNCHANGED <<accepted, taken, thread_active_num_>>
    BY <2>5 DEF Queue!vars
  <2>6. ASSUME NEW c \in Callers, NEW m \in unsent, PutAccepted(c, m)
        PROVE  Queue!Next
    BY <2>0, <2>1, <2>6, MessageFacts DEF PutAccepted, flagVars
  <2>7. ASSUME NEW c \in Callers, NEW m \in unsent, PutRefused(c, m)
        PROVE  UNCHANGED <<accepted, taken, thread_active_num_>>
    BY <2>7 DEF PutRefused, flagVars
  <2>8. ASSUME NEW c \in Callers, PutNotify(c)
        PROVE  UNCHANGED <<accepted, taken, thread_active_num_>>
    BY <2>8 DEF PutNotify, flagVars
  <2>9. ASSUME NEW t \in Threads,
               \/ SvcInit(t) \/ SvcWait(t) \/ SpuriousWake(t) \/ SvcCall(t)
               \/ SvcFree(t) \/ SvcReturn(t) \/ SvcCrash(t)
        PROVE  UNCHANGED <<accepted, taken, thread_active_num_>>
    BY <2>9 DEF SvcInit, SvcWait, SpuriousWake, SvcCall, SvcFree, SvcReturn,
       SvcCrash, flagVars
  <2>10. CASE DtorPut
    BY <2>1, <2>10, MessageFacts DEF DtorPut, flagVars
  <2>11. CASE DtorStart \/ DtorCheck \/ DtorPutRefused \/ DtorNotify \/ DtorJoin
    BY <2>5, <2>11 DEF DtorStart, DtorCheck, DtorPutRefused, DtorNotify, DtorJoin, flagVars
  <2>12. CASE UNCHANGED vars
    BY <2>5, <2>12 DEF vars
  <2>13. QED
    BY <2>3, <2>4, <2>5, <2>6, <2>7, <2>8, <2>9, <2>10, <2>11, <2>12
       DEF Next, SvcStep, DtorStep
<1>3. QED
  BY <1>1, <1>2, FifoInvariant, CountInvariant, TypeInvariant, PTL
     DEF SafeSpec, Queue!SafeSpec

-----------------------------------------------------------------------------
(* Wakeups *)

LEMMA WakeupStep == TypeInv /\ NoSleeperBesideWork /\ [Next]_vars => NoSleeperBesideWork'
<1> SUFFICES ASSUME TypeInv, NoSleeperBesideWork, [Next]_vars
             PROVE  NoSleeperBesideWork'
  OBVIOUS
<1> USE DEF TypeInv, PreTypeOK, NoSleeperBesideWork, Goto, LeaveLoop
<1>1. ASSUME NEW c \in Callers, NEW m \in unsent, PutAccepted(c, m)
      PROVE  NoSleeperBesideWork'
  BY <1>1 DEF PutAccepted
<1>2. ASSUME NEW c \in Callers, NEW m \in unsent, PutRefused(c, m)
      PROVE  NoSleeperBesideWork'
  BY <1>2 DEF PutRefused, dtorVars
<1>3. ASSUME NEW c \in Callers, PutNotify(c)
      PROVE  NoSleeperBesideWork'
  BY <1>3 DEF PutNotify, NotifyAll
<1>4. ASSUME NEW t \in Threads, SvcWait(t)
      PROVE  NoSleeperBesideWork'
  BY <1>4 DEF SvcWait
<1>5. ASSUME NEW t \in Threads, SvcPopData(t) \/ SvcPopExit(t)
      PROVE  NoSleeperBesideWork'
  BY <1>5 DEF SvcPopData, SvcPopExit, Pop, dtorVars
<1>6. ASSUME NEW t \in Threads,
             \/ SvcInit(t) \/ SpuriousWake(t) \/ SvcCall(t) \/ SvcFree(t)
             \/ SvcReturn(t) \/ SvcCrash(t)
      PROVE  NoSleeperBesideWork'
  BY <1>6 DEF SvcInit, SpuriousWake, SvcCall, SvcFree, SvcReturn, SvcCrash, dtorVars
<1>7. CASE DtorPut
  BY <1>7 DEF DtorPut
<1>8. CASE DtorNotify
  BY <1>8 DEF DtorNotify, NotifyAll
<1>9. CASE DtorStart \/ DtorCheck \/ DtorPutRefused \/ DtorJoin
  BY <1>9 DEF DtorStart, DtorCheck, DtorPutRefused, DtorJoin
<1>10. CASE UNCHANGED vars
  BY <1>10 DEF vars
<1>11. QED
  BY <1>1, <1>2, <1>3, <1>4, <1>5, <1>6, <1>7, <1>8, <1>9, <1>10
     DEF Next, SvcStep, DtorStep

\* For any number of callers and service threads: no thread sleeps beside a
\* queued message with every notify_all done.
THEOREM NoWakeupIsLost == SafeSpec => []NoSleeperBesideWork
<1>1. Init => NoSleeperBesideWork
  BY DEF Init, NoSleeperBesideWork
<1>2. QED
  BY <1>1, WakeupStep, TypeInvariant, PTL DEF SafeSpec

-----------------------------------------------------------------------------
(* One thread for each message *)

Within(m, q) == \E k \in 1..Len(q) : q[k] = m

\* Where a data message is, with what its history says: with its caller, in the
\* queue, in the hands of one thread, or nowhere any more.
PlaceInv ==
    /\ \A j, k \in 1..Len(queue) : queue[j] = queue[k] /\ queue[j] \in Data => j = k
    /\ \A t \in Threads : data_p[t] \in Data \cup {NoMessage}
    /\ \A t, u \in Threads : t # u /\ data_p[t] # NoMessage => data_p[t] # data_p[u]
    /\ \A m \in Data :
         /\ m \in unsent => /\ ~Within(m, queue) /\ ~Within(m, accepted)
                            /\ freed[m] = 0 /\ calls[m] = 0
                            /\ \A t \in Threads : data_p[t] # m
         /\ Within(m, queue) => /\ freed[m] = 0 /\ calls[m] = 0
                                /\ \A t \in Threads : data_p[t] # m
         /\ \A t \in Threads : data_p[t] = m =>
              /\ freed[m] = 0
              /\ svc[t] = "call" => calls[m] = 0
              /\ svc[t] = "free" => calls[m] = 1
         /\ calls[m] \in {0, 1} /\ freed[m] \in {0, 1}
         /\ freed[m] = 1 /\ calls[m] = 0 => ~Within(m, accepted)

LEMMA PlaceInit == Init => PlaceInv
<1> SUFFICES ASSUME Init PROVE PlaceInv
  OBVIOUS
<1>1. Len(queue) = 0 /\ Len(accepted) = 0 /\ 1..0 = {}
  BY DEF Init
<1>2. \A m : ~Within(m, queue) /\ ~Within(m, accepted)
  BY <1>1, Zenon DEF Within
<1>3. \A m \in Data : freed[m] = 0 /\ calls[m] = 0
  BY MessageFacts DEF Init, Messages
<1>4. \A t \in Threads : data_p[t] = NoMessage
  BY DEF Init
<1>5. \A m \in Data : m # NoMessage
  BY MessageFacts
<1>6. QED
  BY <1>1, <1>2, <1>3, <1>4, <1>5 DEF PlaceInv

LEMMA PlaceImplies == TypeInv /\ PlaceInv => HandledByOneThread
<1> SUFFICES ASSUME TypeInv, PlaceInv PROVE HandledByOneThread
  OBVIOUS
<1>1. ASSUME NEW m \in Data
      PROVE  /\ calls[m] <= 1 /\ freed[m] <= 1
             /\ (freed[m] = 1 /\ calls[m] = 0) => \A k \in 1..Len(accepted) : accepted[k] # m
  BY DEF PlaceInv, Within
<1>2. QED
  BY <1>1 DEF PlaceInv, HandledByOneThread

\* Pushing n onto a sequence makes n the only message that is new in it.
LEMMA PushWithin ==
    ASSUME NEW q \in Seq(Messages), NEW n \in Messages, NEW m \in Data
    PROVE  /\ Within(m, Append(q, n)) => Within(m, q) \/ m = n
           /\ n = m => Within(m, Append(q, n))
<1> DEFINE longer == Append(q, n)
<1>1. /\ Len(longer) = Len(q) + 1 /\ Len(q) \in Nat
      /\ \A k \in 1..Len(q) : longer[k] = q[k]
      /\ longer[Len(q) + 1] = n
  BY AppendProperties, LenProperties
<1> HIDE DEF longer
<1>2. \A k \in 1..Len(longer) : k \in 1..Len(q) \/ k = Len(q) + 1
  BY <1>1
<1>3. Len(q) + 1 \in 1..Len(longer)
  BY <1>1
<1>4. /\ Within(m, longer) => Within(m, q) \/ m = n
      /\ n = m => Within(m, longer)
  BY <1>1, <1>2, <1>3 DEF Within
<1>5. QED
  BY <1>4 DEF longer

\* A data message that is not in the queue yet, or an exit message, is pushed.
LEMMA PushStep ==
    ASSUME TypeInv, PlaceInv, NEW n \in Messages, Push(n),
           n \in Data => n \in unsent /\ n \notin unsent',
           unsent' \subseteq unsent, UNCHANGED <<svc, data_p, calls, freed>>
    PROVE  PlaceInv'
<1>1. /\ queue \in Seq(Messages) /\ accepted \in Seq(Messages)
      /\ queue' = Append(queue, n) /\ accepted' = Append(accepted, n)
  BY DEF TypeInv, PreTypeOK, Push
<1>2. \A j, k \in 1..Len(queue') : queue'[j] = queue'[k] /\ queue'[j] \in Data => j = k
  <2>1. /\ Len(queue') = Len(queue) + 1 /\ Len(queue) \in Nat
        /\ \A k \in 1..Len(queue) : queue'[k] = queue[k]
        /\ queue'[Len(queue) + 1] = n
    BY <1>1, AppendProperties, LenProperties
  <2>2. \A k \in 1..Len(queue') : k \in 1..Len(queue) \/ k = Len(queue) + 1
    BY <2>1
  <2>3. n \in Data => \A k \in 1..Len(queue) : queue[k] # n
    BY DEF PlaceInv, Within
  <2>4. QED
    BY <2>1, <2>2, <2>3 DEF PlaceInv
<1>3. ASSUME NEW m \in Data
      PROVE  /\ Within(m, queue') => Within(m, queue) \/ m = n
             /\ Within(m, accepted') => Within(m, accepted) \/ m = n
  BY <1>1, PushWithin
<1>4. ASSUME NEW m \in Data
      PROVE  /\ m \in unsent' => /\ ~Within(m, queue') /\ ~Within(m, accepted')
                                /\ freed'[m] = 0 /\ calls'[m] = 0
                                /\ \A t \in Threads : data_p'[t] # m
             /\ Within(m, queue') => /\ freed'[m] = 0 /\ calls'[m] = 0
                                     /\ \A t \in Threads : data_p'[t] # m
             /\ freed'[m] = 1 /\ calls'[m] = 0 => ~Within(m, accepted')
  <2>1. CASE m = n
    <3>1. freed[m] = 0 /\ calls[m] = 0 /\ \A t \in Threads : data_p[t] # m
      BY <2>1 DEF PlaceInv
    <3>2. QED
      BY <2>1, <3>1
  <2>2. CASE m # n
    BY <1>3, <2>2 DEF PlaceInv
  <2>3. QED
    BY <2>1, <2>2
<1>5. QED
  BY <1>2, <1>4 DEF PlaceInv

\* Popping the head leaves the others in the queue, and no second copy of a
\* data message.
LEMMA PopWithin ==
    ASSUME TypeInv, PlaceInv, Pop
    PROVE  /\ Head(queue) \in Messages /\ Within(Head(queue), queue)
           /\ \A m : Within(m, queue') => Within(m, queue)
           /\ Head(queue) \in Data => ~Within(Head(queue), queue')
           /\ \A j, k \in 1..Len(queue') : queue'[j] = queue'[k] /\ queue'[j] \in Data => j = k
<1>1. queue \in Seq(Messages) /\ queue # <<>> /\ queue' = Tail(queue)
  BY DEF TypeInv, PreTypeOK, Pop
<1>2. /\ Head(queue) \in Messages
      /\ Len(queue) \in Nat \ {0} /\ Head(queue) = queue[1] /\ 1 \in 1..Len(queue)
      /\ Len(queue') = Len(queue) - 1
      /\ \A k \in 1..Len(queue') : queue'[k] = queue[k + 1]
  BY <1>1, HeadTailProperties, EmptySeq
<1>3. \A k \in 1..Len(queue') : k + 1 \in 1..Len(queue) /\ k + 1 # 1 /\ k \in Int
  BY <1>2
<1>4. QED
  BY <1>2, <1>3 DEF PlaceInv, Within

LEMMA PlaceStep == TypeInv /\ TypeInv' /\ PlaceInv /\ [Next]_vars => PlaceInv'
<1> SUFFICES ASSUME TypeInv, TypeInv', PlaceInv, [Next]_vars PROVE PlaceInv'
  OBVIOUS
<1>1. /\ freed \in [Messages -> Nat] /\ calls \in [Data -> Nat]
      /\ data_p \in [Threads -> Messages \cup {NoMessage}]
      /\ unsent \subseteq Data \cup ClientExits
      /\ Data \subseteq Messages
      /\ svc \in [Threads -> {"init", "top", "wait", "call", "free", "f2", "done",
                             "crashed"}]
  BY MessageFacts DEF TypeInv, PreTypeOK, Messages
<1>2. ASSUME UNCHANGED <<queue, accepted, unsent, data_p, calls, freed>>,
             \A t \in Threads : /\ svc'[t] = "call" => svc[t] = "call"
                                /\ svc'[t] = "free" => svc[t] = "free"
      PROVE  PlaceInv'
  <2>1. ASSUME NEW m \in Data, NEW t \in Threads, data_p'[t] = m
        PROVE  /\ freed'[m] = 0
               /\ svc'[t] = "call" => calls'[m] = 0
               /\ svc'[t] = "free" => calls'[m] = 1
    BY <1>2, <2>1 DEF PlaceInv
  <2>2. ASSUME NEW m \in Data
        PROVE  /\ m \in unsent' => /\ ~Within(m, queue') /\ ~Within(m, accepted')
                                  /\ freed'[m] = 0 /\ calls'[m] = 0
                                  /\ \A t \in Threads : data_p'[t] # m
               /\ Within(m, queue') => /\ freed'[m] = 0 /\ calls'[m] = 0
                                       /\ \A t \in Threads : data_p'[t] # m
               /\ calls'[m] \in {0, 1} /\ freed'[m] \in {0, 1}
               /\ freed'[m] = 1 /\ calls'[m] = 0 => ~Within(m, accepted')
    BY <1>2 DEF PlaceInv
  <2>3. /\ \A j, k \in 1..Len(queue') : queue'[j] = queue'[k] /\ queue'[j] \in Data => j = k
        /\ \A t \in Threads : data_p'[t] \in Data \cup {NoMessage}
        /\ \A t, u \in Threads : t # u /\ data_p'[t] # NoMessage => data_p'[t] # data_p'[u]
    BY <1>2 DEF PlaceInv
  <2>4. QED
    BY <2>1, <2>2, <2>3 DEF PlaceInv
<1>3. ASSUME NEW c \in Callers, NEW m \in unsent, PutAccepted(c, m)
      PROVE  PlaceInv'
  <2>1. /\ m \in Messages /\ Push(m) /\ unsent' = unsent \ {m}
        /\ UNCHANGED <<svc, data_p, calls, freed>>
    BY <1>1, <1>3, MessageFacts DEF PutAccepted
  <2>2. QED
    BY <2>1, PushStep
<1>4. ASSUME NEW c \in Callers, NEW m \in unsent, PutRefused(c, m)
      PROVE  PlaceInv'
  <2>1. /\ unsent' = unsent \ {m} /\ m \in Messages
        /\ freed' = [freed EXCEPT ![m] = @ + 1]
        /\ UNCHANGED <<queue, accepted, svc, data_p, calls>>
    BY <1>1, <1>4, MessageFacts DEF PutRefused, Free
  <2>2. ASSUME NEW n \in Data
        PROVE  freed'[n] = IF n = m THEN 1 ELSE freed[n]
    BY <1>1, <2>1 DEF PlaceInv
  <2>3. m \in Data => /\ ~Within(m, queue) /\ ~Within(m, accepted)
                      /\ \A t \in Threads : data_p[t] # m
    BY DEF PlaceInv
  <2>4. QED
    BY <2>1, <2>2, <2>3 DEF PlaceInv
<1>5. ASSUME NEW c \in Callers, PutNotify(c)
      PROVE  PlaceInv'
  BY <1>2, <1>5 DEF PutNotify, NotifyAll
<1>6. ASSUME NEW t \in Threads,
             SvcInit(t) \/ SvcWait(t) \/ SpuriousWake(t) \/ SvcReturn(t) \/ SvcCrash(t)
      PROVE  PlaceInv'
  BY <1>1, <1>2, <1>6
     DEF SvcInit, SvcWait, SpuriousWake, SvcReturn, SvcCrash, Goto
<1>7. ASSUME NEW t \in Threads, SvcPopData(t)
      PROVE  PlaceInv'
  <2>1. /\ Pop /\ Head(queue) \in Data
        /\ data_p' = [data_p EXCEPT ![t] = Head(queue)]
        /\ svc' = [svc EXCEPT ![t] = "call"]
        /\ UNCHANGED <<unsent, accepted, calls, freed>>
    BY <1>7 DEF SvcPopData, Goto
  <2>2. /\ Within(Head(queue), queue) /\ ~Within(Head(queue), queue')
        /\ \A m : Within(m, queue') => Within(m, queue)
        /\ \A j, k \in 1..Len(queue') : queue'[j] = queue'[k] /\ queue'[j] \in Data => j = k
    BY <2>1, PopWithin
  <2> DEFINE taking == Head(queue)
  <2>3. /\ data_p'[t] = taking /\ svc'[t] = "call" /\ taking \in Data
        /\ \A u \in Threads \ {t} : data_p'[u] = data_p[u] /\ svc'[u] = svc[u]
        /\ Within(taking, queue) /\ ~Within(taking, queue')
    BY <1>1, <2>1, <2>2
  <2> HIDE DEF taking
  <2>4. /\ freed[taking] = 0 /\ calls[taking] = 0 /\ taking \notin unsent
        /\ \A u \in Threads : data_p[u] # taking
    BY <2>3 DEF PlaceInv
  <2>5. \A u, v \in Threads : u # v /\ data_p'[u] # NoMessage => data_p'[u] # data_p'[v]
    BY <2>3, <2>4 DEF PlaceInv
  <2>6. \A u \in Threads : data_p'[u] \in Data \cup {NoMessage}
    BY <2>3 DEF PlaceInv
  <2>7. ASSUME NEW m \in Data
        PROVE  /\ m \in unsent => \A u \in Threads : data_p'[u] # m
               /\ Within(m, queue') => \A u \in Threads : data_p'[u] # m
               /\ \A u \in Threads : data_p'[u] = m =>
                    /\ freed[m] = 0
                    /\ svc'[u] = "call" => calls[m] = 0
                    /\ svc'[u] = "free" => calls[m] = 1
    BY <2>2, <2>3, <2>4 DEF PlaceInv
  <2>8. QED
    BY <2>1, <2>2, <2>5, <2>6, <2>7 DEF PlaceInv
<1>8. ASSUME NEW t \in Threads, SvcPopExit(t)
      PROVE  PlaceInv'
  <2>1. /\ Pop /\ Head(queue) \in Exits
        /\ freed' = [freed EXCEPT ![Head(queue)] = @ + 1]
        /\ svc' = [svc EXCEPT ![t] = "f2"]
        /\ UNCHANGED <<unsent, accepted, data_p, calls>>
    BY <1>8 DEF SvcPopExit, LeaveLoop, Goto, Free
  <2>2. \A m \in Data : m # Head(queue) /\ freed'[m] = freed[m]
    BY <1>1, <2>1, MessageFacts
  <2>3. /\ \A m : Within(m, queue') => Within(m, queue)
        /\ \A j, k \in 1..Len(queue') : queue'[j] = queue'[k] /\ queue'[j] \in Data => j = k
    BY <2>1, PopWithin
  <2>4. \A u \in Threads : /\ svc'[u] = "call" => svc[u] = "call"
                           /\ svc'[u] = "free" => svc[u] = "free"
    BY <1>1, <2>1
  <2>5. QED
    BY <2>1, <2>2, <2>3, <2>4 DEF PlaceInv
<1>9. ASSUME NEW t \in Threads, SvcCall(t)
      PROVE  PlaceInv'
  <2>1. /\ svc[t] = "call" /\ data_p[t] \in Data
        /\ calls' = [calls EXCEPT ![data_p[t]] = @ + 1]
        /\ svc' = [svc EXCEPT ![t] = "free"]
        /\ UNCHANGED <<queue, accepted, unsent, data_p, freed>>
    BY <1>9 DEF SvcCall, Goto, TypeInv, HandInv
  <2>2. /\ calls[data_p[t]] = 0 /\ freed[data_p[t]] = 0
        /\ data_p[t] \notin unsent /\ ~Within(data_p[t], queue)
        /\ \A u \in Threads \ {t} : data_p[u] # data_p[t]
    BY <2>1, MessageFacts DEF PlaceInv
  <2>3. /\ calls'[data_p[t]] = 1
        /\ \A m \in Data : m # data_p[t] => calls'[m] = calls[m]
        /\ svc'[t] = "free"
        /\ \A u \in Threads \ {t} : svc'[u] = svc[u]
    BY <1>1, <2>1, <2>2
  <2>4. ASSUME NEW m \in Data
        PROVE  /\ m \in unsent => calls'[m] = 0
               /\ Within(m, queue) => calls'[m] = 0
               /\ \A u \in Threads : data_p[u] = m =>
                    /\ freed[m] = 0
                    /\ svc'[u] = "call" => calls'[m] = 0
                    /\ svc'[u] = "free" => calls'[m] = 1
               /\ calls'[m] \in {0, 1}
               /\ freed[m] = 1 /\ calls'[m] = 0 => ~Within(m, accepted)
    <3>1. CASE m = data_p[t]
      BY <2>2, <2>3, <3>1
    <3>2. CASE m # data_p[t]
      BY <2>3, <3>2 DEF PlaceInv
    <3>3. QED
      BY <3>1, <3>2
  <2>5. QED
    BY <2>1, <2>4 DEF PlaceInv
<1>10. ASSUME NEW t \in Threads, SvcFree(t)
       PROVE  PlaceInv'
  <2>1. /\ svc[t] = "free" /\ data_p[t] \in Data
        /\ freed' = [freed EXCEPT ![data_p[t]] = @ + 1]
        /\ data_p' = [data_p EXCEPT ![t] = NoMessage]
        /\ svc' = [svc EXCEPT ![t] = "top"]
        /\ UNCHANGED <<queue, accepted, unsent, calls>>
    BY <1>10 DEF SvcFree, Goto, Free, TypeInv, HandInv
  <2>2. /\ calls[data_p[t]] = 1 /\ freed[data_p[t]] = 0
        /\ data_p[t] \notin unsent /\ ~Within(data_p[t], queue)
        /\ \A u \in Threads \ {t} : data_p[u] # data_p[t]
    BY <2>1, MessageFacts DEF PlaceInv
  <2>3. /\ freed'[data_p[t]] = 1
        /\ \A m \in Data : m # data_p[t] => freed'[m] = freed[m]
        /\ data_p'[t] = NoMessage /\ svc'[t] = "top"
        /\ \A u \in Threads \ {t} : svc'[u] = svc[u] /\ data_p'[u] = data_p[u]
    BY <1>1, <2>1, <2>2
  <2>4. ASSUME NEW m \in Data
        PROVE  /\ m \in unsent => freed'[m] = 0 /\ \A u \in Threads : data_p'[u] # m
               /\ Within(m, queue) => freed'[m] = 0 /\ \A u \in Threads : data_p'[u] # m
               /\ \A u \in Threads : data_p'[u] = m =>
                    /\ freed'[m] = 0
                    /\ svc'[u] = "call" => calls[m] = 0
                    /\ svc'[u] = "free" => calls[m] = 1
               /\ freed'[m] \in {0, 1}
               /\ freed'[m] = 1 /\ calls[m] = 0 => ~Within(m, accepted)
    <3>0. m # NoMessage
      BY MessageFacts, <1>1
    <3>1. CASE m = data_p[t]
      BY <2>2, <2>3, <3>0, <3>1
    <3>2. CASE m # data_p[t]
      BY <2>3, <3>0, <3>2 DEF PlaceInv
    <3>3. QED
      BY <3>1, <3>2
  <2>5. /\ \A u, v \in Threads : u # v /\ data_p'[u] # NoMessage => data_p'[u] # data_p'[v]
        /\ \A u \in Threads : data_p'[u] \in Data \cup {NoMessage}
    BY <2>3 DEF PlaceInv
  <2>6. QED
    BY <2>1, <2>4, <2>5 DEF PlaceInv
<1>11. CASE DtorPut
  BY <1>11, PushStep, MessageFacts DEF DtorPut
<1>12. CASE DtorPutRefused
  <2>1. /\ freed' = [freed EXCEPT ![DtorExit] = @ + 1]
        /\ UNCHANGED <<queue, accepted, unsent, svc, data_p, calls>>
    BY <1>12 DEF DtorPutRefused, Free
  <2>2. \A m \in Data : freed'[m] = freed[m]
    BY <1>1, <2>1, MessageFacts
  <2>3. QED
    BY <2>1, <2>2 DEF PlaceInv
<1>13. CASE DtorStart \/ DtorCheck \/ DtorNotify \/ DtorJoin
  BY <1>2, <1>13 DEF DtorStart, DtorCheck, DtorNotify, NotifyAll, DtorJoin
<1>14. CASE UNCHANGED vars
  BY <1>2, <1>14 DEF vars
<1>15. QED
  BY <1>3, <1>4, <1>5, <1>6, <1>7, <1>8, <1>9, <1>10, <1>11, <1>12, <1>13, <1>14
     DEF Next, SvcStep, DtorStep

\* For any number of threads: a message is in the hands of one thread at most,
\* handled at most once and then deleted once.
THEOREM OneThreadHandles == SafeSpec => []HandledByOneThread
<1>1. TypeInv /\ TypeInv' /\ PlaceInv /\ [Next]_vars => PlaceInv'
  BY PlaceStep
<1>2. QED
  BY <1>1, PlaceInit, PlaceImplies, TypeInvariant, PTL DEF SafeSpec

-----------------------------------------------------------------------------
(* The join that nobody ends *)

\* The destructor joins the threads, and put() has accepted fewer exit messages
\* than there are threads.
Short == dtor = "join" /\ Cardinality(ExitsAccepted) < Cardinality(Threads)

\* Every exit message taken was accepted, and in the same place.
LEMMA TakenWasAccepted ==
    ASSUME TypeInv, FifoInv
    PROVE  /\ ExitsTaken \subseteq ExitsAccepted
           /\ IsFiniteSet(ExitsAccepted)
<1>1. /\ taken \in Seq(Messages) /\ queue \in Seq(Messages)
      /\ accepted = taken \o queue
  BY DEF TypeInv, PreTypeOK, FifoInv
<1>2. /\ Len(taken) \in Nat /\ Len(queue) \in Nat
      /\ Len(accepted) = Len(taken) + Len(queue)
      /\ \A k \in 1..Len(taken) : accepted[k] = taken[k]
  <2>1. /\ Len(taken) \in Nat /\ Len(queue) \in Nat
        /\ Len(taken \o queue) = Len(taken) + Len(queue)
        /\ \A k \in 1..(Len(taken) + Len(queue)) :
              (taken \o queue)[k] = IF k <= Len(taken) THEN taken[k] ELSE queue[k - Len(taken)]
    BY <1>1, ConcatProperties, LenProperties
  <2>2. \A k \in 1..Len(taken) : k \in 1..(Len(taken) + Len(queue)) /\ k <= Len(taken)
    BY <2>1
  <2>3. QED
    BY <1>1, <2>1, <2>2
<1>3. 1..Len(taken) \subseteq 1..Len(accepted)
  BY <1>2
<1>4. ExitsTaken \subseteq ExitsAccepted
  BY <1>2, <1>3 DEF ExitsTaken, ExitsAccepted
<1>5. IsFiniteSet(1..Len(accepted)) /\ ExitsAccepted \subseteq 1..Len(accepted)
  BY <1>2, FS_Interval DEF ExitsAccepted
<1>6. QED
  BY <1>4, <1>5, FS_Subset

\* When every thread has returned, an exit message was accepted for each of them.
LEMMA DoneMeansEnough ==
    ASSUME TypeInv, CountInv, FifoInv, \A t \in Threads : svc[t] = "done"
    PROVE  Cardinality(ExitsAccepted) >= Cardinality(Threads)
<1>1. Threads \ Retired = {}
  BY DEF Retired
<1>2. /\ Cardinality(Threads) - Cardinality(ExitsTaken) = 0
      /\ Cardinality(Threads) \in Nat /\ Cardinality(ExitsTaken) \in Nat
  BY <1>1, FS_EmptySet, FS_CardinalityType, ManyToManyAssumption DEF CountInv
<1>3. /\ Cardinality(ExitsTaken) <= Cardinality(ExitsAccepted)
      /\ Cardinality(ExitsAccepted) \in Nat
  BY TakenWasAccepted, FS_Subset, FS_CardinalityType
<1>4. QED
  BY <1>2, <1>3

LEMMA ShortStep == TypeInv /\ CountInv /\ FifoInv /\ Short /\ [Next]_vars => Short'
<1> SUFFICES ASSUME TypeInv, CountInv, FifoInv, Short, [Next]_vars PROVE Short'
  OBVIOUS
<1>1. ~DtorJoin
  <2>1. Cardinality(ExitsAccepted) \in Nat /\ Cardinality(Threads) \in Nat
    BY TakenWasAccepted, FS_CardinalityType, ManyToManyAssumption
  <2>2. QED
    BY <2>1, DoneMeansEnough DEF DtorJoin, Short
<1>2. UNCHANGED <<dtor, accepted>>
  <2>1. ASSUME NEW t \in Threads, SvcStep(t) \/ SpuriousWake(t) \/ SvcCrash(t)
        PROVE  UNCHANGED <<dtor, accepted>>
    BY <2>1 DEF SvcStep, SvcInit, SvcWait, SpuriousWake, SvcPopData, SvcPopExit, SvcCall,
                SvcFree, SvcReturn, SvcCrash, dtorVars
  <2>2. ASSUME NEW c \in Callers, PutNotify(c)
        PROVE  UNCHANGED <<dtor, accepted>>
    BY <2>2 DEF PutNotify, dtorVars
  <2>3. QED
    BY <1>1, <2>1, <2>2 DEF Next, DtorStep, Short, PutAccepted, PutRefused, DtorStart,
       DtorCheck, DtorPut, DtorPutRefused, DtorNotify, vars
<1>3. QED
  BY <1>2 DEF Short, ExitsAccepted

\* For any number of threads: a destructor that reaches join_all() with too few
\* exit messages accepted stays in it for good. That is how the destructor of the
\* run many_to_many_dtor fails to return: i < thread_active_num_ is evaluated while
\* the threads count it down, and the loop ends before each of them has its message.
THEOREM ShortJoinNeverReturns == SafeSpec => [](Short => []Short)
<1>1. Short /\ TypeInv /\ CountInv /\ FifoInv /\ [Next]_vars => Short'
  BY ShortStep
<1>2. QED
  BY <1>1, TypeInvariant, CountInvariant, FifoInvariant, PTL DEF SafeSpec
=============================================================================
