------------------------------ MODULE ManyToMany ------------------------------
(***************************************************************************)
(* bingo::thread::many_to_many (src/bingo/thread/many_to_many.h): callers  *)
(* put() messages into one queue that several service threads empty. Every *)
(* exit message retires the thread that pops it; the last one to retire    *)
(* raises is_thread_exit_.                                                 *)
(*                                                                         *)
(* Critical sections under mu_ are single actions, as in ManyToOne. The    *)
(* branch of svc() that leaves on an empty queue with is_thread_exit_ set  *)
(* (lines 151-157) has no action: ExitBranchDead shows that no thread can  *)
(* reach it. The owner destroys the object only when no caller is inside   *)
(* put(), and calls put() no more afterwards.                              *)
(***************************************************************************)
EXTENDS Integers, Sequences, FiniteSets

CONSTANTS
    Threads,      \* the service threads
    Callers,      \* threads that call put()
    Data,         \* data messages the callers have, each is put at most once
    ClientExits,  \* exit messages the callers have
    DtorExit,     \* any exit message the destructor allocates
    NoMessage     \* the null data_p of svc()

ASSUME ManyToManyAssumption ==
    /\ IsFiniteSet(Threads) /\ Threads # {}
    /\ Data \cap ClientExits = {}
    /\ DtorExit \notin Data \cup ClientExits
    /\ NoMessage \notin Data \cup ClientExits \cup {DtorExit}

Exits == ClientExits \cup {DtorExit}
Messages == Data \cup Exits

VARIABLES
    queue,              \* queue_
    is_thread_exit_,
    thread_active_num_,
    svc,                \* where each service thread stands
    data_p,             \* the message each service thread has in hand
    caller,             \* what each caller of put() is doing
    unsent,             \* the messages no caller has put yet
    dtor,               \* where the destructor stands
    i,                  \* its loop counter
    suc,                \* what its last put() returned
    accepted,           \* history: messages put() returned 0 for, in that order
    taken,              \* history: messages popped, in that order
    calls,              \* history: how often f_ was called with each message
    freed               \* history: how often each message was deleted

vars == <<queue, is_thread_exit_, thread_active_num_, svc, data_p, caller,
          unsent, dtor, i, suc, accepted, taken, calls, freed>>
dtorVars == <<dtor, i, suc>>
flagVars == <<is_thread_exit_, thread_active_num_>>

Init ==
    /\ queue = <<>>
    /\ is_thread_exit_ = FALSE
    /\ thread_active_num_ = Cardinality(Threads)
    /\ svc = [t \in Threads |-> "init"]
    /\ data_p = [t \in Threads |-> NoMessage]
    /\ caller = [c \in Callers |-> "idle"]
    /\ unsent = Data \cup ClientExits
    /\ dtor = "alive" /\ i = 0 /\ suc = -1
    /\ accepted = <<>>
    /\ taken = <<>>
    /\ calls = [m \in Data |-> 0]
    /\ freed = [m \in Messages |-> 0]

Free(m) == freed' = [freed EXCEPT ![m] = @ + 1]

-----------------------------------------------------------------------------
(* put() *)

\* Mutation: put() does not look at is_thread_exit_.
PushAlways(m) ==
    /\ queue' = Append(queue, m)
    /\ accepted' = Append(accepted, m)

Push(m) ==
    /\ ~is_thread_exit_
    /\ queue' = Append(queue, m)
    /\ accepted' = Append(accepted, m)

\* Mutation: notify_one() instead of notify_all().
NotifyOne ==
    LET sleepers == {t \in Threads : svc[t] = "wait"} IN
      IF sleepers = {} THEN UNCHANGED svc
      ELSE \E t \in sleepers : svc' = [svc EXCEPT ![t] = "top"]

\* cond_get_.notify_all()
NotifyAll == svc' = [t \in Threads |-> IF svc[t] = "wait" THEN "top" ELSE svc[t]]

PutAccepted(c, m) ==
    /\ dtor = "alive" /\ caller[c] = "idle"
    /\ m \in unsent
    /\ Push(m)
    /\ unsent' = unsent \ {m}
    /\ caller' = [caller EXCEPT ![c] = "notify"]
    /\ UNCHANGED <<flagVars, svc, data_p, dtorVars, taken, calls, freed>>

\* put() returns -1 and the caller, who still owns the message, deletes it.
PutRefused(c, m) ==
    /\ dtor = "alive" /\ caller[c] = "idle"
    /\ m \in unsent
    /\ is_thread_exit_
    /\ unsent' = unsent \ {m}
    /\ Free(m)
    /\ UNCHANGED <<queue, flagVars, svc, data_p, caller, dtorVars, accepted,
                   taken, calls>>

PutNotify(c) ==
    /\ caller[c] = "notify"
    /\ NotifyAll
    /\ caller' = [caller EXCEPT ![c] = "idle"]
    /\ UNCHANGED <<queue, flagVars, data_p, unsent, dtorVars, accepted, taken,
                   calls, freed>>

-----------------------------------------------------------------------------
(* svc(), run by every service thread *)

Goto(t, where) == svc' = [svc EXCEPT ![t] = where]

\* f1_(t_data)
SvcInit(t) ==
    /\ svc[t] = "init"
    /\ Goto(t, "top")
    /\ UNCHANGED <<queue, flagVars, data_p, caller, unsent, dtorVars, accepted,
                   taken, calls, freed>>

\* Empty queue: cond_get_.wait(mu_).
SvcWait(t) ==
    /\ svc[t] = "top" /\ queue = <<>> /\ ~is_thread_exit_
    /\ Goto(t, "wait")
    /\ UNCHANGED <<queue, flagVars, data_p, caller, unsent, dtorVars, accepted,
                   taken, calls, freed>>

\* A condition variable may wake its waiter without any notification.
SpuriousWake(t) ==
    /\ svc[t] = "wait"
    /\ Goto(t, "top")
    /\ UNCHANGED <<queue, flagVars, data_p, caller, unsent, dtorVars, accepted,
                   taken, calls, freed>>

\* Mutation: front() and pop() in two critical sections, so that another thread
\* may read the front message before it is removed.
PopLater ==
    /\ queue # <<>>
    /\ queue' \in {queue, Tail(queue)}
    /\ taken' = Append(taken, Head(queue))

Pop ==
    /\ queue # <<>>
    /\ queue' = Tail(queue)
    /\ taken' = Append(taken, Head(queue))

SvcPopData(t) ==
    /\ svc[t] = "top"
    /\ Pop
    /\ Head(queue) \in Data
    /\ data_p' = [data_p EXCEPT ![t] = Head(queue)]
    /\ Goto(t, "call")
    /\ UNCHANGED <<flagVars, caller, unsent, dtorVars, accepted, calls, freed>>

\* Mutation: the first exit message already raises is_thread_exit_.
RetireAll ==
    /\ thread_active_num_' = thread_active_num_ - 1
    /\ is_thread_exit_' = TRUE

\* Mutation: the counter of active threads is not decremented.
RetireUncounted == UNCHANGED flagVars

Retire ==
    /\ thread_active_num_' = thread_active_num_ - 1
    /\ is_thread_exit_' = (thread_active_num_' = 0)

\* Mutation: no break behind the exit message.
StayInLoop(t) == Goto(t, "top")
LeaveLoop(t) == Goto(t, "f2")

\* An exit message is deleted under mu_ and ends the loop of this thread.
SvcPopExit(t) ==
    /\ svc[t] = "top"
    /\ Pop
    /\ Head(queue) \in Exits
    /\ Retire
    /\ Free(Head(queue))
    /\ LeaveLoop(t)
    /\ UNCHANGED <<data_p, caller, unsent, dtorVars, accepted, calls>>

\* f_(data_p, t_data) has returned.
SvcCall(t) ==
    /\ svc[t] = "call"
    /\ calls' = [calls EXCEPT ![data_p[t]] = @ + 1]
    /\ Goto(t, "free")
    /\ UNCHANGED <<queue, flagVars, data_p, caller, unsent, dtorVars, accepted,
                   taken, freed>>

SvcFree(t) ==
    /\ svc[t] = "free"
    /\ Free(data_p[t])
    /\ data_p' = [data_p EXCEPT ![t] = NoMessage]
    /\ Goto(t, "top")
    /\ UNCHANGED <<queue, flagVars, caller, unsent, dtorVars, accepted, taken,
                   calls>>

\* f2_(t_data) has returned and so does svc().
SvcReturn(t) ==
    /\ svc[t] = "f2"
    /\ Goto(t, "done")
    /\ UNCHANGED <<queue, flagVars, data_p, caller, unsent, dtorVars, accepted,
                   taken, calls, freed>>

-----------------------------------------------------------------------------
(* ~many_to_many() *)

DtorStart ==
    /\ dtor = "alive" /\ \A c \in Callers : caller[c] = "idle"
    /\ dtor' = "check"
    /\ UNCHANGED <<queue, flagVars, svc, data_p, caller, unsent, i, suc,
                   accepted, taken, calls, freed>>

\* i < thread_active_num_, read without mu_ while the threads count it down;
\* behind the loop, join only if the last put() was accepted.
DtorCheck ==
    /\ dtor = "check"
    /\ dtor' = IF i < thread_active_num_ THEN "put"
               ELSE IF suc = 0 THEN "join" ELSE "left"
    /\ UNCHANGED <<queue, flagVars, svc, data_p, caller, unsent, i, suc,
                   accepted, taken, calls, freed>>

DtorPut ==
    /\ dtor = "put"
    /\ Push(DtorExit)
    /\ suc' = 0
    /\ dtor' = "notify"
    /\ UNCHANGED <<flagVars, svc, data_p, caller, unsent, i, taken, calls, freed>>

DtorPutRefused ==
    /\ dtor = "put"
    /\ is_thread_exit_
    /\ Free(DtorExit)
    /\ suc' = -1
    /\ i' = i + 1
    /\ dtor' = "check"
    /\ UNCHANGED <<queue, flagVars, svc, data_p, caller, unsent, accepted,
                   taken, calls>>

\* Mutation: the destructor's messages are queued without a notification.
DtorNotifyNobody ==
    /\ dtor = "notify"
    /\ i' = i + 1
    /\ dtor' = "check"
    /\ UNCHANGED <<queue, flagVars, svc, data_p, caller, unsent, suc, accepted,
                   taken, calls, freed>>

DtorNotify ==
    /\ dtor = "notify"
    /\ NotifyAll
    /\ i' = i + 1
    /\ dtor' = "check"
    /\ UNCHANGED <<queue, flagVars, data_p, caller, unsent, suc, accepted,
                   taken, calls, freed>>

\* thr_group_.join_all()
DtorJoin ==
    /\ dtor = "join" /\ \A t \in Threads : svc[t] = "done"
    /\ dtor' = "joined"
    /\ UNCHANGED <<queue, flagVars, svc, data_p, caller, unsent, i, suc,
                   accepted, taken, calls, freed>>

\* The object is gone and this thread still runs: undefined, it may go on as
\* if nothing had happened (the actions of svc()) or go down here.
SvcCrash(t) ==
    /\ dtor = "left" /\ svc[t] \notin {"done", "crashed"}
    /\ Goto(t, "crashed")
    /\ UNCHANGED <<queue, flagVars, data_p, caller, unsent, dtorVars, accepted,
                   taken, calls, freed>>

-----------------------------------------------------------------------------
SvcStep(t) == \/ SvcInit(t) \/ SvcWait(t) \/ SvcPopData(t) \/ SvcPopExit(t)
              \/ SvcCall(t) \/ SvcFree(t) \/ SvcReturn(t)

DtorStep == DtorCheck \/ DtorPut \/ DtorPutRefused \/ DtorNotify \/ DtorJoin

Next ==
    \/ \E c \in Callers, m \in unsent : PutAccepted(c, m)
    \/ \E c \in Callers, m \in unsent : PutRefused(c, m)
    \/ \E c \in Callers : PutNotify(c)
    \/ \E t \in Threads : SvcStep(t)
    \/ \E t \in Threads : SpuriousWake(t)
    \/ \E t \in Threads : SvcCrash(t)
    \/ DtorStart
    \/ DtorStep

\* Threads are scheduled and callbacks return; nobody has to call put() and
\* nobody has to destroy the object.
Fairness ==
    /\ \A t \in Threads : WF_vars(SvcStep(t))
    /\ \A c \in Callers : WF_vars(PutNotify(c))
    /\ WF_vars(DtorStep)

SafeSpec == Init /\ [][Next]_vars
Spec == SafeSpec /\ Fairness
-----------------------------------------------------------------------------
(* Properties *)

\* Every variable has its type.
TypeOK ==
    /\ queue \in Seq(Messages)
    /\ is_thread_exit_ \in BOOLEAN
    /\ thread_active_num_ \in Nat
    /\ svc \in [Threads -> {"init", "top", "wait", "call", "free", "f2", "done",
                            "crashed"}]
    /\ data_p \in [Threads -> Messages \cup {NoMessage}]
    /\ caller \in [Callers -> {"idle", "notify"}]
    /\ unsent \subseteq Data \cup ClientExits
    /\ dtor \in {"alive", "check", "put", "notify", "join", "joined", "left"}
    /\ i \in Nat /\ suc \in {-1, 0}
    /\ accepted \in Seq(Messages)
    /\ taken \in Seq(Messages)
    /\ calls \in [Data -> Nat]
    /\ freed \in [Messages -> Nat]

\* The threads whose loop is over.
Retired == {t \in Threads : svc[t] \in {"f2", "done", "crashed"}}

\* When is_thread_exit_ is up no thread is in its loop any more, so the branch
\* of svc() that looks at the flag (many_to_many.h:151) is never taken: unlike
\* many_to_one, these threads do not drain the queue.
ExitBranchDead == is_thread_exit_ => Retired = Threads

ExitsTaken == {k \in 1..Len(taken) : taken[k] \in Exits}

\* Threads exit alone, one for each exit message taken ("every svc thread is be
\* exit alone", test/thread/README:19), and thread_active_num_ counts the others.
RetiredOneByOne ==
    /\ thread_active_num_ = Cardinality(Threads \ Retired)
    /\ thread_active_num_ = Cardinality(Threads) - Cardinality(ExitsTaken)

\* No thread sleeps beside a non-empty queue unless a notify_all is still to
\* come: notifications wake every sleeper, whichever thread then gets the message.
NoSleeperBesideWork ==
    (\E t \in Threads : svc[t] = "wait") /\ queue # <<>> =>
        dtor = "notify" \/ \E c \in Callers : caller[c] = "notify"

\* However the threads interleave, one of them at most handles a message, and it
\* is deleted once, by the thread that handled it, after the callback.
HandledByOneThread ==
    /\ \A t, u \in Threads : t # u /\ data_p[t] # NoMessage => data_p[t] # data_p[u]
    /\ \A m \in Data :
         /\ calls[m] <= 1 /\ freed[m] <= 1
         /\ (freed[m] = 1 /\ calls[m] = 0) => \A k \in 1..Len(accepted) : accepted[k] # m

\* The promise of TaskQueue, with all service threads.
Queue == INSTANCE TaskQueue WITH
             Threads <- Cardinality(Threads), active <- thread_active_num_
ImplementsTaskQueue == Queue!Spec

ExitsAccepted == {k \in 1..Len(accepted) : accepted[k] \in Exits}

\* A destructor that joins returns if an exit message for every thread has been
\* accepted by then, whoever put it.
JoinReturnsWithEnoughExits ==
    (dtor = "join" /\ Cardinality(ExitsAccepted) >= Cardinality(Threads)) ~> dtor = "joined"

\* The destructor, "Block until the thread exit." (many_to_many.h:81): it returns
\* once it has asked the threads to exit.
DtorReturns == dtor # "alive" ~> dtor \in {"joined", "left"}
=============================================================================
