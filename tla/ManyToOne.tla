------------------------------ MODULE ManyToOne ------------------------------
(***************************************************************************)
(* bingo::thread::many_to_one (src/bingo/thread/many_to_one.h): any number *)
(* of threads put() messages into one queue, a single service thread runs  *)
(* svc(), and the destructor asks that thread to exit.                     *)
(*                                                                         *)
(* The critical sections that mu_ protects are single actions: nothing     *)
(* another thread does can be seen between their first and last statement. *)
(* The one exception is the free callback f2_, which svc() calls with mu_  *)
(* still held: svc = "f2" is that long critical section, and put() waits.  *)
(*                                                                         *)
(* The service thread is assumed to reach its first critical section after *)
(* the constructor has initialised the members declared behind thr_; and   *)
(* the owner destroys the object only when no caller is inside put(), and  *)
(* calls put() no more afterwards.                                         *)
(***************************************************************************)
EXTENDS Naturals, Sequences

CONSTANTS
    Callers,      \* threads that call put()
    Data,         \* data messages the callers have, each is put at most once
    ClientExits,  \* exit messages the callers have
    DtorExit,     \* the exit message the destructor allocates
    NoMessage     \* the null data_p of svc()

ASSUME ManyToOneAssumption ==
    /\ Data \cap ClientExits = {}
    /\ DtorExit \notin Data \cup ClientExits
    /\ NoMessage \notin Data \cup ClientExits \cup {DtorExit}

Exits == ClientExits \cup {DtorExit}
Messages == Data \cup Exits

VARIABLES
    queue,            \* queue_
    is_thread_exit_,
    svc,              \* where the service thread stands
    data_p,           \* the message svc() has popped and not yet freed
    caller,           \* what each caller of put() is doing
    unsent,           \* the messages no caller has put yet
    dtor,             \* where the destructor stands
    accepted,         \* history: messages put() returned 0 for, in that order
    taken,            \* history: messages popped, in that order
    called,           \* history: messages f_ has been called with, in order
    freed             \* history: how often each message was deleted

svcVars == <<svc, data_p, taken, called>>
vars == <<queue, is_thread_exit_, svc, data_p, caller, unsent, dtor,
          accepted, taken, called, freed>>

\* Mutation: the constructor does not set is_thread_exit_.
ExitFlagUnset == is_thread_exit_ \in {FALSE, NoMessage}
ExitFlagInit == is_thread_exit_ = FALSE

Init ==
    /\ queue = <<>>
    /\ ExitFlagInit
    /\ svc = "init"
    /\ data_p = NoMessage
    /\ caller = [c \in Callers |-> "idle"]
    /\ unsent = Data \cup ClientExits
    /\ dtor = "alive"
    /\ accepted = <<>>
    /\ taken = <<>>
    /\ called = <<>>
    /\ freed = [m \in Messages |-> 0]

MutexFree == svc # "f2"

Free(m) == freed' = [freed EXCEPT ![m] = @ + 1]

-----------------------------------------------------------------------------
(* put() *)

\* Mutation: exit messages overtake the queue.
PushUrgent(m) ==
    /\ ~is_thread_exit_
    /\ queue' = IF m \in Exits THEN <<m>> \o queue ELSE Append(queue, m)
    /\ accepted' = Append(accepted, m)

\* Mutation: put() does not look at is_thread_exit_.
PushAlways(m) ==
    /\ queue' = Append(queue, m)
    /\ accepted' = Append(accepted, m)

Push(m) ==
    /\ ~is_thread_exit_
    /\ queue' = Append(queue, m)
    /\ accepted' = Append(accepted, m)

\* Mutation: nobody is notified.
NotifyNone == UNCHANGED svc

\* cond_get_.notify_one(): the one possible waiter is the service thread.
NotifyOne == svc' = IF svc = "wait" THEN "top" ELSE svc

\* The critical section of put() when the message is accepted.
PutAccepted(c, m) ==
    /\ dtor = "alive" /\ caller[c] = "idle" /\ MutexFree
    /\ m \in unsent
    /\ Push(m)
    /\ unsent' = unsent \ {m}
    /\ caller' = [caller EXCEPT ![c] = "notify"]
    /\ UNCHANGED <<is_thread_exit_, svcVars, dtor, freed>>

\* put() returns -1 and the caller, who still owns the message, deletes it.
PutRefused(c, m) ==
    /\ dtor = "alive" /\ caller[c] = "idle" /\ MutexFree
    /\ m \in unsent
    /\ is_thread_exit_
    /\ unsent' = unsent \ {m}
    /\ Free(m)
    /\ UNCHANGED <<queue, is_thread_exit_, svcVars, caller, dtor, accepted>>

PutNotify(c) ==
    /\ caller[c] = "notify"
    /\ NotifyOne
    /\ caller' = [caller EXCEPT ![c] = "idle"]
    /\ UNCHANGED <<queue, is_thread_exit_, data_p, unsent, dtor, accepted,
                   taken, called, freed>>

-----------------------------------------------------------------------------
(* svc() *)

\* f1_(t_data)
SvcInit ==
    /\ svc = "init"
    /\ svc' = "top"
    /\ UNCHANGED <<queue, is_thread_exit_, data_p, caller, unsent, dtor,
                   accepted, taken, called, freed>>

\* Empty queue and no exit: cond_get_.wait(mu_).
SvcWait ==
    /\ svc = "top" /\ queue = <<>> /\ ~is_thread_exit_
    /\ svc' = "wait"
    /\ UNCHANGED <<queue, is_thread_exit_, data_p, caller, unsent, dtor,
                   accepted, taken, called, freed>>

\* A condition variable may wake its waiter without any notification.
SpuriousWake ==
    /\ svc = "wait"
    /\ svc' = "top"
    /\ UNCHANGED <<queue, is_thread_exit_, data_p, caller, unsent, dtor,
                   accepted, taken, called, freed>>

\* Pop the oldest message; an exit message raises is_thread_exit_.
SvcPop ==
    /\ svc = "top" /\ queue # <<>>
    /\ data_p' = Head(queue)
    /\ queue' = Tail(queue)
    /\ taken' = Append(taken, Head(queue))
    /\ is_thread_exit_' = (is_thread_exit_ \/ Head(queue) \in Exits)
    /\ svc' = IF Head(queue) \in Exits THEN "free" ELSE "call"
    /\ UNCHANGED <<caller, unsent, dtor, accepted, called, freed>>

\* Mutation: the callback deletes the message and leaves the pointer set.
SvcCallDeletes ==
    /\ svc = "call"
    /\ called' = Append(called, data_p)
    /\ Free(data_p)
    /\ svc' = "free"
    /\ UNCHANGED <<queue, is_thread_exit_, data_p, caller, unsent, dtor,
                   accepted, taken>>

\* f_(data_p, t_data) has returned.
SvcCall ==
    /\ svc = "call"
    /\ called' = Append(called, data_p)
    /\ svc' = "free"
    /\ UNCHANGED <<queue, is_thread_exit_, data_p, caller, unsent, dtor,
                   accepted, taken, freed>>

SvcFree ==
    /\ svc = "free"
    /\ Free(data_p)
    /\ data_p' = NoMessage
    /\ svc' = "top"
    /\ UNCHANGED <<queue, is_thread_exit_, caller, unsent, dtor, accepted,
                   taken, called>>

\* Mutation: the thread leaves at the exit message, whatever is still queued.
SvcExitAtOnce ==
    /\ svc = "top" /\ is_thread_exit_
    /\ svc' = "f2"
    /\ UNCHANGED <<queue, is_thread_exit_, data_p, caller, unsent, dtor,
                   accepted, taken, called, freed>>

\* Empty queue after an exit message: f2_(t_data), mu_ still locked.
SvcDrained ==
    /\ svc = "top" /\ queue = <<>> /\ is_thread_exit_
    /\ svc' = "f2"
    /\ UNCHANGED <<queue, is_thread_exit_, data_p, caller, unsent, dtor,
                   accepted, taken, called, freed>>

SvcReturn ==
    /\ svc = "f2"
    /\ svc' = "done"
    /\ UNCHANGED <<queue, is_thread_exit_, data_p, caller, unsent, dtor,
                   accepted, taken, called, freed>>

-----------------------------------------------------------------------------
(* ~many_to_one() *)

NoCallerInside == \A c \in Callers : caller[c] = "idle"

\* Mutation: the destructor queues its exit message and notifies nobody.
DtorPutSilent ==
    /\ dtor = "alive" /\ NoCallerInside /\ MutexFree
    /\ Push(DtorExit)
    /\ dtor' = "join"
    /\ UNCHANGED <<is_thread_exit_, svcVars, caller, unsent, freed>>

\* put() of the exit message succeeds: it can fail only with SVC_IS_EXITED, so
\* the do-while loop runs once.
DtorPut ==
    /\ dtor = "alive" /\ NoCallerInside /\ MutexFree
    /\ Push(DtorExit)
    /\ dtor' = "notify"
    /\ UNCHANGED <<is_thread_exit_, svcVars, caller, unsent, freed>>

DtorNotify ==
    /\ dtor = "notify"
    /\ NotifyOne
    /\ dtor' = "join"
    /\ UNCHANGED <<queue, is_thread_exit_, data_p, caller, unsent, accepted,
                   taken, called, freed>>

DtorJoin ==
    /\ dtor = "join" /\ svc = "done"
    /\ dtor' = "joined"
    /\ UNCHANGED <<queue, is_thread_exit_, svcVars, caller, unsent, accepted, freed>>

\* put() said that the thread has exited: free the message and return at once.
DtorLeave ==
    /\ dtor = "alive" /\ NoCallerInside /\ MutexFree
    /\ is_thread_exit_
    /\ Free(DtorExit)
    /\ dtor' = "left"
    /\ UNCHANGED <<queue, is_thread_exit_, svcVars, caller, unsent, accepted>>

\* The object is gone and its thread still runs: undefined, it may go on as if
\* nothing had happened (the actions of svc()) or go down here.
SvcCrash ==
    /\ dtor = "left" /\ svc \notin {"done", "crashed"}
    /\ svc' = "crashed"
    /\ UNCHANGED <<queue, is_thread_exit_, data_p, caller, unsent, dtor,
                   accepted, taken, called, freed>>

Terminated ==
    /\ dtor \in {"joined", "left"} /\ svc \in {"done", "crashed"}
    /\ UNCHANGED vars

-----------------------------------------------------------------------------
SvcStep == SvcInit \/ SvcWait \/ SvcPop \/ SvcCall \/ SvcFree \/ SvcDrained \/ SvcReturn

Next ==
    \/ \E c \in Callers, m \in unsent : PutAccepted(c, m)
    \/ \E c \in Callers, m \in unsent : PutRefused(c, m)
    \/ \E c \in Callers : PutNotify(c)
    \/ SvcStep
    \/ SpuriousWake
    \/ DtorPut \/ DtorNotify \/ DtorJoin \/ DtorLeave
    \/ SvcCrash
    \/ Terminated

\* Threads are scheduled and callbacks return; nobody has to call put() and
\* nobody has to destroy the object.
Fairness ==
    /\ WF_vars(SvcStep)
    /\ \A c \in Callers : WF_vars(PutNotify(c))
    /\ WF_vars(DtorNotify)
    /\ WF_vars(DtorJoin)

SafeSpec == Init /\ [][Next]_vars
Spec == SafeSpec /\ Fairness
-----------------------------------------------------------------------------
(* Properties *)

\* Every variable has its type.
TypeOK ==
    /\ queue \in Seq(Messages)
    /\ is_thread_exit_ \in BOOLEAN
    /\ svc \in {"init", "top", "wait", "call", "free", "f2", "done", "crashed"}
    /\ data_p \in Messages \cup {NoMessage}
    /\ caller \in [Callers -> {"idle", "notify"}]
    /\ unsent \subseteq Data \cup ClientExits
    /\ dtor \in {"alive", "notify", "join", "joined", "left"}
    /\ accepted \in Seq(Messages)
    /\ taken \in Seq(Messages)
    /\ called \in Seq(Messages)
    /\ freed \in [Messages -> Nat]

\* No accepted message is lost, duplicated or overtaken between put() and the
\* pop in svc(), whoever put it and whatever exit messages are among them.
FifoDelivery == accepted = taken \o queue

\* No lost wakeup: when the service thread sleeps on cond_get_ beside a
\* non-empty queue, whoever pushed last has its notify_one() still to do. (The
\* push and the notify are apart: put() notifies after it has unlocked mu_.)
NoLostWakeup ==
    svc = "wait" /\ queue # <<>> =>
        dtor = "notify" \/ \E c \in Callers : caller[c] = "notify"

\* A message is deleted at most once, and never while it is still queued or in
\* the hands of svc(), although callers, the service thread and the destructor
\* all delete messages.
FreedOnce ==
    \A m \in Messages :
        /\ freed[m] <= 1
        /\ freed[m] = 1 => m # data_p /\ \A i \in 1..Len(queue) : queue[i] # m

\* A destructor that joined leaves nothing behind: the thread has returned,
\* every accepted message was taken and deleted, and f_ saw every data message.
JoinedMeansDrained ==
    dtor = "joined" =>
        /\ svc = "done"
        /\ queue = <<>>
        /\ \A i \in 1..Len(accepted) :
             /\ freed[accepted[i]] = 1
             /\ accepted[i] \in Data => \E j \in 1..Len(called) : called[j] = accepted[i]

\* The destructor, "Block until the thread exit." (many_to_one.h:63): once it has
\* returned the service thread no longer touches the object.
DtorBlocksUntilExit == dtor \in {"joined", "left"} => svc = "done"

\* The one service thread counts as retired once is_thread_exit_ is up.
ActiveThreads == IF is_thread_exit_ THEN 0 ELSE 1

\* The promise of TaskQueue, with one service thread.
Queue == INSTANCE TaskQueue WITH Threads <- 1, active <- ActiveThreads
ImplementsTaskQueue == Queue!Spec

\* A data message that put() accepted reaches f_, even when exit messages were
\* taken before it: svc() drains the queue before it returns.
AcceptedIsHandled ==
    \A m \in Data :
        (\E i \in 1..Len(accepted) : accepted[i] = m)
            ~> (svc = "crashed" \/ \E j \in 1..Len(called) : called[j] = m)

\* The destructor returns: its exit message is never stuck behind a sleeping thread.
DtorReturns == dtor # "alive" ~> dtor \in {"joined", "left"}
=============================================================================
