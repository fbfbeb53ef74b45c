---------------------------- MODULE TcpSslServer ----------------------------
(***************************************************************************)
(* bingo::TCP: tcp_ssl_server and tcp_svr_ssl_handler, the server of       *)
(* TcpServer behind an SSL handshake. What differs is who owns a handler:  *)
(* nobody. Every operation and posted task holds the raw pointer; a        *)
(* handler whose handshake fails deletes itself, any other handler is      *)
(* never deleted.                                                          *)
(*                                                                         *)
(* One thread runs the io_service. Its queue is a queue of tasks for each  *)
(* handler, in which the completion of the handshake has its place, because *)
(* what stands behind it meets a deleted handler. The other threads find a *)
(* handler in sets_ and post while they hold the manager's mu_. Hooks and  *)
(* times are those of TcpServer, but only a message of the client makes a  *)
(* hook set a time. Send buffers have no names here.                       *)
(***************************************************************************)
EXTENDS Naturals, Sequences, FiniteSets

CONSTANTS
    Handlers,   \* addresses of tcp_svr_ssl_handler objects
    MaxPosted,  \* bound: entries of the queue of one handler
    MaxWriting  \* bound: async_writes in progress for one handler

ASSUME TcpSslServerAssumption == MaxPosted \in Nat /\ MaxWriting \in Nat

VARIABLES
    sets_,      \* the manager's handlers
    alive,      \* the handlers that are allocated
    is_valid_,
    is_authentication_pass_,
    heard,      \* the time the timers look at was set since the last look
    socket_,
    handshake,  \* async_handshake is in progress
    reading,    \* the async_read in progress
    queue,      \* posted tasks and the handshake's completion, oldest first
    writing,    \* number of async_writes in progress
    closes,     \* history: calls of close_complete_func since the handler was made
    risky,      \* history: something was started that no longer waits its turn
    crashed

closeVars == <<sets_, is_valid_, closes>>
timeVars == <<is_authentication_pass_, heard>>
vars == <<closeVars, timeVars, alive, socket_, handshake, reading, queue, writing, risky, crashed>>

Tasks == {"data", "close", "heartjump"}
Completions == {"handshake ok", "handshake failed"}

Init ==
    /\ sets_ = {} /\ alive = {}
    /\ is_valid_ = [h \in Handlers |-> TRUE]
    /\ is_authentication_pass_ = [h \in Handlers |-> FALSE]
    /\ heard = [h \in Handlers |-> "fresh"]
    /\ socket_ = [h \in Handlers |-> "closed"]
    /\ handshake = [h \in Handlers |-> FALSE]
    /\ reading = [h \in Handlers |-> "none"]
    /\ queue = [h \in Handlers |-> <<>>]
    /\ writing = [h \in Handlers |-> 0]
    /\ closes = [h \in Handlers |-> 0]
    /\ risky = {} /\ crashed = FALSE

\* The failed handshake stands in the queue and will delete the handler.
Doomed(h) == \E i \in DOMAIN queue[h] : queue[h][i] = "handshake failed"

\* The raw pointer of a deleted handler is still in use.
Dangling(h) == h \notin alive /\ (queue[h] # <<>> \/ writing[h] > 0)

-----------------------------------------------------------------------------
(* tcp_ssl_server *)

\* accept_handler: new HANDLER, accept_success_func returns 0, start().
Accept(h) ==
    /\ h \notin alive /\ ~Dangling(h)
    /\ alive' = alive \cup {h}
    /\ sets_' = sets_ \cup {h}
    /\ is_valid_' = [is_valid_ EXCEPT ![h] = TRUE]
    /\ is_authentication_pass_' = [is_authentication_pass_ EXCEPT ![h] = FALSE]
    /\ heard' = [heard EXCEPT ![h] = "fresh"]
    /\ socket_' = [socket_ EXCEPT ![h] = "open"]
    /\ handshake' = [handshake EXCEPT ![h] = TRUE]
    /\ closes' = [closes EXCEPT ![h] = 0]
    /\ risky' = risky \ {h}
    /\ UNCHANGED <<reading, queue, writing, crashed>>

\* accept_handler: accept_success_func returns -1; the socket is closed, and the
\* handler is neither started nor ever deleted.
AcceptRefused(h) ==
    /\ h \notin alive /\ ~Dangling(h)
    /\ alive' = alive \cup {h}
    /\ is_valid_' = [is_valid_ EXCEPT ![h] = TRUE]
    /\ closes' = [closes EXCEPT ![h] = 0]
    /\ UNCHANGED <<sets_, timeVars, socket_, handshake, reading, queue, writing, risky, crashed>>

\* send_*_in_thread: what is posted behind a failed handshake comes too late.
Post(S, task) ==
    /\ queue' = [h \in Handlers |-> IF h \in S THEN Append(queue[h], task) ELSE queue[h]]
    /\ risky' = risky \cup {h \in S : Doomed(h)}

\* The threads leave the last two places to the timers and to the handshake.
Room(h) == Len(queue[h]) + 2 < MaxPosted

\* One look at the handlers of S: send_close_in_thread of those not heard of since
\* the last look and of those to which the look comes late.
LookAt(S) ==
    /\ \E late \in SUBSET {h \in S : heard[h] = "fresh"} :
         Post({h \in late \cup {g \in S : heard[g] = "stale"} : Len(queue[h]) + 1 < MaxPosted},
              "close")
    /\ heard' = [h \in Handlers |-> IF h \in S THEN "stale" ELSE heard[h]]
    /\ UNCHANGED <<closeVars, alive, is_authentication_pass_, socket_, handshake, reading,
                   writing, crashed>>

\* Mutation: the time to authenticate runs from the end of the handshake.
CheckAuthenticationLater ==
    LET waiting == {h \in sets_ : ~is_authentication_pass_[h] /\ ~handshake[h]}
    IN  waiting # {} /\ LookAt(waiting)

\* authentication_handler, with check_authentication_pass of the handlers.
CheckAuthentication ==
    LET waiting == {h \in sets_ : ~is_authentication_pass_[h]}
    IN  waiting # {} /\ LookAt(waiting)

\* heartjump_handler, with check_heartjump_timeout of the handlers.
CheckHeartjump ==
    LET authenticated == {h \in sets_ : is_authentication_pass_[h]}
    IN  authenticated # {} /\ LookAt(authenticated)

\* Another thread posts a task through the manager.
SendInThread(h, task) ==
    /\ h \in sets_ /\ Room(h)
    /\ Post({h}, task)
    /\ UNCHANGED <<closeVars, timeVars, alive, socket_, handshake, reading, writing, crashed>>

-----------------------------------------------------------------------------
(* tcp_svr_ssl_handler *)

\* What a message hook may do: nothing, set_heartjump_datetime, set_authentication_pass.
HookCalls(h) ==
    \/ UNCHANGED timeVars
    \/ /\ is_authentication_pass_[h]
       /\ heard' = [heard EXCEPT ![h] = "fresh"]
       /\ UNCHANGED is_authentication_pass_
    \/ /\ is_authentication_pass_' = [is_authentication_pass_ EXCEPT ![h] = TRUE]
       /\ heard' = [heard EXCEPT ![h] = "fresh"]

\* close_completed, whose hook erases the handler from the manager.
CloseCompleted(h) ==
    /\ is_valid_' = [is_valid_ EXCEPT ![h] = FALSE]
    /\ closes' = [closes EXCEPT ![h] = @ + 1]
    /\ sets_' = sets_ \ {h}

\* External: the handshake succeeds, or the client goes away or is refused by
\* the SSL library; handle_handshake is queued.
HandshakeEnds(h) ==
    /\ handshake[h]
    /\ handshake' = [handshake EXCEPT ![h] = FALSE]
    /\ \E result \in Completions : queue' = [queue EXCEPT ![h] = Append(@, result)]
    /\ risky' = IF writing[h] > 0 THEN risky \cup {h} ELSE risky
    /\ UNCHANGED <<closeVars, timeVars, alive, socket_, reading, writing, crashed>>

\* A hook of the handler calls close_socket(), which is public.
CloseSocket(h) ==
    /\ h \in sets_ /\ socket_[h] = "open"
    /\ socket_' = [socket_ EXCEPT ![h] = "closed"]
    /\ handshake' = [handshake EXCEPT ![h] = FALSE]
    /\ queue' = [queue EXCEPT ![h] = IF handshake[h] THEN Append(@, "handshake failed") ELSE @]
    /\ risky' = IF handshake[h] /\ writing[h] > 0 THEN risky \cup {h} ELSE risky
    /\ UNCHANGED <<closeVars, timeVars, alive, reading, writing, crashed>>

\* The task at the head of the queue of h.
Run(h, task) == queue[h] # <<>> /\ h \in alive /\ Head(queue[h]) = task

\* Mutation: the branch without an error falls through to the other one.
HandshakeOkFallsThrough(h) ==
    /\ Run(h, "handshake ok")
    /\ queue' = [queue EXCEPT ![h] = Tail(@)]
    /\ reading' = [reading EXCEPT ![h] = "header"]
    /\ CloseCompleted(h)
    /\ alive' = alive \ {h}
    /\ socket_' = [socket_ EXCEPT ![h] = "closed"]
    /\ UNCHANGED <<timeVars, handshake, writing, risky, crashed>>

\* handle_handshake without an error: the first read begins, closed or not.
HandshakeOk(h) ==
    /\ Run(h, "handshake ok")
    /\ queue' = [queue EXCEPT ![h] = Tail(@)]
    /\ reading' = [reading EXCEPT ![h] = "header"]
    /\ UNCHANGED <<closeVars, timeVars, alive, socket_, handshake, writing, risky, crashed>>

\* Mutation: handle_handshake does not look at is_valid_.
HandshakeFailedTwice(h) ==
    /\ Run(h, "handshake failed")
    /\ queue' = [queue EXCEPT ![h] = Tail(@)]
    /\ CloseCompleted(h)
    /\ alive' = alive \ {h}
    /\ socket_' = [socket_ EXCEPT ![h] = "closed"]
    /\ UNCHANGED <<timeVars, handshake, reading, writing, risky, crashed>>

\* handle_handshake with an error: close_completed unless that was done, delete this.
HandshakeFailed(h) ==
    /\ Run(h, "handshake failed")
    /\ queue' = [queue EXCEPT ![h] = Tail(@)]
    /\ IF is_valid_[h] THEN CloseCompleted(h) ELSE UNCHANGED closeVars
    /\ alive' = alive \ {h}
    /\ socket_' = [socket_ EXCEPT ![h] = "closed"]
    /\ UNCHANGED <<timeVars, handshake, reading, writing, risky, crashed>>

\* Mutation: the handler that is closed during its handshake deletes itself at once.
ActiveCloseDeletes(h) ==
    /\ Run(h, "close")
    /\ IF is_valid_[h]
       THEN /\ CloseCompleted(h)
            /\ socket_' = [socket_ EXCEPT ![h] = "closed"]
            /\ alive' = IF handshake[h] THEN alive \ {h} ELSE alive
            /\ handshake' = [handshake EXCEPT ![h] = FALSE]
            /\ queue' = [queue EXCEPT ![h] = Tail(@)]
       ELSE /\ queue' = [queue EXCEPT ![h] = Tail(@)]
            /\ UNCHANGED <<closeVars, socket_, alive, handshake>>
    /\ UNCHANGED <<timeVars, reading, writing, risky, crashed>>

\* active_close: close_socket cancels the handshake, whose completion is queued
\* behind the tasks that are there; a closed handler only frees the error_what.
ActiveClose(h) ==
    /\ Run(h, "close")
    /\ IF is_valid_[h]
       THEN /\ CloseCompleted(h)
            /\ socket_' = [socket_ EXCEPT ![h] = "closed"]
            /\ handshake' = [handshake EXCEPT ![h] = FALSE]
            /\ queue' = [queue EXCEPT ![h] = IF handshake[h]
                                             THEN Append(Tail(@), "handshake failed") ELSE Tail(@)]
            /\ risky' = IF handshake[h] /\ writing[h] > 0 THEN risky \cup {h} ELSE risky
       ELSE /\ queue' = [queue EXCEPT ![h] = Tail(@)]
            /\ UNCHANGED <<closeVars, socket_, handshake, risky>>
    /\ UNCHANGED <<timeVars, alive, reading, writing, crashed>>

\* active_send_heartjump: the hook and nothing else.
ActiveSendHeartjump(h) ==
    /\ Run(h, "heartjump")
    /\ queue' = [queue EXCEPT ![h] = Tail(@)]
    /\ UNCHANGED <<closeVars, timeVars, alive, socket_, handshake, reading, writing, risky, crashed>>

\* active_send_data: async_write, handshake or not; or the buffer is freed, because
\* the hook returned -1 or the handler is closed.
ActiveSendData(h) ==
    /\ Run(h, "data")
    /\ queue' = [queue EXCEPT ![h] = Tail(@)]
    /\ \/ /\ is_valid_[h] /\ writing[h] < MaxWriting
          /\ writing' = [writing EXCEPT ![h] = @ + 1]
          /\ risky' = IF Doomed(h) THEN risky \cup {h} ELSE risky
       \/ UNCHANGED <<writing, risky>>
    /\ UNCHANGED <<closeVars, timeVars, alive, socket_, handshake, reading, crashed>>

\* read_handler of a valid handler that goes on: a header, or a whole message.
ReadGoesOn(h) ==
    /\ reading[h] # "none" /\ is_valid_[h] /\ socket_[h] = "open"
    /\ reading' = [reading EXCEPT ![h] = IF @ = "header" THEN "body" ELSE "header"]
    /\ IF reading[h] = "body" THEN HookCalls(h) ELSE UNCHANGED timeVars
    /\ UNCHANGED <<closeVars, alive, socket_, handshake, queue, writing, risky, crashed>>

\* read_handler for the last time: a closed handler has nothing more to do, another
\* one is closed, because of the client, a hook or a message that does not fit.
ReadEnds(h) ==
    /\ reading[h] # "none"
    /\ reading' = [reading EXCEPT ![h] = "none"]
    /\ socket_' = [socket_ EXCEPT ![h] = "closed"]
    /\ IF is_valid_[h] THEN CloseCompleted(h) ELSE UNCHANGED closeVars
    /\ UNCHANGED <<timeVars, alive, handshake, queue, writing, risky, crashed>>

\* write_handler of a handler that lives: the hook, then free_snd_buffer.
WriteHandler(h) ==
    /\ writing[h] > 0 /\ h \in alive
    /\ writing' = [writing EXCEPT ![h] = @ - 1]
    /\ UNCHANGED <<closeVars, timeVars, alive, socket_, handshake, reading, queue, risky, crashed>>

\* A task or write_handler of a deleted handler: what the memory still holds lets it
\* end without an effect, or it does not.
RunStale(h) ==
    /\ Dangling(h)
    /\ \/ queue[h] # <<>> /\ queue' = [queue EXCEPT ![h] = Tail(@)] /\ UNCHANGED writing
       \/ writing[h] > 0 /\ writing' = [writing EXCEPT ![h] = @ - 1] /\ UNCHANGED queue
    /\ crashed' \in BOOLEAN
    /\ UNCHANGED <<closeVars, timeVars, alive, socket_, handshake, reading, risky>>

-----------------------------------------------------------------------------
RunTask(h) ==
    \/ HandshakeOk(h) \/ HandshakeFailed(h)
    \/ ActiveClose(h) \/ ActiveSendHeartjump(h) \/ ActiveSendData(h)

Step ==
    \/ CheckAuthentication \/ CheckHeartjump
    \/ \E h \in Handlers, task \in Tasks : SendInThread(h, task)
    \/ \E h \in Handlers :
         \/ Accept(h) \/ AcceptRefused(h) \/ HandshakeEnds(h)
         \/ CloseSocket(h) \/ RunTask(h)
         \/ ReadGoesOn(h) \/ ReadEnds(h) \/ WriteHandler(h) \/ RunStale(h)

Next == ~crashed /\ Step

\* The timers come round and the io_service runs what is queued. A client need
\* do nothing, not even finish its handshake.
Fairness ==
    /\ WF_vars(~crashed /\ CheckAuthentication)
    /\ WF_vars(~crashed /\ CheckHeartjump)
    /\ \A h \in Handlers : WF_vars(~crashed /\ RunTask(h))

SafeSpec == Init /\ [][Next]_vars
Spec == SafeSpec /\ Fairness
-----------------------------------------------------------------------------
(* Properties *)

\* Every variable has its type; what handshakes and reads is allocated.
TypeOK ==
    /\ sets_ \subseteq Handlers /\ alive \subseteq Handlers /\ risky \subseteq Handlers
    /\ is_valid_ \in [Handlers -> BOOLEAN]
    /\ is_authentication_pass_ \in [Handlers -> BOOLEAN]
    /\ heard \in [Handlers -> {"fresh", "stale"}]
    /\ socket_ \in [Handlers -> {"open", "closed"}]
    /\ handshake \in [Handlers -> BOOLEAN]
    /\ reading \in [Handlers -> {"none", "header", "body"}]
    /\ queue \in [Handlers -> Seq(Tasks \cup Completions)]
    /\ writing \in [Handlers -> Nat]
    /\ closes \in [Handlers -> Nat]
    /\ crashed \in BOOLEAN
    /\ \A h \in Handlers : handshake[h] \/ reading[h] # "none" => h \in alive

\* The end of a connection is reported once, whichever of handshake, read, timers
\* and threads ends it first, and the manager never holds a deleted handler.
ClosedOnce ==
    \A h \in Handlers :
        /\ closes[h] = IF is_valid_[h] THEN 0 ELSE 1
        /\ h \in sets_ => h \in alive /\ is_valid_[h]

\* A handler that deletes itself leaves nothing behind, except in two cases: a task
\* was posted while its failed handshake waited in the queue, or a write was in
\* progress during the handshake. In particular the tasks behind an active_close
\* that cancels the handshake still find their handler.
DanglingOnlyIfRisky ==
    \A h \in Handlers : Dangling(h) => h \in risky

\* No handshake lasts for ever, whatever the client does: the timers see a client that
\* never finishes it as silent and close the socket, and the handshake ends with it.
StalledHandshakeEnds ==
    \A h \in Handlers : handshake[h] ~> (~handshake[h] \/ crashed)
=============================================================================
