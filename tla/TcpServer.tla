------------------------------ MODULE TcpServer ------------------------------
(***************************************************************************)
(* bingo::TCP: tcp_server accepts connections, a tcp_svr_handler serves    *)
(* each of them, and tcp_svr_hdr_manager lets other threads reach a        *)
(* handler through its raw pointer.                                        *)
(*                                                                         *)
(* One thread runs the io_service (as every test of src/test/tcp does), so *)
(* a completion handler or a posted task is one action. The other threads  *)
(* only search sets_ under mu_ and post a task; a post between two         *)
(* statements of an io action cannot be told from one before or behind it. *)
(* A task posted to a handler, its read and its writes in progress each    *)
(* hold a shared_ptr to it; when the last one is gone the handler is       *)
(* destroyed and its address is free for another connection.               *)
(*                                                                         *)
(* The hooks are those of the tests: accept_success_func pushes into the   *)
(* manager and close_complete_func erases; the read and send hooks do what *)
(* such a hook may do, the write hook only reports. Times are compared only *)
(* with the period of the timer that looks at them: heard[h] says whether  *)
(* the time that counts for h was set since the last look, and a look may be *)
(* late.                                                                   *)
(***************************************************************************)
EXTENDS Naturals, Sequences, FiniteSets, SequencesExt

CONSTANTS
    Handlers,    \* addresses of tcp_svr_handler objects
    Packages,    \* addresses of send buffers
    MaxClients,  \* the limit accept_success_func sets (test_server_t7: 3)
    MaxPosted    \* bound: tasks posted to one handler and not yet run

ASSUME TcpServerAssumption ==
    /\ MaxClients \in Nat /\ MaxPosted \in Nat
    /\ Packages \cap {"close", "heartjump"} = {}

VARIABLES
    sets_,      \* the manager's handlers
    is_valid_,
    is_authentication_pass_,
    heard,      \* p1_ of an authenticated handler, p2_ of another one
    socket_,
    reading,    \* the read in progress
    posted,     \* tasks posted to the io_service for each handler, oldest first
    writing,    \* async_writes in progress: the order in which their bytes go out
    part,       \* those of which some but not all bytes are out
    heap,       \* the allocated send buffers
    closes      \* history: calls of close_complete_func since the handler was made

handlerVars == <<is_valid_, is_authentication_pass_, heard, socket_, reading, closes>>
sendVars == <<writing, part, heap>>
vars == <<sets_, handlerVars, posted, sendVars>>

Tasks == Packages \cup {"close", "heartjump"}

\* Somebody holds a shared_ptr to the handler.
Referenced(h) == reading[h] # "none" \/ posted[h] # <<>> \/ writing[h] # <<>>

Init ==
    /\ sets_ = {}
    /\ is_valid_ = [h \in Handlers |-> TRUE]
    /\ is_authentication_pass_ = [h \in Handlers |-> FALSE]
    /\ heard = [h \in Handlers |-> "fresh"]
    /\ socket_ = [h \in Handlers |-> "closed"]
    /\ reading = [h \in Handlers |-> "none"]
    /\ posted = [h \in Handlers |-> <<>>]
    /\ writing = [h \in Handlers |-> <<>>]
    /\ part = [h \in Handlers |-> {}]
    /\ heap = {}
    /\ closes = [h \in Handlers |-> 0]

-----------------------------------------------------------------------------
(* tcp_server *)

\* A client connects: new HANDLER, accept_success_func returns 0, start(). When
\* the hook returns -1 or the accept failed the new handler is destroyed again
\* and nothing here changes.
Accept(h) ==
    /\ ~Referenced(h) /\ h \notin sets_
    /\ Cardinality(sets_) # MaxClients
    /\ sets_' = sets_ \cup {h}
    /\ is_valid_' = [is_valid_ EXCEPT ![h] = TRUE]
    /\ is_authentication_pass_' = [is_authentication_pass_ EXCEPT ![h] = FALSE]
    /\ heard' = [heard EXCEPT ![h] = "fresh"]
    /\ socket_' = [socket_ EXCEPT ![h] = "open"]
    /\ reading' = [reading EXCEPT ![h] = "header"]
    /\ closes' = [closes EXCEPT ![h] = 0]
    /\ UNCHANGED <<posted, sendVars>>

\* send_close_in_thread of every handler of S. The threads leave the last place
\* to the timers, so a full queue already holds a close of theirs.
PostClose(S) ==
    posted' = [h \in Handlers |-> IF h \in S /\ Len(posted[h]) < MaxPosted
                                  THEN Append(posted[h], "close") ELSE posted[h]]

\* One look at the handlers of S: those not heard of since the last look are to
\* be closed; of the others, those to which the look comes late.
LookAt(S) ==
    /\ \E late \in SUBSET {h \in S : heard[h] = "fresh"} :
         PostClose(late \cup {h \in S : heard[h] = "stale"})
    /\ heard' = [h \in Handlers |-> IF h \in S THEN "stale" ELSE heard[h]]
    /\ UNCHANGED <<sets_, is_valid_, is_authentication_pass_, socket_, reading,
                   closes, sendVars>>

\* Mutation: the timers look at one another's handlers.
NotAuthenticatedInverted == {h \in sets_ : is_authentication_pass_[h]}
NotAuthenticated == {h \in sets_ : ~is_authentication_pass_[h]}

\* authentication_handler of the server, check_authentication_pass of the manager.
CheckAuthentication == NotAuthenticated # {} /\ LookAt(NotAuthenticated)

\* heartjump_handler of the server, check_heartjump of the manager.
CheckHeartjump ==
    LET authenticated == {h \in sets_ : is_authentication_pass_[h]}
    IN  authenticated # {} /\ LookAt(authenticated)

-----------------------------------------------------------------------------
(* Other threads, through the manager *)

Room(h) == Len(posted[h]) + 1 < MaxPosted

\* send_data_in_thread: the data is copied into a new buffer.
SendData(h, pk) ==
    /\ h \in sets_ /\ pk \notin heap /\ Room(h)
    /\ heap' = heap \cup {pk}
    /\ posted' = [posted EXCEPT ![h] = Append(@, pk)]
    /\ UNCHANGED <<sets_, handlerVars, writing, part>>

\* send_close_in_thread, or send_data_in_thread with more data than fits.
SendClose(h) ==
    /\ h \in sets_ /\ Room(h)
    /\ posted' = [posted EXCEPT ![h] = Append(@, "close")]
    /\ UNCHANGED <<sets_, handlerVars, sendVars>>

\* send_heartjump_in_thread: one task for every handler.
SendHeartjump ==
    /\ sets_ # {} /\ \A h \in sets_ : Room(h)
    /\ posted' = [h \in Handlers |-> IF h \in sets_ THEN Append(posted[h], "heartjump")
                                     ELSE posted[h]]
    /\ UNCHANGED <<sets_, handlerVars, sendVars>>

-----------------------------------------------------------------------------
(* tcp_svr_handler, in the io_service's thread *)

\* What a hook may do to its own handler: nothing, set_heartjump_datetime() or
\* set_authentication_pass().
HookCalls(h) ==
    \/ UNCHANGED <<is_authentication_pass_, heard>>
    \/ /\ is_authentication_pass_[h]
       /\ heard' = [heard EXCEPT ![h] = "fresh"]
       /\ UNCHANGED is_authentication_pass_
    \/ /\ is_authentication_pass_' = [is_authentication_pass_ EXCEPT ![h] = TRUE]
       /\ heard' = [heard EXCEPT ![h] = "fresh"]

\* Mutation: the handler stays registered until somebody asks for it.
CloseQuietly(h) ==
    /\ is_valid_' = [is_valid_ EXCEPT ![h] = FALSE]
    /\ closes' = [closes EXCEPT ![h] = @ + 1]
    /\ UNCHANGED sets_

\* close_completed: close_complete_func erases the handler from the manager.
CloseCompleted(h) ==
    /\ is_valid_' = [is_valid_ EXCEPT ![h] = FALSE]
    /\ closes' = [closes EXCEPT ![h] = @ + 1]
    /\ sets_' = sets_ \ {h}

\* read_handler with a header, not wrong. A body of no bytes is read at once and
\* leaves the length at header_size, so that the header is looked at again.
ReadHeader(h) ==
    /\ reading[h] \in {"header", "empty"} /\ socket_[h] = "open" /\ is_valid_[h]
    /\ \E remain \in {"empty", "body"} : reading' = [reading EXCEPT ![h] = remain]
    /\ UNCHANGED <<sets_, is_valid_, is_authentication_pass_, heard, socket_,
                   closes, posted, sendVars>>

\* read_handler with a whole message that is not wrong.
ReadFull(h) ==
    /\ reading[h] = "body" /\ socket_[h] = "open" /\ is_valid_[h]
    /\ HookCalls(h)
    /\ reading' = [reading EXCEPT ![h] = "header"]
    /\ UNCHANGED <<sets_, is_valid_, socket_, closes, posted, sendVars>>

\* Mutation: catch_error_func and close_socket, and no close_completed.
ReadEndsSilently(h) ==
    /\ reading[h] # "none" /\ socket_[h] = "open" /\ is_valid_[h]
    /\ reading' = [reading EXCEPT ![h] = "none"]
    /\ socket_' = [socket_ EXCEPT ![h] = "closed"]
    /\ UNCHANGED <<sets_, is_valid_, closes, is_authentication_pass_, heard, posted, sendVars>>

\* The read is the last one: the client closed the connection, or a hook found
\* the header or the message wrong, or the message would not fit.
ReadEnds(h) ==
    /\ reading[h] # "none" /\ socket_[h] = "open" /\ is_valid_[h]
    /\ reading' = [reading EXCEPT ![h] = "none"]
    /\ socket_' = [socket_ EXCEPT ![h] = "closed"]
    /\ CloseCompleted(h)
    /\ UNCHANGED <<is_authentication_pass_, heard, posted, sendVars>>

\* Mutation: read_handler does not look at is_valid_.
ReadCancelledTwice(h) ==
    /\ reading[h] # "none" /\ socket_[h] = "closed"
    /\ reading' = [reading EXCEPT ![h] = "none"]
    /\ CloseCompleted(h)
    /\ UNCHANGED <<is_authentication_pass_, heard, socket_, posted, sendVars>>

\* close_socket() was called, and the read in progress ends with an error:
\* nothing to do for a handler that is closed, else close_completed.
ReadCancelled(h) ==
    /\ reading[h] # "none" /\ socket_[h] = "closed"
    /\ reading' = [reading EXCEPT ![h] = "none"]
    /\ IF is_valid_[h] THEN CloseCompleted(h)
       ELSE UNCHANGED <<sets_, is_valid_, closes>>
    /\ UNCHANGED <<is_authentication_pass_, heard, socket_, posted, sendVars>>

\* A hook calls close_socket(), which is public.
CloseSocket(h) ==
    /\ is_valid_[h] /\ socket_[h] = "open"
    /\ socket_' = [socket_ EXCEPT ![h] = "closed"]
    /\ UNCHANGED <<sets_, is_valid_, is_authentication_pass_, heard, reading,
                   closes, posted, sendVars>>

\* The next task of the io_service that is bound to h.
Run(h, task) ==
    /\ posted[h] # <<>> /\ Head(posted[h]) = task
    /\ posted' = [posted EXCEPT ![h] = Tail(@)]

\* Mutation: the socket is left to the destructor.
CloseKeepsSocket(h) == CloseCompleted(h) /\ UNCHANGED socket_
CloseNow(h) == socket_' = [socket_ EXCEPT ![h] = "closed"] /\ CloseCompleted(h)

\* active_close, for the first such task; a later one only frees its error_what.
ActiveClose(h) ==
    /\ Run(h, "close")
    /\ IF is_valid_[h] THEN CloseNow(h)
       ELSE UNCHANGED <<sets_, is_valid_, socket_, closes>>
    /\ UNCHANGED <<is_authentication_pass_, heard, reading, sendVars>>

\* A hook that is only called for a handler that is not closed.
HookIfValid(h) ==
    IF is_valid_[h] THEN HookCalls(h) ELSE UNCHANGED <<is_authentication_pass_, heard>>

\* active_send_heartjump: the hook and nothing else.
ActiveSendHeartjump(h) ==
    /\ Run(h, "heartjump")
    /\ HookIfValid(h)
    /\ UNCHANGED <<sets_, is_valid_, socket_, reading, closes, sendVars>>

\* active_send_data: the hook returned 0 and async_write starts, whatever other
\* writes are in progress.
ActiveSendData(h, pk) ==
    /\ Run(h, pk)
    /\ is_valid_[h]
    /\ HookCalls(h)
    /\ writing' = [writing EXCEPT ![h] = Append(@, pk)]
    /\ UNCHANGED <<sets_, is_valid_, socket_, reading, closes, part, heap>>

\* Mutation: no free_snd_buffer for a handler that is closed.
DropKeepsBuffer(h, pk) ==
    /\ Run(h, pk)
    /\ HookIfValid(h)
    /\ heap' = IF is_valid_[h] THEN heap \ {pk} ELSE heap
    /\ UNCHANGED <<sets_, is_valid_, socket_, reading, closes, writing, part>>

\* active_send_data: the hook returned -1, or the handler is closed.
ActiveSendDropped(h, pk) ==
    /\ Run(h, pk)
    /\ HookIfValid(h)
    /\ heap' = heap \ {pk}
    /\ UNCHANGED <<sets_, is_valid_, socket_, reading, closes, writing, part>>

\* The socket takes some of the bytes of the write whose turn it is; async_write
\* then queues up with the rest behind the others.
WritePart(h) ==
    /\ socket_[h] = "open" /\ writing[h] # <<>> /\ Head(writing[h]) \notin part[h]
    /\ part' = [part EXCEPT ![h] = @ \cup {Head(writing[h])}]
    /\ writing' = [writing EXCEPT ![h] = Append(Tail(@), Head(@))]
    /\ UNCHANGED <<sets_, handlerVars, posted, heap>>

\* Mutation: a write that failed is started again.
WriteRetried(h, i) ==
    /\ socket_[h] = "open"
    /\ writing' = [writing EXCEPT ![h] = RemoveAt(@, i)]
    /\ part' = [part EXCEPT ![h] = @ \ {writing[h][i]}]
    /\ heap' = heap \ {writing[h][i]}

\* write_handler, of the i-th write: the hook, then free_snd_buffer.
WriteHandler(h, i) ==
    /\ writing' = [writing EXCEPT ![h] = RemoveAt(@, i)]
    /\ part' = [part EXCEPT ![h] = @ \ {writing[h][i]}]
    /\ heap' = heap \ {writing[h][i]}

\* The last bytes are out.
WriteDone(h) ==
    /\ socket_[h] = "open" /\ writing[h] # <<>>
    /\ WriteHandler(h, 1)
    /\ UNCHANGED <<sets_, handlerVars, posted>>

\* The write fails, because the socket is closed or because the client is gone;
\* the handler learns of a client that is gone from its read.
WriteFails(h) ==
    /\ \E i \in DOMAIN writing[h] : WriteHandler(h, i)
    /\ UNCHANGED <<sets_, handlerVars, posted>>

-----------------------------------------------------------------------------
RunTask(h) ==
    \/ ActiveClose(h) \/ ActiveSendHeartjump(h)
    \/ \E pk \in Packages : ActiveSendData(h, pk)
    \/ \E pk \in Packages : ActiveSendDropped(h, pk)

ReadStep(h) == ReadHeader(h) \/ ReadFull(h) \/ ReadEnds(h) \/ ReadCancelled(h)

Next ==
    \/ CheckAuthentication \/ CheckHeartjump \/ SendHeartjump
    \/ \E h \in Handlers, pk \in Packages : SendData(h, pk)
    \/ \E h \in Handlers :
         \/ Accept(h) \/ SendClose(h) \/ CloseSocket(h)
         \/ RunTask(h) \/ ReadStep(h)
         \/ WritePart(h) \/ WriteDone(h) \/ WriteFails(h)

\* The io_service runs what was posted and completes what was cancelled, and the
\* timers come round. A client need neither send nor receive anything.
Fairness ==
    /\ WF_vars(CheckAuthentication) /\ WF_vars(CheckHeartjump)
    /\ \A h \in Handlers :
         /\ WF_vars(RunTask(h))
         /\ WF_vars(ReadCancelled(h))
         /\ WF_vars(socket_[h] = "closed" /\ WriteFails(h))

SafeSpec == Init /\ [][Next]_vars
Spec == SafeSpec /\ Fairness
-----------------------------------------------------------------------------
(* Properties *)

\* Every variable has its type.
TypeOK ==
    /\ sets_ \subseteq Handlers
    /\ is_valid_ \in [Handlers -> BOOLEAN]
    /\ is_authentication_pass_ \in [Handlers -> BOOLEAN]
    /\ heard \in [Handlers -> {"fresh", "stale"}]
    /\ socket_ \in [Handlers -> {"open", "closed"}]
    /\ reading \in [Handlers -> {"none", "header", "empty", "body"}]
    /\ posted \in [Handlers -> Seq(Tasks)]
    /\ writing \in [Handlers -> Seq(Packages)]
    /\ part \in [Handlers -> SUBSET Packages]
    /\ heap \subseteq Packages
    /\ closes \in [Handlers -> 0..1]

\* The raw pointers in the manager are good: a registered handler is kept alive
\* by its read, so the threads that find it there may take a shared_ptr.
NoDanglingHandler == \A h \in sets_ : reading[h] # "none"

\* The user hears of the end of a connection once, and the manager forgets the
\* handler exactly then: whatever mixture of client, hooks, timers and threads
\* ends it, and however many closes are still posted.
ClosedOnce ==
    \A h \in Handlers : Referenced(h) =>
        /\ closes[h] = IF is_valid_[h] THEN 0 ELSE 1
        /\ h \in sets_ <=> is_valid_[h]

\* A connection that was reported as closed does not keep its socket open.
ClosedSocket == \A h \in Handlers : closes[h] > 0 => socket_[h] = "closed"

\* The places that own a send buffer: one posted task or one write in progress.
Owners(pk) == {h \in Handlers : pk \in ToSet(posted[h])} \X {"posted"}
              \cup {h \in Handlers : pk \in ToSet(writing[h])} \X {"writing"}

\* No send buffer occurs twice among the tasks or writes of q.
OnceEach(q) == \A i, j \in DOMAIN q : q[i] \in Packages /\ q[i] = q[j] => i = j

\* A send buffer has one owner as long as it is allocated, and none afterwards:
\* it is never freed twice, used after the free or leaked.
BufferOwnedOnce ==
    /\ \A pk \in Packages : Cardinality(Owners(pk)) = IF pk \in heap THEN 1 ELSE 0
    /\ \A h \in Handlers : OnceEach(posted[h]) /\ OnceEach(writing[h])

\* A connection does not outlive its silence: a client that is not authenticated
\* in time, or is authenticated and sends no heart-jump, is closed. One that stays
\* is looked at again and again, by one timer or the other, and heard of again
\* and again.
SilentIsClosed ==
    \A h \in Handlers :
        /\ []<>(h \notin sets_ \/ heard[h] = "stale")
        /\ []<>(h \notin sets_ \/ heard[h] = "fresh")

\* The buffers of a closed connection are freed, whether posted or being written.
ClosedIsDrained ==
    \A h \in Handlers :
        (Referenced(h) /\ ~is_valid_[h]) ~> (~Referenced(h) \/ is_valid_[h])

\* "the message is correct both from server and to server" (test/tcp/README:50):
\* the bytes of a message go out in one piece.
FramesIntact ==
    \A h \in Handlers : part[h] # {} => part[h] = {Head(writing[h])}
=============================================================================
