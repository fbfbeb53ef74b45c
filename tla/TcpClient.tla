------------------------------ MODULE TcpClient ------------------------------
(***************************************************************************)
(* bingo::TCP: a tcp_client keeps one connection to its server, made and   *)
(* served by a tcp_cet_handler; a connection that ends is replaced, and an *)
(* attempt that fails is repeated behind a growing delay.                  *)
(*                                                                         *)
(* One thread runs the io_service, as every test of src/test/tcp does, so a *)
(* completion handler or a posted task is one action. The other threads    *)
(* find a handler in a tcp_cet_hdr_manager, where connet_success_func      *)
(* pushes it and from which close_complete_func erases it. The operations  *)
(* in progress and the posted tasks hold a shared_ptr to their handler;    *)
(* when the last one is gone the handler is destroyed and its address is   *)
(* free for the next one. The client itself keeps a raw pointer, handler_. *)
(*                                                                         *)
(* Hooks: make_first_sended_package_func and connet_success_func give any  *)
(* of their results, the message hook may call set_authenticate_pass, and  *)
(* close_complete_func may take it back. timer2 is left out: nothing ever  *)
(* calls schedule_timer2.                                                  *)
(***************************************************************************)
EXTENDS Naturals, Sequences

CONSTANTS
    Handlers,     \* addresses of tcp_cet_handler objects
    Packages,     \* addresses of send buffers
    RetryDelays,  \* values of PARSER::retry_delay_seconds
    MaxRetryDelay,
    NoHandler,    \* handler_ before the first connection: uninitialised
    MaxPosted     \* bound: tasks posted to one handler and not yet run

ASSUME TcpClientAssumption ==
    /\ RetryDelays \subseteq Nat /\ MaxRetryDelay \in Nat /\ MaxPosted \in Nat
    /\ "close" \notin Packages
    /\ NoHandler \notin Handlers

VARIABLES
    retry_delay_seconds,  \* never changes
    retry_delay_,
    timer0,               \* the reconnect timer is running
    is_authenticate_pass_,
    handler_,
    connecting,           \* handlers whose async_connect is in progress
    is_valid_,
    socket_,
    reading,              \* the read in progress, or the write of the first package
    posted,               \* tasks posted for each handler, oldest first
    writing,              \* the buffers of the async_writes in progress
    heap,                 \* the allocated send buffers, without the first packages
    server,               \* whether an attempt to connect succeeds
    stopped,              \* history: the client gave up
    careless,             \* history: close_complete_func kept is_authenticate_pass_
    crashed               \* a destroyed handler was used

clientVars == <<retry_delay_, timer0, connecting, stopped>>
authVars == <<is_authenticate_pass_, careless>>
sendVars == <<posted, writing, heap>>
envVars == <<retry_delay_seconds, server, crashed>>
vars == <<clientVars, authVars, handler_, is_valid_, socket_, reading, sendVars, envVars>>

\* Somebody holds a shared_ptr to the handler.
Referenced(h) ==
    \/ h \in connecting \/ reading[h] # "none"
    \/ posted[h] # <<>> \/ writing[h] # {}

\* The handlers the manager knows.
Registered == {h \in Handlers : is_valid_[h] /\ reading[h] # "none"}

\* The constructor: start_connect with the first handler.
Init ==
    /\ retry_delay_seconds \in RetryDelays
    /\ retry_delay_ = retry_delay_seconds
    /\ timer0 = FALSE
    /\ is_authenticate_pass_ = FALSE
    /\ handler_ = NoHandler
    /\ \E h \in Handlers : /\ connecting = {h}
                           /\ socket_ = [g \in Handlers |-> IF g = h THEN "open" ELSE "closed"]
    /\ is_valid_ = [h \in Handlers |-> TRUE]
    /\ reading = [h \in Handlers |-> "none"]
    /\ posted = [h \in Handlers |-> <<>>]
    /\ writing = [h \in Handlers |-> {}]
    /\ heap = {}
    /\ server = "up"
    /\ stopped = FALSE /\ careless = FALSE /\ crashed = FALSE

-----------------------------------------------------------------------------
(* tcp_client *)

\* start_connect: n is a new handler; h is the one whose socket is closed, if any.
StartConnect(n, closed) ==
    /\ ~Referenced(n) /\ n \notin closed
    /\ connecting' = (connecting \ closed) \cup {n}
    /\ is_valid_' = [h \in Handlers |-> h = n \/ (h \notin closed /\ is_valid_[h])]
    /\ socket_' = [h \in Handlers |-> IF h = n THEN "open"
                                      ELSE IF h \in closed THEN "closed" ELSE socket_[h]]

\* reconnect: retry_delay_ starts again, and so does the client, unless
\* retry_delay_seconds is 0.
Reconnect(h) ==
    /\ retry_delay_' = retry_delay_seconds
    /\ IF retry_delay_seconds = 0
       THEN /\ connecting' = connecting \ {h}
            /\ is_valid_' = [is_valid_ EXCEPT ![h] = FALSE]
            /\ socket_' = [socket_ EXCEPT ![h] = "closed"]
            /\ stopped' = TRUE
       ELSE /\ \E n \in Handlers : StartConnect(n, {h})
            /\ UNCHANGED stopped

\* tcp_cet_handler::close_completed with the close_socket() before it: the hook,
\* then reconnet().
CloseCompleted(h) ==
    /\ Reconnect(h)
    /\ \E keep \in {is_authenticate_pass_, FALSE} :
         /\ is_authenticate_pass_' = keep
         /\ careless' = (careless \/ keep)

\* Mutation: the raw pointer is not saved.
ConnectedUnsaved(h) ==
    /\ h \in connecting /\ server = "up"
    /\ connecting' = connecting \ {h}
    /\ \E operation \in {"header", "first"} : reading' = [reading EXCEPT ![h] = operation]
    /\ UNCHANGED <<retry_delay_, timer0, stopped, authVars, handler_, is_valid_, socket_,
                   sendVars, envVars>>

\* connect_handler without an error; connet_success_func returns 0 and start()
\* begins to read, or to write the first package.
Connected(h) ==
    /\ h \in connecting /\ server = "up"
    /\ connecting' = connecting \ {h}
    /\ \E operation \in {"header", "first"} : reading' = [reading EXCEPT ![h] = operation]
    /\ handler_' = h
    /\ UNCHANGED <<retry_delay_, timer0, stopped, authVars, is_valid_, socket_, sendVars, envVars>>

\* The same, but make_first_sended_package_func returns -1: start() closes the
\* connection and reconnects, and then handler_ is set to the dying handler.
FirstPackageFails(h) ==
    /\ h \in connecting /\ server = "up"
    /\ CloseCompleted(h)
    /\ handler_' = h
    /\ UNCHANGED <<timer0, reading, sendVars, envVars>>

\* connet_success_func returns -1: close_socket, and nothing connects again.
Refused(h) ==
    /\ h \in connecting /\ server = "up"
    /\ connecting' = connecting \ {h}
    /\ socket_' = [socket_ EXCEPT ![h] = "closed"]
    /\ stopped' = TRUE
    /\ UNCHANGED <<retry_delay_, timer0, authVars, handler_, is_valid_, reading, sendVars, envVars>>

\* Mutation: the delay grows without end.
AtMostNever(delay, max) == delay

AtMost(delay, max) == IF delay > max THEN max ELSE delay

\* connect_handler with an error: the new handler dies, schedule_timer0 waits.
ConnectFails(h) ==
    /\ h \in connecting /\ server = "down"
    /\ connecting' = connecting \ {h}
    /\ socket_' = [socket_ EXCEPT ![h] = "closed"]
    /\ IF retry_delay_seconds = 0
       THEN stopped' = TRUE /\ UNCHANGED <<retry_delay_, timer0>>
       ELSE /\ retry_delay_' = AtMost(retry_delay_ * 2, MaxRetryDelay)
            /\ timer0' = TRUE
            /\ UNCHANGED stopped
    /\ UNCHANGED <<authVars, handler_, is_valid_, reading, sendVars, envVars>>

\* Mutation: the timer that expires is only set again.
ReconnectTimeoutRearms ==
    /\ timer0
    /\ retry_delay_' = AtMost(retry_delay_ * 2, MaxRetryDelay)
    /\ UNCHANGED <<timer0, connecting, stopped, authVars, handler_, is_valid_, socket_, reading,
                   sendVars, envVars>>

\* reconnect_timeout_handler.
ReconnectTimeout ==
    /\ timer0
    /\ timer0' = FALSE
    /\ \E n \in Handlers : StartConnect(n, {})
    /\ UNCHANGED <<retry_delay_, stopped, authVars, handler_, reading, sendVars, envVars>>

\* Room for one more task; the threads leave the last place to the timer.
Room(h, left) == Len(posted[h]) + left < MaxPosted

\* send_heartjump_timeout_handler: send_data_in_thread of whatever handler_ points to.
SendHeartjump ==
    /\ is_authenticate_pass_
    /\ IF handler_ \in Handlers /\ Referenced(handler_)
       THEN /\ Room(handler_, 0)
            /\ \E pk \in Packages \ heap :
                 /\ heap' = heap \cup {pk}
                 /\ posted' = [posted EXCEPT ![handler_] = Append(@, pk)]
            /\ UNCHANGED crashed
       ELSE crashed' = TRUE /\ UNCHANGED <<heap, posted>>
    /\ UNCHANGED <<clientVars, authVars, handler_, is_valid_, socket_, reading, writing,
                   retry_delay_seconds, server>>

-----------------------------------------------------------------------------
(* Other threads, through the manager *)

\* send_data_in_thread.
SendData(h, pk) ==
    /\ h \in Registered /\ pk \notin heap /\ Room(h, 1)
    /\ heap' = heap \cup {pk}
    /\ posted' = [posted EXCEPT ![h] = Append(@, pk)]
    /\ UNCHANGED <<clientVars, authVars, handler_, is_valid_, socket_, reading, writing, envVars>>

\* send_close_in_thread, or send_data_in_thread with more data than fits.
SendClose(h) ==
    /\ h \in Registered /\ Room(h, 1)
    /\ posted' = [posted EXCEPT ![h] = Append(@, "close")]
    /\ UNCHANGED <<clientVars, authVars, handler_, is_valid_, socket_, reading, writing, heap, envVars>>

-----------------------------------------------------------------------------
(* tcp_cet_handler, in the io_service's thread *)

\* write_first_handler: whatever came of the write and of the handler, it reads.
WriteFirstHandler(h) ==
    /\ reading[h] = "first"
    /\ reading' = [reading EXCEPT ![h] = "header"]
    /\ UNCHANGED <<clientVars, authVars, handler_, is_valid_, socket_, sendVars, envVars>>

\* read_handler with a header that is not wrong. A body of no bytes is read at
\* once and leaves the length at header_size: the header is looked at again.
ReadHeader(h) ==
    /\ reading[h] = "header" /\ is_valid_[h] /\ socket_[h] = "open"
    /\ reading' = [reading EXCEPT ![h] = "body"]
    /\ UNCHANGED <<clientVars, authVars, handler_, is_valid_, socket_, sendVars, envVars>>

\* read_handler with a whole message that is not wrong; its hook may have learnt
\* whether the server accepts the client.
ReadFull(h) ==
    /\ reading[h] = "body" /\ is_valid_[h] /\ socket_[h] = "open"
    /\ reading' = [reading EXCEPT ![h] = "header"]
    /\ is_authenticate_pass_' \in {is_authenticate_pass_, TRUE, FALSE}
    /\ UNCHANGED <<clientVars, careless, handler_, is_valid_, socket_, sendVars, envVars>>

\* Mutation: read_handler does not look at is_valid_.
ReadEndsTwice(h) ==
    /\ reading[h] \in {"header", "body"}
    /\ reading' = [reading EXCEPT ![h] = "none"]
    /\ CloseCompleted(h)
    /\ UNCHANGED <<timer0, handler_, sendVars, envVars>>

\* The read is the last one of a valid handler: the server closed the connection, a
\* hook found the message wrong, it would not fit, or a hook closed the socket.
ReadEnds(h) ==
    /\ reading[h] \in {"header", "body"} /\ is_valid_[h]
    /\ reading' = [reading EXCEPT ![h] = "none"]
    /\ CloseCompleted(h)
    /\ UNCHANGED <<timer0, handler_, sendVars, envVars>>

\* The read of a handler that is closed: nothing more to do.
ReadCancelled(h) ==
    /\ reading[h] \in {"header", "body"} /\ ~is_valid_[h]
    /\ reading' = [reading EXCEPT ![h] = "none"]
    /\ UNCHANGED <<clientVars, authVars, handler_, is_valid_, socket_, sendVars, envVars>>

\* A hook calls close_socket(), which is public.
CloseSocket(h) ==
    /\ h \in Registered /\ socket_[h] = "open"
    /\ socket_' = [socket_ EXCEPT ![h] = "closed"]
    /\ UNCHANGED <<clientVars, authVars, handler_, is_valid_, reading, sendVars, envVars>>

\* The next task that was posted for h.
Run(h, task) ==
    /\ posted[h] # <<>> /\ Head(posted[h]) = task
    /\ posted' = [posted EXCEPT ![h] = Tail(@)]

\* active_close: a handler that is closed already only frees the error_what.
ActiveClose(h) ==
    /\ Run(h, "close")
    /\ IF is_valid_[h] THEN CloseCompleted(h)
       ELSE UNCHANGED <<retry_delay_, connecting, stopped, authVars, is_valid_, socket_>>
    /\ UNCHANGED <<timer0, handler_, reading, writing, heap, envVars>>

\* active_send: the hook returned 0 and async_write starts.
ActiveSend(h, pk) ==
    /\ Run(h, pk)
    /\ is_valid_[h]
    /\ writing' = [writing EXCEPT ![h] = @ \cup {pk}]
    /\ UNCHANGED <<clientVars, authVars, handler_, is_valid_, socket_, reading, heap, envVars>>

\* active_send: the hook returned -1, or the handler is closed.
ActiveSendDropped(h, pk) ==
    /\ Run(h, pk)
    /\ heap' = heap \ {pk}
    /\ UNCHANGED <<clientVars, authVars, handler_, is_valid_, socket_, reading, writing, envVars>>

\* write_handler, with or without an error: the hook, then free_snd_buffer.
WriteHandler(h, pk) ==
    /\ pk \in writing[h]
    /\ writing' = [writing EXCEPT ![h] = @ \ {pk}]
    /\ heap' = heap \ {pk}
    /\ UNCHANGED <<clientVars, authVars, handler_, is_valid_, socket_, reading, posted, envVars>>

-----------------------------------------------------------------------------
\* External: the server goes away and comes back.
ServerChanges ==
    /\ server' = IF server = "up" THEN "down" ELSE "up"
    /\ UNCHANGED <<clientVars, authVars, handler_, is_valid_, socket_, reading, sendVars,
                   retry_delay_seconds, crashed>>

RunTask(h) ==
    \/ ActiveClose(h)
    \/ \E pk \in Packages : ActiveSend(h, pk)
    \/ \E pk \in Packages : ActiveSendDropped(h, pk)

ConnectHandler(h) == Connected(h) \/ FirstPackageFails(h) \/ Refused(h) \/ ConnectFails(h)

Step ==
    \/ ReconnectTimeout \/ SendHeartjump \/ ServerChanges
    \/ \E h \in Handlers, pk \in Packages : SendData(h, pk) \/ WriteHandler(h, pk)
    \/ \E h \in Handlers :
         \/ ConnectHandler(h) \/ SendClose(h) \/ CloseSocket(h) \/ RunTask(h)
         \/ WriteFirstHandler(h)
         \/ ReadHeader(h) \/ ReadFull(h) \/ ReadEnds(h) \/ ReadCancelled(h)

Next == ~crashed /\ Step

\* The io_service runs what was posted and completes what was cancelled or what
\* the server answers or refuses; the reconnect timer expires. The server need
\* neither send nor receive anything, and no thread need do anything.
Fairness ==
    /\ WF_vars(~crashed /\ ReconnectTimeout)
    /\ \A h \in Handlers :
         /\ WF_vars(~crashed /\ ConnectHandler(h))
         /\ WF_vars(~crashed /\ RunTask(h))
         /\ WF_vars(~crashed /\ ReadCancelled(h))
         /\ WF_vars(~crashed /\ socket_[h] = "closed" /\ ReadEnds(h))
         /\ WF_vars(~crashed /\ socket_[h] = "closed" /\ WriteFirstHandler(h))
         /\ WF_vars(~crashed /\ socket_[h] = "closed"
                    /\ \E pk \in Packages : WriteHandler(h, pk))

SafeSpec == Init /\ [][Next]_vars
Spec == SafeSpec /\ Fairness
-----------------------------------------------------------------------------
(* Properties *)

\* Every variable has its type; the delay between two attempts has its limit.
TypeOK ==
    /\ retry_delay_seconds \in RetryDelays
    /\ retry_delay_ \in {retry_delay_seconds} \cup 0..MaxRetryDelay
    /\ timer0 \in BOOLEAN
    /\ is_authenticate_pass_ \in BOOLEAN
    /\ handler_ \in Handlers \cup {NoHandler}
    /\ connecting \subseteq Handlers
    /\ is_valid_ \in [Handlers -> BOOLEAN]
    /\ socket_ \in [Handlers -> {"open", "closed"}]
    /\ reading \in [Handlers -> {"none", "first", "header", "body"}]
    /\ posted \in [Handlers -> Seq(Packages \cup {"close"})]
    /\ writing \in [Handlers -> SUBSET Packages]
    /\ heap \subseteq Packages
    /\ server \in {"up", "down"}
    /\ stopped \in BOOLEAN /\ careless \in BOOLEAN /\ crashed \in BOOLEAN

\* What can still lead to a connection, or is one: attempts, connections and the
\* reconnect timer.
Sources ==
    connecting \cup Registered \cup (IF timer0 THEN {"timer0"} ELSE {})

\* However a connection ends (the server, a hook, the close_socket() of a hook,
\* closes posted by threads, several of them), it is replaced once: the client
\* has one connection, one attempt or one wait, and none of them only when it
\* gave up; and no second socket is open.
OneConnection ==
    /\ IF stopped THEN Sources = {}
       ELSE \E source \in Handlers \cup {"timer0"} : Sources = {source}
    /\ \A g, h \in Handlers : socket_[g] = "open" /\ socket_[h] = "open" => g = h

\* The raw pointer handler_ is good whenever the heart-jump timer would use it,
\* provided that close_complete_func takes the authentication back; else the timer
\* meets a destroyed handler.
HeartjumpOnLiveHandler ==
    careless \/ (~crashed /\ (is_authenticate_pass_ => handler_ \in Registered))

\* "the server disconnect, the client connect again" (test/tcp/README:47) and
\* "It is fail that the client connect to server, the client connect again" (:44):
\* with a server that is up for good the client comes to have a connection again
\* and again, unless a hook or retry_delay_seconds = 0 made it give up, or the
\* first package can never be made.
ConnectsAgain ==
    <>[](server = "up") =>
        \/ []<>(Registered # {} \/ stopped \/ crashed)
        \/ []<><<\E h \in Handlers : FirstPackageFails(h)>>_vars
=============================================================================
