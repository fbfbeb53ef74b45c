----------------------------- MODULE RabbitSendor -----------------------------
(***************************************************************************)
(* bingo::RabbitMQ: a sender and the AsioHandlers of its connections.      *)
(*                                                                         *)
(* transfer_data_* puts a message into the many_to_one task of the sender; *)
(* the thread of the task runs rb_top, which publishes it on the channel   *)
(* that the entry of its key points to. Each entry has a thread too, whose *)
(* rounds make an io_service, a handler, a connection and a channel on the *)
(* stack and end when the io_service stops. rb_top uses the objects of a   *)
(* round without a lock: its onData runs beside the write callback of the  *)
(* round's thread, and p->channel is not reset when the round is over.     *)
(*                                                                         *)
(* AMQP::Connection and AMQP::Channel are external: frames published before *)
(* the channel is ready wait in them, a closed channel refuses to publish, *)
(* and what they keep is taken to be consistent whatever the threads do. A *)
(* message is one frame, and what a round sends until its channel is ready *)
(* is the frame Setup. Logging is left out; no sender uses the heartbeat.  *)
(***************************************************************************)
EXTENDS RabbitConfig, SequencesExt

CONSTANTS
    Documents,  \* what cfg.xml may hold
    Messages,   \* records [id, by, name, fits]: a call of transfer_data_by_key or
                \* transfer_data_by_routingkey, with a name, and data that fits
    Setup,
    Idle

ASSUME IdleAssumption == \A d \in Documents : Idle \notin DOMAIN d

\* A document is a sequence of items; an item of the first three types has one key.
ASSUME DocumentsAssumption ==
    \A d \in Documents :
        /\ Len(d) \in Nat /\ DOMAIN d = 1..Len(d)
        /\ \A i \in DOMAIN d :
             /\ Len(d[i].keys) \in Nat /\ DOMAIN d[i].keys = 1..Len(d[i].keys)
             /\ \A n \in DOMAIN d[i].keys : d[i].keys[n][1] \in Nat
             /\ d[i].type \in 1..3 => Len(d[i].keys) = 1

ASSUME MessagesAssumption ==
    \A msg \in Messages : msg.by = "key" => msg.name \in Nat

VARIABLES
    doc,           \* cfg.xml; never changes
    snd_,          \* whether the factory has made the sender
    accepted,      \* history: the messages put into the task, in order
    task,          \* the queue of the many_to_one task
    top,           \* the entry in whose onData the task's thread is, or Idle
    channel,       \* p->channel of each entry: "null", "live", or "stale" after its round
    link,          \* the round of each entry, "off" between two of them
    pending,       \* frames that wait in the library
    outputBuffer,
    writer,        \* "writing" during async_write, "ending" in the last part of its callback
    arrived,       \* history: what reached the broker, in order
    raced,         \* history: entries whose last check fell into the "ending" of a write
    undefined      \* history: a dead object was used, or front() of an empty deque

cfgVars == <<kind, doc>>
callVars == <<snd_, accepted>>
ioVars == <<link, pending, outputBuffer, writer>>
sendorVars == <<callVars, task, top, channel, ioVars, arrived, raced, undefined>>

IsValid == CheckNode(kind, doc)

\* _writeInProgress, which the callback of a write resets last.
WriteInProgress(e) == writer[e] # "idle"

SendorInit ==
    /\ doc \in Documents
    /\ snd_ = "none"
    /\ accepted = <<>> /\ task = <<>>
    /\ top = Idle
    /\ channel = [e \in DOMAIN doc |-> "null"]
    /\ link = [e \in DOMAIN doc |-> "off"]
    /\ pending = [e \in DOMAIN doc |-> <<>>]
    /\ outputBuffer = [e \in DOMAIN doc |-> <<>>]
    /\ writer = [e \in DOMAIN doc |-> "idle"]
    /\ arrived = <<>>
    /\ raced = {} /\ undefined = FALSE

-----------------------------------------------------------------------------
(* The callers *)

\* make_simple_sendor and the four like it. The call does not return while the
\* sender is valid: other threads transfer data.
MakeSendor ==
    /\ snd_ = "none"
    /\ snd_' = "made"
    /\ UNCHANGED <<cfgVars, accepted, task, top, channel, ioVars, arrived, raced, undefined>>

\* The last part of both transfer_data calls: bound to one call per message.
Put(msg, key) ==
    /\ snd_ = "made" /\ IsValid
    /\ msg.fits /\ ~Contains(accepted, msg)
    /\ accepted' = Append(accepted, msg)
    /\ task' = Append(task, [msg |-> msg, key |-> key])
    /\ UNCHANGED <<cfgVars, snd_, top, channel, ioVars, arrived, raced, undefined>>

\* transfer_data_by_key: whether the key is known is not looked at yet.
TransferByKey(msg) ==
    /\ msg.by = "key" /\ msg.name \notin LongKeys
    /\ Put(msg, msg.name)

SimpleTransferByKey(msg) == kind = "simple" /\ TransferByKey(msg)
WorkTransferByKey(msg) == kind = "work" /\ TransferByKey(msg)
PublishTransferByKey(msg) == kind = "publish" /\ TransferByKey(msg)
RoutingTransferByKey(msg) == kind = "routing" /\ TransferByKey(msg)
TopicTransferByKey(msg) == kind = "topic" /\ TransferByKey(msg)

\* transfer_data_by_routingkey, which has no body in the last two senders.
TransferByRoutingkey(msg) ==
    /\ msg.by = "routingkey"
    /\ LET e == SendorByRoutingkey(doc, msg.name)
       IN  e # NoEntry /\ Put(msg, doc[e].keys[1][1])

SimpleTransferByRoutingkey(msg) == kind = "simple" /\ TransferByRoutingkey(msg)
WorkTransferByRoutingkey(msg) == kind = "work" /\ TransferByRoutingkey(msg)
PublishTransferByRoutingkey(msg) == kind = "publish" /\ TransferByRoutingkey(msg)

\* The factory passes the call on to its sender.
Transfer(msg) ==
    \/ SimpleTransferByKey(msg) \/ SimpleTransferByRoutingkey(msg)
    \/ WorkTransferByKey(msg) \/ WorkTransferByRoutingkey(msg)
    \/ PublishTransferByKey(msg) \/ PublishTransferByRoutingkey(msg)
    \/ RoutingTransferByKey(msg) \/ TopicTransferByKey(msg)

-----------------------------------------------------------------------------
(* rb_top, in the thread of the task *)

\* publish() of the channel of the running round.
PublishLive(e, frame) ==
    CASE link[e] \in {"connecting", "login"} ->
           /\ pending' = [pending EXCEPT ![e] = Append(@, frame)]
           /\ UNCHANGED <<top, outputBuffer>>
      [] link[e] \in {"ready", "broken"} ->
           /\ outputBuffer' = [outputBuffer EXCEPT ![e] = Append(@, frame)]
           /\ top' = e
           /\ UNCHANGED pending
      [] OTHER -> UNCHANGED <<top, pending, outputBuffer>>

\* publish() through a pointer that was left behind by an earlier round: nothing
\* happens, anything happens, or the next round's channel is there already.
Publish(e, frame) ==
    \/ /\ channel[e] = "live" \/ link[e] # "off"
       /\ PublishLive(e, frame)
       /\ UNCHANGED undefined
    \/ /\ channel[e] = "stale"
       /\ undefined' \in BOOLEAN
       /\ UNCHANGED <<top, pending, outputBuffer>>

\* rb_top: a message whose key has no entry, or whose entry has no channel, is dropped.
RbTop(msg, key, address) ==
    /\ top = Idle
    /\ task # <<>> /\ Head(task) = [msg |-> msg, key |-> key]
    /\ task' = Tail(task)
    /\ LET e == GetByKey(kind, doc, key)
       IN  IF e = NoEntry \/ channel[e] = "null"
           THEN UNCHANGED <<top, pending, outputBuffer, undefined>>
           ELSE Publish(e, [msg |-> msg, to |-> address])
    /\ UNCHANGED <<cfgVars, callVars, channel, link, writer, arrived, raced>>

\* Where each sender publishes: <<exchange, routingkey>>.
SimpleTop(msg, key) ==
    kind = "simple" /\ RbTop(msg, key, <<"", doc[SendorByKey(doc, key)].keys[1][2]>>)
WorkTop(msg, key) ==
    kind = "work" /\ RbTop(msg, key, <<"", doc[SendorByKey(doc, key)].keys[1][2]>>)
PublishTop(msg, key) ==
    kind = "publish" /\ RbTop(msg, key, <<doc[SendorByKey(doc, key)].exchange, "">>)
RoutingTop(msg, key) ==
    kind = "routing" /\ RbTop(msg, key, <<doc[RoutingByKey(doc, 4, key)].exchange,
                                          MapToRoutingkey(doc, 4, key)>>)
TopicTop(msg, key) ==
    kind = "topic" /\ RbTop(msg, key, <<doc[RoutingByKey(doc, 5, key)].exchange,
                                        MapToRoutingkey(doc, 5, key)>>)

Top == \E item \in ToSet(task) :
         \/ SimpleTop(item.msg, item.key) \/ WorkTop(item.msg, item.key)
         \/ PublishTop(item.msg, item.key)
         \/ RoutingTop(item.msg, item.key) \/ TopicTop(item.msg, item.key)

\* onData after push_back: doWrite unless a write is in progress. The round may be
\* over by now, and its next one may have begun.
Check(e) ==
    /\ top = e
    /\ top' = Idle
    /\ CASE link[e] = "off" ->
              undefined' \in BOOLEAN /\ UNCHANGED <<writer, raced>>
         [] link[e] # "off" /\ (link[e] = "connecting" \/ WriteInProgress(e)) ->
              /\ raced' = IF writer[e] = "ending" THEN raced \cup {e} ELSE raced
              /\ UNCHANGED <<writer, undefined>>
         [] OTHER ->
              /\ writer' = [writer EXCEPT ![e] = "writing"]
              /\ undefined' = (outputBuffer[e] = <<>>)
              /\ raced' = raced \ {e}
    /\ UNCHANGED <<cfgVars, callVars, task, channel, link, pending, outputBuffer, arrived>>

-----------------------------------------------------------------------------
(* The thread of an entry: make_*_sendor_thr *)

\* The first lines of a round; the library pushes the protocol header at once.
Round(e) ==
    /\ snd_ = "made" /\ IsValid
    /\ e \in EntriesOf(kind, doc) /\ link[e] = "off"
    /\ link' = [link EXCEPT ![e] = "connecting"]
    /\ outputBuffer' = [outputBuffer EXCEPT ![e] = <<Setup>>]
    /\ UNCHANGED <<cfgVars, callVars, task, top, pending, writer, arrived, raced, undefined>>

SaveChannel(e) == channel' = [channel EXCEPT ![e] = "live"]

SimpleRound(e) == kind = "simple" /\ Round(e) /\ SaveChannel(e)
PublishRound(e) == kind = "publish" /\ Round(e) /\ SaveChannel(e)
RoutingRound(e) == kind = "routing" /\ Round(e) /\ SaveChannel(e)
TopicRound(e) == kind = "topic" /\ Round(e) /\ SaveChannel(e)
\* The work sender saves its channel only when the queue is declared.
WorkRound(e) == kind = "work" /\ Round(e) /\ UNCHANGED channel

\* doConnect: the callback of async_connect starts to read and to write.
ConnectOk(e) ==
    /\ link[e] = "connecting"
    /\ link' = [link EXCEPT ![e] = "login"]
    /\ writer' = [writer EXCEPT ![e] = IF outputBuffer[e] # <<>> THEN "writing" ELSE @]
    /\ UNCHANGED <<cfgVars, callVars, task, top, channel, pending, outputBuffer, arrived, raced, undefined>>

\* doConnect: an error, or 15 seconds are over: the io_service stops.
ConnectFails(e) ==
    /\ link[e] = "connecting"
    /\ link' = [link EXCEPT ![e] = "cut"]
    /\ UNCHANGED <<cfgVars, callVars, task, top, channel, pending, outputBuffer, writer, arrived, raced, undefined>>

\* doRead and parseData: the broker has accepted the connection, the channel and
\* what it declares; the library passes what waited to onData.
Ready(e) ==
    /\ link[e] = "login" /\ writer[e] = "idle" /\ outputBuffer[e] = <<>>
    /\ link' = [link EXCEPT ![e] = "ready"]
    /\ pending' = [pending EXCEPT ![e] = <<>>]
    /\ outputBuffer' = [outputBuffer EXCEPT ![e] = pending[e]]
    /\ writer' = [writer EXCEPT ![e] = IF pending[e] # <<>> THEN "writing" ELSE @]
    /\ IF kind = "work" THEN SaveChannel(e) ELSE UNCHANGED channel
    /\ UNCHANGED <<cfgVars, callVars, task, top, arrived, raced, undefined>>

\* The broker closes the channel: onError of the channel only logs.
ChannelError(e) ==
    /\ link[e] \in {"login", "ready"} /\ writer[e] # "ending"
    /\ link' = [link EXCEPT ![e] = "closed"]
    /\ pending' = [pending EXCEPT ![e] = <<>>]
    /\ UNCHANGED <<cfgVars, callVars, task, top, channel, outputBuffer, writer, arrived, raced, undefined>>

\* onClosed: the socket is closed, behind the write in progress if there is one.
OnClosed(e) ==
    /\ link[e] \in {"login", "ready", "closed"} /\ writer[e] # "ending"
    /\ link' = [link EXCEPT ![e] = IF WriteInProgress(e) THEN "quitting" ELSE "cut"]
    /\ UNCHANGED <<cfgVars, callVars, task, top, channel, pending, outputBuffer, writer, arrived, raced, undefined>>

\* External: the connection of a ready channel breaks; nobody has noticed yet.
Break(e) ==
    /\ link[e] = "ready"
    /\ link' = [link EXCEPT ![e] = "broken"]
    /\ UNCHANGED <<cfgVars, callVars, task, top, channel, pending, outputBuffer, writer, arrived, raced, undefined>>

\* doRead or doWrite reports an error: the io_service stops.
ErrorReading(e) ==
    /\ link[e] \in {"login", "closed", "quitting", "broken"} /\ writer[e] # "ending"
    /\ link' = [link EXCEPT ![e] = "cut"]
    /\ UNCHANGED <<cfgVars, callVars, task, top, channel, pending, outputBuffer, writer, arrived, raced, undefined>>

\* Mutation: the callback does not look for a next frame.
WrittenAlone(e) ==
    /\ writer[e] = "writing" /\ link[e] \in {"login", "ready", "closed", "quitting", "broken"}
    /\ outputBuffer' = [outputBuffer EXCEPT ![e] = Tail(@)]
    /\ arrived' = IF link[e] = "ready" THEN Append(arrived, Head(outputBuffer[e])) ELSE arrived
    /\ writer' = [writer EXCEPT ![e] = "ending"]
    /\ UNCHANGED <<cfgVars, callVars, task, top, channel, link, pending, raced, undefined>>

\* doWrite: the callback of async_write pops the frame and writes the next one, if
\* there is one by now. The other thread may push a frame behind this look.
Written(e) ==
    /\ writer[e] = "writing" /\ link[e] \in {"login", "ready", "closed", "quitting", "broken"}
    /\ outputBuffer' = [outputBuffer EXCEPT ![e] = Tail(@)]
    /\ arrived' = IF link[e] = "ready" THEN Append(arrived, Head(outputBuffer[e])) ELSE arrived
    /\ writer' = [writer EXCEPT ![e] = IF Tail(outputBuffer[e]) = <<>> THEN "ending" ELSE @]
    /\ UNCHANGED <<cfgVars, callVars, task, top, channel, link, pending, raced, undefined>>

\* The end of that callback: _writeInProgress = false, and close() if _quit.
WriteEnds(e) ==
    /\ writer[e] = "ending"
    /\ writer' = [writer EXCEPT ![e] = "idle"]
    /\ link' = [link EXCEPT ![e] = IF @ = "quitting" THEN "cut" ELSE @]
    /\ UNCHANGED <<cfgVars, callVars, task, top, channel, pending, outputBuffer, arrived, raced, undefined>>

\* Mutation: the handler with its buffer outlives the round.
EndRoundKeeps(e) ==
    /\ link[e] = "cut" /\ writer[e] # "ending"
    /\ link' = [link EXCEPT ![e] = "off"]
    /\ pending' = [pending EXCEPT ![e] = <<>>]
    /\ writer' = [writer EXCEPT ![e] = "idle"]
    /\ channel' = [channel EXCEPT ![e] = IF @ = "live" THEN "stale" ELSE @]
    /\ raced' = raced \ {e}
    /\ UNCHANGED <<cfgVars, callVars, task, top, outputBuffer, arrived, undefined>>

\* run() returns; the objects of the round are destroyed.
EndRound(e) ==
    /\ link[e] = "cut" /\ writer[e] # "ending"
    /\ link' = [link EXCEPT ![e] = "off"]
    /\ pending' = [pending EXCEPT ![e] = <<>>]
    /\ outputBuffer' = [outputBuffer EXCEPT ![e] = <<>>]
    /\ writer' = [writer EXCEPT ![e] = "idle"]
    /\ channel' = [channel EXCEPT ![e] = IF @ = "live" THEN "stale" ELSE @]
    /\ raced' = raced \ {e}
    /\ UNCHANGED <<cfgVars, callVars, task, top, arrived, undefined>>

MakeSendorThr(e) ==
    \/ SimpleRound(e) \/ WorkRound(e) \/ PublishRound(e) \/ RoutingRound(e) \/ TopicRound(e)
    \/ ConnectOk(e) \/ Ready(e) \/ Written(e) \/ WriteEnds(e) \/ EndRound(e)

Broken(e) ==
    ConnectFails(e) \/ ChannelError(e) \/ OnClosed(e) \/ Break(e) \/ ErrorReading(e)

SendorNext ==
    /\ ~undefined
    /\ \/ MakeSendor \/ Top
       \/ \E msg \in Messages : Transfer(msg)
       \/ \E e \in DOMAIN doc : Check(e) \/ MakeSendorThr(e) \/ Broken(e)

SendorSpec == kind \in Kinds /\ SendorInit /\ [][SendorNext]_<<cfgVars, sendorVars>>
-----------------------------------------------------------------------------
(* Properties *)

\* Every variable has its type, and nothing of a round outlives it.
SendorTypeOK ==
    /\ snd_ \in {"none", "made"}
    /\ accepted \in Seq(Messages) /\ task \in Seq([msg : Messages, key : Nat])
    /\ top \in DOMAIN doc \cup {Idle}
    /\ channel \in [DOMAIN doc -> {"null", "live", "stale"}]
    /\ link \in [DOMAIN doc -> {"off", "connecting", "login", "ready", "closed", "quitting",
                               "broken", "cut"}]
    /\ writer \in [DOMAIN doc -> {"idle", "writing", "ending"}]
    /\ raced \subseteq DOMAIN doc /\ undefined \in BOOLEAN
    /\ \A e \in DOMAIN doc : link[e] = "off" =>
         /\ writer[e] = "idle" /\ pending[e] = <<>> /\ outputBuffer[e] = <<>>
         /\ channel[e] # "live" /\ e \notin raced

\* A frame stands still in outputBuffer, with no write in progress and nobody about
\* to start one, only because it was pushed while the callback of the last write
\* was between its look at the buffer and the reset of _writeInProgress: then it
\* waits for the next message.
StuckOnlyIfRaced ==
    \A e \in DOMAIN doc :
        link[e] = "ready" /\ outputBuffer[e] # <<>> =>
            WriteInProgress(e) \/ top = e \/ e \in raced
=============================================================================
