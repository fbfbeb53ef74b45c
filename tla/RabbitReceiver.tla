---------------------------- MODULE RabbitReceiver ----------------------------
(***************************************************************************)
(* bingo::RabbitMQ: a receiver and the queue it consumes.                  *)
(*                                                                         *)
(* connet_to_server connects, declares, binds and consumes in rounds, all  *)
(* in one thread, and never returns; the hook f_ gets each message. Only   *)
(* the work receiver acknowledges, one message at a time, after f_; its    *)
(* queue is durable, that of the simple receiver outlives its connections, *)
(* and each of the others belongs to one connection. Only the end of a     *)
(* connection ends a round: an error of the channel is logged, or not      *)
(* noticed at all, and then run() goes on with nothing to consume.         *)
(*                                                                         *)
(* The queue is the broker's, external to this code, and so are what binds *)
(* it to an exchange and what a lost connection does to it.                *)
(***************************************************************************)
EXTENDS RabbitConfig, SequencesExt

CONSTANTS
    Receivers,     \* what cfg.xml may hold for a receiver of each kind:
                   \* records [complete, exchange, keys]
    TopicMatches   \* the pairs <<pattern, routingkey>> that match

VARIABLES
    rcv,           \* cfg.xml; never changes
    consumer,      \* "off" between two rounds, "on" while one consumes the queue,
                   \* "dead" once its channel is closed and the connection is not
    declared,      \* the queue exists, and is bound
    queue,
    delivered,     \* messages on their way to the receiver
    acking,        \* acknowledgements on their way to the broker
    handled,       \* history: what f_ got, without repetitions in a row
    redelivered    \* history: messages that f_ got more than once

receiverVars == <<consumer, declared, queue, delivered, acking, handled, redelivered>>

ReceiverInit ==
    /\ rcv \in Receivers[kind]
    /\ consumer = "off"
    /\ declared = FALSE
    /\ queue = <<>> /\ delivered = <<>> /\ acking = <<>>
    /\ handled = <<>> /\ redelivered = {}

IsReceiverValid == CheckReceiverNode(rcv)

\* Whether the queue takes a message published to <<exchange, routingkey>>. The
\* first two publish to a queue, the last two bind each of their keys.
Binds(address) ==
    CASE kind \in {"simple", "work"} -> address = <<"", rcv.keys[1]>>
      [] kind = "publish" -> address[1] = rcv.exchange
      [] kind = "routing" -> address[1] = rcv.exchange /\ address[2] \in RoutingkeySet(rcv)
      [] kind = "topic" ->
           /\ address[1] = rcv.exchange
           /\ \E pattern \in RoutingkeySet(rcv) : <<pattern, address[2]>> \in TopicMatches

-----------------------------------------------------------------------------
(* The rounds of connet_to_server *)

Consume ==
    /\ IsReceiverValid /\ consumer = "off"
    /\ consumer' = "on"
    /\ declared' = TRUE
    /\ UNCHANGED <<kind, rcv, queue, delivered, acking, handled, redelivered>>

\* The broker refuses to declare, bind or consume, and closes the channel: onError
\* only logs, errorCb is empty, and the last three kinds have neither.
ConsumeFails ==
    /\ IsReceiverValid /\ consumer = "off"
    /\ consumer' = "dead"
    /\ declared' \in {declared, TRUE}
    /\ UNCHANGED <<kind, rcv, queue, delivered, acking, handled, redelivered>>

ReceiverRound == Consume \/ ConsumeFails

\* Mutation: no further round once something was handled.
WorkConsumesOnce == kind = "work" /\ handled = <<>> /\ ReceiverRound

SimpleConsumes == kind = "simple" /\ ReceiverRound
WorkConsumes == kind = "work" /\ ReceiverRound
PublishConsumes == kind = "publish" /\ ReceiverRound
RoutingConsumes == kind = "routing" /\ ReceiverRound
TopicConsumes == kind = "topic" /\ ReceiverRound

\* Mutation: the work receiver consumes with noack: nothing is put back.
DeliverNoack ==
    /\ consumer = "on" /\ queue # <<>>
    /\ queue' = Tail(queue)
    /\ delivered' \in {delivered, Append(delivered, Head(queue))}
    /\ UNCHANGED <<kind, rcv, consumer, declared, acking, handled, redelivered>>

\* External: the broker sends a message: setQos(1) of the work receiver lets it
\* send one at a time, noack of the others as many as there are.
Deliver ==
    /\ consumer = "on" /\ queue # <<>>
    /\ kind = "work" => delivered = <<>> /\ acking = <<>>
    /\ queue' = Tail(queue)
    /\ delivered' = Append(delivered, Head(queue))
    /\ UNCHANGED <<kind, rcv, consumer, declared, acking, handled, redelivered>>

Handled(msg) ==
    IF handled # <<>> /\ Last(handled) = msg THEN handled ELSE Append(handled, msg)

\* messageCb: f_ gets the message.
MessageCb ==
    /\ kind # "work"
    /\ consumer = "on" /\ delivered # <<>>
    /\ delivered' = Tail(delivered)
    /\ handled' = Handled(Head(delivered))
    /\ redelivered' = redelivered \cup ({Head(delivered)} \cap ToSet(handled))
    /\ UNCHANGED <<kind, rcv, consumer, declared, queue, acking>>

\* messageCb of the work receiver: f_, then ack, which has yet to arrive.
WorkMessageCb ==
    /\ kind = "work"
    /\ consumer = "on" /\ delivered # <<>>
    /\ delivered' = Tail(delivered)
    /\ acking' = Append(acking, Head(delivered))
    /\ handled' = Handled(Head(delivered))
    /\ redelivered' = redelivered \cup ({Head(delivered)} \cap ToSet(handled))
    /\ UNCHANGED <<kind, rcv, consumer, declared, queue>>

\* External: the acknowledgement arrives.
AckArrives ==
    /\ consumer = "on" /\ acking # <<>>
    /\ acking' = Tail(acking)
    /\ UNCHANGED <<kind, rcv, consumer, declared, queue, delivered, handled, redelivered>>

\* The broker closes the channel of a round that consumes, behind what it has sent on
\* it: what was not acknowledged goes back in front, the queue stays.
ReceiverChannelError ==
    /\ consumer = "on" /\ delivered = <<>>
    /\ consumer' = "dead"
    /\ queue' = acking \o queue
    /\ acking' = <<>>
    /\ UNCHANGED <<kind, rcv, declared, delivered, handled, redelivered>>

\* What a lost connection leaves behind: the broker puts what was not acknowledged
\* back in front; a queue of one connection goes with it.
Lost ==
    /\ consumer' = "off"
    /\ delivered' = <<>> /\ acking' = <<>>
    /\ CASE kind = "simple" -> UNCHANGED <<declared, queue>>
         [] kind = "work" -> queue' = acking \o delivered \o queue /\ UNCHANGED declared
         [] OTHER -> declared' = FALSE /\ queue' = <<>>

\* The connection breaks and the round ends, whatever became of its channel.
ReceiverBreaks ==
    /\ consumer # "off"
    /\ Lost
    /\ UNCHANGED <<kind, rcv, handled, redelivered>>

ConnetToServer ==
    SimpleConsumes \/ WorkConsumes \/ PublishConsumes \/ RoutingConsumes \/ TopicConsumes

ReceiverNext ==
    \/ ConnetToServer \/ Deliver \/ MessageCb \/ WorkMessageCb \/ AckArrives
    \/ ReceiverChannelError \/ ReceiverBreaks
=============================================================================
