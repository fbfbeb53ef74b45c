-------------------------------- MODULE Rabbit --------------------------------
(***************************************************************************)
(* bingo::RabbitMQ end to end: a program with a sender, a broker, and a    *)
(* program with the receiver of the same kind.                             *)
(***************************************************************************)
EXTENDS RabbitSendor, RabbitReceiver

vars == <<cfgVars, rcv, sendorVars, receiverVars>>

Init ==
    /\ kind \in Kinds
    /\ SendorInit
    /\ ReceiverInit

-----------------------------------------------------------------------------
(* The broker, external: a direct, fanout or topic exchange and one queue *)

\* The work sender declares the durable queue of each of its entries.
DeclaredBySendor ==
    kind = "work" /\ \E e \in DOMAIN doc :
        link'[e] = "ready" /\ link[e] # "ready" /\ Binds(<<"", doc[e].keys[1][2]>>)

\* What arrives goes into the queue if there is one that takes it.
SendorStep ==
    /\ SendorNext
    /\ declared' = (declared \/ DeclaredBySendor)
    /\ queue' = IF arrived' # arrived /\ declared
                   /\ Binds(Last(arrived').to)
                THEN Append(queue, Last(arrived').msg) ELSE queue
    /\ UNCHANGED <<rcv, consumer, delivered, acking, handled, redelivered>>

ReceiverStep == ReceiverNext /\ UNCHANGED <<doc, sendorVars>>

\* The broker goes down and comes back: connections are lost, and the queue too,
\* unless it is durable, as its messages are.
BrokerRestarts ==
    /\ consumer # "off" \/ \E e \in DOMAIN doc : link[e] \notin {"off", "cut"}
    /\ link' = [e \in DOMAIN doc |-> CASE link[e] = "ready" -> "broken"
                                       [] link[e] \in {"off", "cut"} -> link[e]
                                       [] OTHER -> "cut"]
    /\ consumer' = "off"
    /\ delivered' = <<>> /\ acking' = <<>>
    /\ IF kind = "work"
       THEN queue' = acking \o delivered \o queue /\ UNCHANGED declared
       ELSE queue' = <<>> /\ declared' = FALSE
    /\ UNCHANGED <<cfgVars, callVars, task, top, channel, pending, outputBuffer, writer,
                   arrived, raced, undefined, rcv, handled, redelivered>>

Next == SendorStep \/ ReceiverStep \/ BrokerRestarts

\* The receiver's thread runs, the broker answers, delivers and hears; the
\* sender need do nothing.
Fairness ==
    /\ WF_vars(ConnetToServer /\ UNCHANGED <<doc, sendorVars>>)
    /\ WF_vars(Deliver /\ UNCHANGED <<doc, sendorVars>>)
    /\ WF_vars((MessageCb \/ WorkMessageCb) /\ UNCHANGED <<doc, sendorVars>>)
    /\ WF_vars(AckArrives /\ UNCHANGED <<doc, sendorVars>>)

SafeSpec == Init /\ [][Next]_vars
Spec == SafeSpec /\ Fairness
-----------------------------------------------------------------------------
(* Properties *)

\* Every variable has its type.
TypeOK ==
    /\ SendorTypeOK
    /\ consumer \in {"off", "on", "dead"} /\ declared \in BOOLEAN
    /\ queue \in Seq(Messages) /\ delivered \in Seq(Messages)
    /\ acking \in Seq(Messages) /\ handled \in Seq(Messages)
    /\ redelivered \subseteq Messages

\* The item of cfg.xml that a message is for, said of the document alone: the first
\* item of the sender's types with the key; by routingkey, the least key of an
\* item that is the first one with its key.
ItemOf(msg) ==
    LET type == TypeOf[kind]
        read == {i \in DOMAIN doc : IF type <= 3 THEN doc[i].type \in 1..3 ELSE doc[i].type = type}
        keysOf(i) == {doc[i].keys[n][1] : n \in DOMAIN doc[i].keys}
        first(key) == CHOOSE i \in read : /\ key \in keysOf(i)
                                          /\ \A j \in read : key \in keysOf(j) => i <= j
    IN  IF msg.by = "key" THEN first(msg.name)
        ELSE LET keys == {key \in UNION {keysOf(i) : i \in read} :
                            doc[first(key)].keys[1][2] = msg.name}
             IN  first(CHOOSE key \in keys : \A other \in keys : key <= other)

\* Where the item says that the message shall go: the first of its nodes with the
\* key, if it has nodes.
AddressOf(msg) ==
    LET item == doc[ItemOf(msg)]
        node == CHOOSE n \in DOMAIN item.keys :
                    /\ item.keys[n][1] = msg.name
                    /\ \A m \in 1..(n - 1) : item.keys[m][1] # msg.name
    IN  CASE kind \in {"simple", "work"} -> <<"", item.keys[1][2]>>
          [] kind = "publish" -> <<item.exchange, "">>
          [] OTHER -> <<item.exchange, item.keys[node][2]>>

\* s has each message at most once and those of one item in the order of the calls.
InOrder(s) ==
    \A i, j \in DOMAIN s :
        i < j /\ ItemOf(s[i]) = ItemOf(s[j]) =>
            \E m, n \in DOMAIN accepted : m < n /\ accepted[m] = s[i] /\ accepted[n] = s[j]

\* Whatever the rounds of the sender and of the receiver and the broker go through,
\* a message arrives only where the document says, at most once, and in the order
\* of the calls; so does what the hook of the receiver gets, except that the work
\* receiver may get the message again whose acknowledgement was lost.
FaithfulDelivery ==
    /\ \A i \in DOMAIN arrived : arrived[i].to = AddressOf(arrived[i].msg)
    /\ InOrder([i \in DOMAIN arrived |-> arrived[i].msg])
    /\ InOrder(handled)
    /\ redelivered # {} => kind = "work"

\* A message of the work sender that has reached the broker waits in the queue, is
\* at the receiver, or was handled: no break on either side and no restart of the
\* broker loses it, whether a receiver was ever there or not.
WorkNeverLost ==
    kind = "work" =>
        \A i \in DOMAIN arrived : Binds(arrived[i].to) =>
            arrived[i].msg \in ToSet(queue) \cup ToSet(delivered) \cup ToSet(handled)

\* It is handled in the end, unless connections break again and again, or the channel
\* of the receiver is closed while its connection lives on: no round ends by that, and
\* nothing is consumed any more until the connection breaks.
WorkIsHandled ==
    \/ []<><<ReceiverBreaks \/ BrokerRestarts>>_vars
    \/ <>[](consumer = "dead")
    \/ \A msg \in Messages :
         (kind = "work" /\ IsReceiverValid /\ msg \in ToSet(queue)) ~> (msg \in ToSet(handled))
=============================================================================
