---------------------------- MODULE RabbitConfig ----------------------------
(***************************************************************************)
(* bingo::RabbitMQ::config: what a sender and a receiver make of cfg.xml.  *)
(*                                                                         *)
(* A document is the sequence of the item nodes of rabbitmq_sendor.list:   *)
(*   type      rb_cfg_type, 0 when the attribute is missing;               *)
(*   complete  whether every other attribute is there;                     *)
(*   exchange  its value;                                                  *)
(*   keys      the pairs <<key, routingkey>>: the two attributes of an     *)
(*             item of type 1 to 3, the child nodes of one of type 4 or 5. *)
(* Keys are numbers, in the order of the strings they stand for. The       *)
(* readers keep an entry for some of the items; here an entry is the place *)
(* of its item in the document.                                            *)
(***************************************************************************)
EXTENDS Naturals, Sequences

CONSTANT LongKeys  \* keys of more than RABBITMQ_MAPKEY_MAX_SIZE characters

VARIABLE kind  \* which sender and receiver the program makes; never changes

\* rb_cfg_type, by the sender that uses it.
TypeOf == [simple |-> 1, work |-> 2, publish |-> 3, routing |-> 4, topic |-> 5]
Kinds == DOMAIN TypeOf

NoEntry == 0

First(S) == CHOOSE i \in S : \A j \in S : i <= j
FirstOr(S, none) == IF S = {} THEN none ELSE First(S)

-----------------------------------------------------------------------------
(* rb_sendor_cfg: types 1 to 3 *)

\* check_node: every item needs a type, and those of its types the rest too.
CheckSendorNode(doc) ==
    \A i \in DOMAIN doc :
        /\ doc[i].type # 0
        /\ doc[i].type \in 1..3 => doc[i].complete /\ doc[i].keys[1][1] \notin LongKeys

\* Mutation: the last item with a key wins.
LastInserted(doc) ==
    {i \in DOMAIN doc : /\ doc[i].type \in 1..3
                        /\ \A j \in (i + 1)..Len(doc) :
                             doc[j].type \notin 1..3 \/ doc[j].keys[1][1] # doc[i].keys[1][1]}

\* value_: insert leaves the entry of a key that is there alone.
Inserted(doc) ==
    {i \in DOMAIN doc : /\ doc[i].type \in 1..3
                        /\ \A j \in 1..(i - 1) :
                             doc[j].type \notin 1..3 \/ doc[j].keys[1][1] # doc[i].keys[1][1]}

\* get_by_key.
SendorByKey(doc, key) ==
    FirstOr({i \in Inserted(doc) : doc[i].keys[1][1] = key}, NoEntry)

\* get_by_routingkey: the map is walked in the order of its keys.
SendorByRoutingkey(doc, routingkey) ==
    LET found == {i \in Inserted(doc) : doc[i].keys[1][2] = routingkey}
    IN  IF found = {} THEN NoEntry
        ELSE CHOOSE i \in found : \A j \in found : doc[i].keys[1][1] <= doc[j].keys[1][1]

-----------------------------------------------------------------------------
(* rb_routing_sendor_cfg and rb_topic_sendor_cfg: one type each *)

\* check_node: the keys of the child nodes may be of any length.
CheckRoutingNode(doc, type) ==
    \A i \in DOMAIN doc :
        /\ doc[i].type # 0
        /\ doc[i].type = type => doc[i].complete

PlacesOf(doc, i, key) == {j \in DOMAIN doc[i].keys : doc[i].keys[j][1] = key}

\* get_by_key.
RoutingByKey(doc, type, key) ==
    FirstOr({i \in DOMAIN doc : doc[i].type = type /\ PlacesOf(doc, i, key) # {}}, NoEntry)

\* map_to_routingkey, for a key that get_by_key has found.
MapToRoutingkey(doc, type, key) ==
    LET i == RoutingByKey(doc, type, key)
    IN  doc[i].keys[First(PlacesOf(doc, i, key))][2]

-----------------------------------------------------------------------------
(* rb_recevier_cfg and rb_routing_recevier_cfg *)

\* check_node of the receiver of the first three kinds: every value is there.
CheckReceiverNode(rcv) == rcv.complete

\* check_node of the last two, which split routingkey: a set of keys.
RoutingkeySet(rcv) == {rcv.keys[i] : i \in DOMAIN rcv.keys}

-----------------------------------------------------------------------------
(* What the two readers are for: the entry of a key, for a sender of a kind *)

CheckNode(k, doc) ==
    IF TypeOf[k] <= 3 THEN CheckSendorNode(doc) ELSE CheckRoutingNode(doc, TypeOf[k])

GetByKey(k, doc, key) ==
    IF TypeOf[k] <= 3 THEN SendorByKey(doc, key) ELSE RoutingByKey(doc, TypeOf[k], key)

\* The entries for which connet_to_server of the sender starts a thread.
EntriesOf(k, doc) ==
    {i \in DOMAIN doc : /\ doc[i].type = TypeOf[k]
                        /\ TypeOf[k] <= 3 => i \in Inserted(doc)}
=============================================================================
