------------------------------- MODULE MCRabbit -------------------------------
(***************************************************************************)
(* Instances of Rabbit: for each type a document with two items or nodes   *)
(* for the key that messages are sent by, and one that is not valid.       *)
(***************************************************************************)
EXTENDS Rabbit

Item(type, keys) == [type |-> type, complete |-> TRUE, exchange |-> "e", keys |-> keys]

\* Both messages of a routing key go through the first item, or, with a smaller key
\* of the publish sender's item, nowhere.
MCDocuments ==
    { << Item(1, <<<<1, "a">>>>), Item(1, <<<<1, "b">>>>), Item(3, <<<<0, "a">>>>) >>,
      << Item(2, <<<<1, "a">>>>), Item(2, <<<<1, "b">>>>), Item(3, <<<<2, "a">>>>) >>,
      << Item(3, <<<<1, "a">>>>), Item(5, <<<<1, "b">>>>) >>,
      << Item(4, <<<<1, "a">>, <<1, "b">>, <<2, "b">>>>), Item(1, <<<<2, "c">>>>) >>,
      << [Item(1, <<<<1, "a">>>>) EXCEPT !.complete = FALSE], Item(0, <<<<1, "a">>>>) >> }

MCMessages ==
    { [id |-> 1, by |-> "key", name |-> 1, fits |-> TRUE],
      [id |-> 2, by |-> "key", name |-> 1, fits |-> TRUE],
      [id |-> 3, by |-> "routingkey", name |-> "a", fits |-> TRUE] }

MCReceivers ==
    [k \in Kinds |-> {[complete |-> TRUE, exchange |-> "e", keys |-> <<"a">>]}]
MCTopicMatches == {<<"a", "a">>, <<"a", "b">>}
=============================================================================
