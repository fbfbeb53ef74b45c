----------------------------- MODULE RabbitProofs -----------------------------
(***************************************************************************)
(* Proofs about Rabbit, for any documents, messages and keys: when a frame *)
(* stands still in a handler; that the readers agree with the document;    *)
(* types; that what arrives and is handled goes where the document says,   *)
(* once and in order; what an acknowledgement and a receiver stand for;    *)
(* and that the work sender loses nothing that has reached the broker.     *)
(***************************************************************************)
EXTENDS Rabbit, QueueLemmas, TLAPS

-----------------------------------------------------------------------------
(* What never changes *)

LEMMA SendorFixed == SendorNext => UNCHANGED <<kind, doc>>
<1>1. MakeSendor => UNCHANGED <<kind, doc>>
  BY DEF MakeSendor, cfgVars
<1>2. Top => UNCHANGED <<kind, doc>>
  BY DEF Top, SimpleTop, WorkTop, PublishTop, RoutingTop, TopicTop, RbTop, cfgVars
<1>3. ASSUME NEW msg, Transfer(msg)
      PROVE  UNCHANGED <<kind, doc>>
  BY <1>3 DEF Transfer, SimpleTransferByKey, WorkTransferByKey, PublishTransferByKey,
     RoutingTransferByKey, TopicTransferByKey, SimpleTransferByRoutingkey,
     WorkTransferByRoutingkey, PublishTransferByRoutingkey, TransferByKey,
     TransferByRoutingkey, Put, cfgVars
<1>4. ASSUME NEW e, Check(e)
      PROVE  UNCHANGED <<kind, doc>>
  BY <1>4 DEF Check, cfgVars
<1>5. ASSUME NEW e, MakeSendorThr(e) \/ Broken(e)
      PROVE  UNCHANGED <<kind, doc>>
  BY <1>5 DEF MakeSendorThr, SimpleRound, WorkRound, PublishRound, RoutingRound, TopicRound,
              Round, ConnectOk, Ready, Written, WriteEnds, EndRound, Broken, ConnectFails,
              ChannelError, OnClosed, Break, ErrorReading, cfgVars
<1>6. QED
  BY <1>1, <1>2, <1>3, <1>4, <1>5 DEF SendorNext

LEMMA KindFixed == Next => UNCHANGED kind
<1>1. ReceiverNext => UNCHANGED kind
  BY DEF ReceiverNext, ConnetToServer, SimpleConsumes, WorkConsumes, PublishConsumes,
         RoutingConsumes, TopicConsumes, ReceiverRound, Consume, ConsumeFails, Deliver, MessageCb,
         WorkMessageCb, AckArrives, ReceiverChannelError, ReceiverBreaks
<1>2. QED
  BY <1>1, SendorFixed DEF Next, SendorStep, ReceiverStep, BrokerRestarts, cfgVars

-----------------------------------------------------------------------------
(* The write loop and onData *)

\* The inductive form of StuckOnlyIfRaced. While the callback of a write is between
\* its look at the buffer and the reset of the flag, WriteInProgress promises
\* nothing: only "writing" does.
WriterInv ==
    /\ doc \in Documents
    /\ link = [e \in DOMAIN doc |-> link[e]]
    /\ outputBuffer = [e \in DOMAIN doc |-> outputBuffer[e]]
    /\ writer \in [DOMAIN doc -> {"idle", "writing", "ending"}]
    /\ \A e \in DOMAIN doc :
         link[e] = "ready" /\ outputBuffer[e] # <<>> =>
             \/ writer[e] = "writing"
             \/ top = e
             \/ e \in raced

\* A step that leaves the handlers alone.
LEMMA WriterUntouched ==
    ASSUME WriterInv, UNCHANGED <<doc, link, outputBuffer, writer, top, raced>>
    PROVE  WriterInv'
BY DEF WriterInv

\* A step of the thread of one entry, after which the entry has nothing to send, or
\* sends, or is not ready, or is where it was.
LEMMA WriterOfOne ==
    ASSUME WriterInv, NEW e,
           UNCHANGED <<doc, top>>,
           NEW l, NEW b, NEW w \in {"idle", "writing", "ending"},
           link' = [link EXCEPT ![e] = l],
           outputBuffer' = [outputBuffer EXCEPT ![e] = b],
           writer' = [writer EXCEPT ![e] = w],
           raced' \in {raced, raced \ {e}},
           \/ l # "ready" \/ b = <<>> \/ w = "writing"
           \/ l = link[e] /\ b = outputBuffer[e] /\ raced' = raced /\ writer[e] # "writing"
    PROVE  WriterInv'
<1>1. /\ link' = [f \in DOMAIN doc' |-> link'[f]]
      /\ outputBuffer' = [f \in DOMAIN doc' |-> outputBuffer'[f]]
      /\ writer' \in [DOMAIN doc' -> {"idle", "writing", "ending"}]
  BY DEF WriterInv
<1>2. ASSUME NEW f \in DOMAIN doc, link'[f] = "ready", outputBuffer'[f] # <<>>
      PROVE  writer'[f] = "writing" \/ top = f \/ f \in raced'
  <2>1. CASE f # e
    <3>1. link'[f] = link[f] /\ outputBuffer'[f] = outputBuffer[f] /\ writer'[f] = writer[f]
      BY <2>1 DEF WriterInv
    <3>2. f \in raced' <=> f \in raced
      BY <2>1
    <3>3. QED
      BY <1>2, <3>1, <3>2 DEF WriterInv
  <2>2. CASE f = e
    <3>1. link'[e] = l /\ outputBuffer'[e] = b /\ writer'[e] = w
      BY <2>2 DEF WriterInv
    <3>2. CASE w = "writing"
      BY <2>2, <3>1, <3>2
    <3>3. CASE l = link[e] /\ b = outputBuffer[e] /\ raced' = raced /\ writer[e] # "writing"
      BY <1>2, <2>2, <3>1, <3>3 DEF WriterInv
    <3>4. QED
      BY <1>2, <2>2, <3>1, <3>2, <3>3
  <2>3. QED
    BY <2>1, <2>2
<1>3. QED
  BY <1>1, <1>2 DEF WriterInv

LEMMA WriterInit == Init => WriterInv
BY DEF Init, SendorInit, WriterInv

\* rb_top: what is pushed makes the thread of the task check.
LEMMA WriterTop == WriterInv /\ Top => WriterInv'
<1> SUFFICES ASSUME WriterInv, NEW msg, NEW key, NEW address, RbTop(msg, key, address)
             PROVE  WriterInv'
  BY DEF Top, SimpleTop, WorkTop, PublishTop, RoutingTop, TopicTop
<1> DEFINE e == GetByKey(kind, doc, key)
           frame == [msg |-> msg, to |-> address]
<1>1. /\ top = Idle
      /\ UNCHANGED <<doc, link, writer, raced>>
      /\ \/ UNCHANGED <<top, outputBuffer>>
         \/ Publish(e, frame)
  BY DEF RbTop, cfgVars
<1>2. \A f \in DOMAIN doc : top # f
  BY <1>1, IdleAssumption DEF WriterInv
<1> HIDE DEF e, frame
<1>3. \/ UNCHANGED <<top, outputBuffer>>
      \/ outputBuffer' = [outputBuffer EXCEPT ![e] = Append(@, frame)] /\ top' = e
  BY <1>1 DEF Publish, PublishLive
<1>4. CASE UNCHANGED <<top, outputBuffer>>
  BY <1>1, <1>4, WriterUntouched
<1>5. CASE outputBuffer' = [outputBuffer EXCEPT ![e] = Append(@, frame)] /\ top' = e
  <2>1. outputBuffer' = [f \in DOMAIN doc' |-> outputBuffer'[f]]
    BY <1>1, <1>5 DEF WriterInv
  <2>2. ASSUME NEW f \in DOMAIN doc, link[f] = "ready", outputBuffer'[f] # <<>>
        PROVE  writer[f] = "writing" \/ top' = f \/ f \in raced
    <3>1. CASE f = e
      BY <1>5, <3>1
    <3>2. CASE f # e
      <4>1. outputBuffer'[f] = outputBuffer[f]
        BY <1>5, <3>2 DEF WriterInv
      <4>2. QED
        BY <1>2, <2>2, <4>1 DEF WriterInv
    <3>3. QED
      BY <3>1, <3>2
  <2>3. QED
    BY <1>1, <2>1, <2>2 DEF WriterInv
<1>6. QED
  BY <1>3, <1>4, <1>5

\* onData behind its push: it starts a write, leaves it to the write in progress,
\* or falls into the end of that write.
LEMMA WriterCheck ==
    ASSUME WriterInv, NEW e \in DOMAIN doc, Check(e)
    PROVE  WriterInv'
<1>1. top = e /\ UNCHANGED <<doc, link, outputBuffer>>
  BY DEF Check, cfgVars, ioVars
<1>2. \A f \in DOMAIN doc : f # e => top # f
  BY <1>1
<1>3. CASE link[e] = "off" /\ UNCHANGED <<writer, raced>>
  BY <1>1, <1>2, <1>3 DEF WriterInv
<1>4. CASE /\ link[e] = "connecting" \/ WriteInProgress(e)
           /\ raced' = IF writer[e] = "ending" THEN raced \cup {e} ELSE raced
           /\ UNCHANGED writer
  BY <1>1, <1>2, <1>4 DEF WriterInv, WriteInProgress
<1>5. CASE writer' = [writer EXCEPT ![e] = "writing"] /\ raced' = raced \ {e}
  <2>1. writer' \in [DOMAIN doc' -> {"idle", "writing", "ending"}]
    BY <1>1, <1>5 DEF WriterInv
  <2>2. ASSUME NEW f \in DOMAIN doc, link[f] = "ready", outputBuffer[f] # <<>>
        PROVE  writer'[f] = "writing" \/ f \in raced'
    <3>1. CASE f = e
      BY <1>5, <3>1 DEF WriterInv
    <3>2. CASE f # e
      BY <1>2, <1>5, <2>2, <3>2 DEF WriterInv
    <3>3. QED
      BY <3>1, <3>2
  <2>3. QED
    BY <1>1, <2>1, <2>2 DEF WriterInv
<1>6. QED
  <2>1. \/ link[e] = "off" /\ UNCHANGED <<writer, raced>>
        \/ /\ link[e] = "connecting" \/ WriteInProgress(e)
           /\ raced' = IF writer[e] = "ending" THEN raced \cup {e} ELSE raced
           /\ UNCHANGED writer
        \/ writer' = [writer EXCEPT ![e] = "writing"] /\ raced' = raced \ {e}
    BY DEF Check
  <2>2. QED
    BY <1>3, <1>4, <1>5, <2>1

\* The thread of an entry.
LEMMA WriterOfThread ==
    ASSUME WriterInv, NEW e \in DOMAIN doc, MakeSendorThr(e)
    PROVE  WriterInv'
<1>1. CASE Round(e)
  <2>1. /\ UNCHANGED <<doc, top>>
        /\ link' = [link EXCEPT ![e] = "connecting"]
        /\ outputBuffer' = [outputBuffer EXCEPT ![e] = <<Setup>>]
        /\ writer' = [writer EXCEPT ![e] = writer[e]]
        /\ raced' \in {raced, raced \ {e}}
        /\ writer[e] \in {"idle", "writing", "ending"}
        /\ \/ "connecting" # "ready" \/ <<Setup>> = <<>> \/ writer[e] = "writing"
           \/ "connecting" = link[e] /\ <<Setup>> = outputBuffer[e] /\ raced' = raced /\ writer[e] # "writing"
    BY <1>1 DEF Round, WriterInv, cfgVars, ioVars, callVars
  <2>2. QED
    BY <2>1, WriterOfOne
<1>2. CASE ConnectOk(e)
  <2>1. /\ UNCHANGED <<doc, top>>
        /\ link' = [link EXCEPT ![e] = "login"]
        /\ outputBuffer' = [outputBuffer EXCEPT ![e] = outputBuffer[e]]
        /\ writer' = [writer EXCEPT ![e] = (IF outputBuffer[e] # <<>> THEN "writing" ELSE writer[e])]
        /\ raced' \in {raced, raced \ {e}}
        /\ (IF outputBuffer[e] # <<>> THEN "writing" ELSE writer[e]) \in {"idle", "writing", "ending"}
        /\ \/ "login" # "ready" \/ outputBuffer[e] = <<>> \/ (IF outputBuffer[e] # <<>> THEN "writing" ELSE writer[e]) = "writing"
           \/ "login" = link[e] /\ outputBuffer[e] = outputBuffer[e] /\ raced' = raced /\ writer[e] # "writing"
    BY <1>2 DEF ConnectOk, WriterInv, cfgVars
  <2>2. QED
    BY <2>1, WriterOfOne
<1>3. CASE Ready(e)
  <2>1. /\ UNCHANGED <<doc, top>>
        /\ link' = [link EXCEPT ![e] = "ready"]
        /\ outputBuffer' = [outputBuffer EXCEPT ![e] = pending[e]]
        /\ writer' = [writer EXCEPT ![e] = (IF pending[e] # <<>> THEN "writing" ELSE writer[e])]
        /\ raced' \in {raced, raced \ {e}}
        /\ (IF pending[e] # <<>> THEN "writing" ELSE writer[e]) \in {"idle", "writing", "ending"}
        /\ \/ "ready" # "ready" \/ pending[e] = <<>> \/ (IF pending[e] # <<>> THEN "writing" ELSE writer[e]) = "writing"
           \/ "ready" = link[e] /\ pending[e] = outputBuffer[e] /\ raced' = raced /\ writer[e] # "writing"
    BY <1>3 DEF Ready, WriterInv, cfgVars
  <2>2. QED
    BY <2>1, WriterOfOne
<1>4. CASE Written(e)
  <2>1. /\ UNCHANGED <<doc, top>>
        /\ link' = [link EXCEPT ![e] = link[e]]
        /\ outputBuffer' = [outputBuffer EXCEPT ![e] = Tail(outputBuffer[e])]
        /\ writer' = [writer EXCEPT ![e] = (IF Tail(outputBuffer[e]) = <<>> THEN "ending" ELSE writer[e])]
        /\ raced' \in {raced, raced \ {e}}
        /\ (IF Tail(outputBuffer[e]) = <<>> THEN "ending" ELSE writer[e]) \in {"idle", "writing", "ending"}
        /\ \/ link[e] # "ready" \/ Tail(outputBuffer[e]) = <<>> \/ (IF Tail(outputBuffer[e]) = <<>> THEN "ending" ELSE writer[e]) = "writing"
           \/ link[e] = link[e] /\ Tail(outputBuffer[e]) = outputBuffer[e] /\ raced' = raced /\ writer[e] # "writing"
    BY <1>4 DEF Written, WriterInv, cfgVars
  <2>2. QED
    BY <2>1, WriterOfOne
<1>5. CASE WriteEnds(e)
  <2>1. /\ UNCHANGED <<doc, top>>
        /\ link' = [link EXCEPT ![e] = (IF link[e] = "quitting" THEN "cut" ELSE link[e])]
        /\ outputBuffer' = [outputBuffer EXCEPT ![e] = outputBuffer[e]]
        /\ writer' = [writer EXCEPT ![e] = "idle"]
        /\ raced' \in {raced, raced \ {e}}
        /\ "idle" \in {"idle", "writing", "ending"}
        /\ \/ (IF link[e] = "quitting" THEN "cut" ELSE link[e]) # "ready" \/ outputBuffer[e] = <<>> \/ "idle" = "writing"
           \/ (IF link[e] = "quitting" THEN "cut" ELSE link[e]) = link[e] /\ outputBuffer[e] = outputBuffer[e] /\ raced' = raced /\ writer[e] # "writing"
    BY <1>5 DEF WriteEnds, WriterInv, cfgVars
  <2>2. QED
    BY <2>1, WriterOfOne
<1>6. CASE EndRound(e)
  <2>1. /\ UNCHANGED <<doc, top>>
        /\ link' = [link EXCEPT ![e] = "off"]
        /\ outputBuffer' = [outputBuffer EXCEPT ![e] = <<>>]
        /\ writer' = [writer EXCEPT ![e] = "idle"]
        /\ raced' \in {raced, raced \ {e}}
        /\ "idle" \in {"idle", "writing", "ending"}
        /\ \/ "off" # "ready" \/ <<>> = <<>> \/ "idle" = "writing"
           \/ "off" = link[e] /\ <<>> = outputBuffer[e] /\ raced' = raced /\ writer[e] # "writing"
    BY <1>6 DEF EndRound, WriterInv, cfgVars
  <2>2. QED
    BY <2>1, WriterOfOne
<1>7. QED
  BY <1>1, <1>2, <1>3, <1>4, <1>5, <1>6
     DEF MakeSendorThr, SimpleRound, WorkRound, PublishRound, RoutingRound, TopicRound

\* What breaks a round.
LEMMA WriterBroken ==
    ASSUME WriterInv, NEW e \in DOMAIN doc, Broken(e)
    PROVE  WriterInv'
<1>1. CASE ConnectFails(e)
  <2>1. /\ UNCHANGED <<doc, top>>
        /\ link' = [link EXCEPT ![e] = "cut"]
        /\ outputBuffer' = [outputBuffer EXCEPT ![e] = outputBuffer[e]]
        /\ writer' = [writer EXCEPT ![e] = writer[e]]
        /\ raced' \in {raced, raced \ {e}}
        /\ writer[e] \in {"idle", "writing", "ending"}
        /\ \/ "cut" # "ready" \/ outputBuffer[e] = <<>> \/ writer[e] = "writing"
           \/ "cut" = link[e] /\ outputBuffer[e] = outputBuffer[e] /\ raced' = raced /\ writer[e] # "writing"
    BY <1>1 DEF ConnectFails, WriterInv, cfgVars
  <2>2. QED
    BY <2>1, WriterOfOne
<1>2. CASE ChannelError(e)
  <2>1. /\ UNCHANGED <<doc, top>>
        /\ link' = [link EXCEPT ![e] = "closed"]
        /\ outputBuffer' = [outputBuffer EXCEPT ![e] = outputBuffer[e]]
        /\ writer' = [writer EXCEPT ![e] = writer[e]]
        /\ raced' \in {raced, raced \ {e}}
        /\ writer[e] \in {"idle", "writing", "ending"}
        /\ \/ "closed" # "ready" \/ outputBuffer[e] = <<>> \/ writer[e] = "writing"
           \/ "closed" = link[e] /\ outputBuffer[e] = outputBuffer[e] /\ raced' = raced /\ writer[e] # "writing"
    BY <1>2 DEF ChannelError, WriterInv, cfgVars
  <2>2. QED
    BY <2>1, WriterOfOne
<1>3. CASE OnClosed(e)
  <2>1. /\ UNCHANGED <<doc, top>>
        /\ link' = [link EXCEPT ![e] = (IF WriteInProgress(e) THEN "quitting" ELSE "cut")]
        /\ outputBuffer' = [outputBuffer EXCEPT ![e] = outputBuffer[e]]
        /\ writer' = [writer EXCEPT ![e] = writer[e]]
        /\ raced' \in {raced, raced \ {e}}
        /\ writer[e] \in {"idle", "writing", "ending"}
        /\ \/ (IF WriteInProgress(e) THEN "quitting" ELSE "cut") # "ready" \/ outputBuffer[e] = <<>> \/ writer[e] = "writing"
           \/ (IF WriteInProgress(e) THEN "quitting" ELSE "cut") = link[e] /\ outputBuffer[e] = outputBuffer[e] /\ raced' = raced /\ writer[e] # "writing"
    BY <1>3 DEF OnClosed, WriterInv, cfgVars
  <2>2. QED
    BY <2>1, WriterOfOne
<1>4. CASE Break(e)
  <2>1. /\ UNCHANGED <<doc, top>>
        /\ link' = [link EXCEPT ![e] = "broken"]
        /\ outputBuffer' = [outputBuffer EXCEPT ![e] = outputBuffer[e]]
        /\ writer' = [writer EXCEPT ![e] = writer[e]]
        /\ raced' \in {raced, raced \ {e}}
        /\ writer[e] \in {"idle", "writing", "ending"}
        /\ \/ "broken" # "ready" \/ outputBuffer[e] = <<>> \/ writer[e] = "writing"
           \/ "broken" = link[e] /\ outputBuffer[e] = outputBuffer[e] /\ raced' = raced /\ writer[e] # "writing"
    BY <1>4 DEF Break, WriterInv, cfgVars
  <2>2. QED
    BY <2>1, WriterOfOne
<1>5. CASE ErrorReading(e)
  <2>1. /\ UNCHANGED <<doc, top>>
        /\ link' = [link EXCEPT ![e] = "cut"]
        /\ outputBuffer' = [outputBuffer EXCEPT ![e] = outputBuffer[e]]
        /\ writer' = [writer EXCEPT ![e] = writer[e]]
        /\ raced' \in {raced, raced \ {e}}
        /\ writer[e] \in {"idle", "writing", "ending"}
        /\ \/ "cut" # "ready" \/ outputBuffer[e] = <<>> \/ writer[e] = "writing"
           \/ "cut" = link[e] /\ outputBuffer[e] = outputBuffer[e] /\ raced' = raced /\ writer[e] # "writing"
    BY <1>5 DEF ErrorReading, WriterInv, cfgVars
  <2>2. QED
    BY <2>1, WriterOfOne
<1>6. QED
  BY <1>1, <1>2, <1>3, <1>4, <1>5 DEF Broken

LEMMA WriterSendor == WriterInv /\ SendorNext => WriterInv'
<1> SUFFICES ASSUME WriterInv, SendorNext
             PROVE  WriterInv'
  OBVIOUS
<1>1. CASE MakeSendor
  BY <1>1, WriterUntouched DEF MakeSendor, cfgVars, ioVars
<1>2. CASE Top
  BY <1>2, WriterTop
<1>3. ASSUME NEW msg, Transfer(msg)
      PROVE  WriterInv'
  <2>1. PICK key : Put(msg, key)
    BY <1>3 DEF Transfer, SimpleTransferByKey, WorkTransferByKey,
       PublishTransferByKey, RoutingTransferByKey, TopicTransferByKey, SimpleTransferByRoutingkey,
       WorkTransferByRoutingkey, PublishTransferByRoutingkey, TransferByKey, TransferByRoutingkey
  <2>2. QED
    BY <2>1, WriterUntouched DEF Put, cfgVars, ioVars
<1>4. ASSUME NEW e \in DOMAIN doc, Check(e)
      PROVE  WriterInv'
  BY <1>4, WriterCheck
<1>5. ASSUME NEW e \in DOMAIN doc, MakeSendorThr(e) \/ Broken(e)
      PROVE  WriterInv'
  BY <1>5, WriterOfThread, WriterBroken
<1>6. QED
  BY <1>1, <1>2, <1>3, <1>4, <1>5 DEF SendorNext

\* A restart of the broker leaves no entry ready.
LEMMA WriterRestarts == WriterInv /\ BrokerRestarts => WriterInv'
<1> SUFFICES ASSUME WriterInv, BrokerRestarts
             PROVE  WriterInv'
  OBVIOUS
<1>1. UNCHANGED <<doc, outputBuffer, writer, top, raced>>
  BY DEF BrokerRestarts, cfgVars
<1>2. /\ link' = [f \in DOMAIN doc |-> link'[f]]
      /\ \A f \in DOMAIN doc : link'[f] # "ready"
  BY Zenon DEF BrokerRestarts
<1>3. QED
  BY <1>1, <1>2 DEF WriterInv

\* For any document, messages and keys: a frame stands still in the handler of a
\* ready entry only behind a push that fell into the end of a write.
THEOREM SendorStuckOnlyIfRaced == SafeSpec => []StuckOnlyIfRaced
<1>1. Init => WriterInv
  BY WriterInit
<1>2. WriterInv /\ [Next]_vars => WriterInv'
  <2>1. WriterInv /\ SendorStep => WriterInv'
    BY WriterSendor DEF SendorStep
  <2>2. WriterInv /\ ReceiverStep => WriterInv'
    BY WriterUntouched DEF ReceiverStep, sendorVars, ioVars
  <2>3. WriterInv /\ UNCHANGED vars => WriterInv'
    BY WriterUntouched DEF vars, cfgVars, sendorVars, ioVars
  <2>4. QED
    BY <2>1, <2>2, <2>3, WriterRestarts DEF Next
<1>3. WriterInv => StuckOnlyIfRaced
  BY DEF WriterInv, StuckOnlyIfRaced, WriteInProgress
<1>4. QED
  BY <1>1, <1>2, <1>3, PTL DEF SafeSpec

-----------------------------------------------------------------------------
(* What the readers of cfg.xml find *)

\* The items that the sender's reader looks at, and the keys of an item.
ReadItems == {i \in DOMAIN doc : IF TypeOf[kind] <= 3 THEN doc[i].type \in 1..3
                                                      ELSE doc[i].type = TypeOf[kind]}
KeysOf(i) == {doc[i].keys[n][1] : n \in DOMAIN doc[i].keys}

\* The item of a key, as ItemOf means it.
FirstItem(key) ==
    CHOOSE i \in ReadItems : /\ key \in KeysOf(i)
                             /\ \A j \in ReadItems : key \in KeysOf(j) => i <= j

LEMMA FirstIsLeast ==
    ASSUME NEW N \in SUBSET Nat, N # {}
    PROVE  First(N) \in N /\ \A j \in N : First(N) <= j
BY LeastExists DEF First

\* The attributes of an item of the first three types are its only key.
LEMMA KeyOfItem ==
    ASSUME doc \in Documents, NEW i \in DOMAIN doc, doc[i].type \in 1..3
    PROVE  KeysOf(i) = {doc[i].keys[1][1]} /\ doc[i].keys[1][1] \in Nat
<1>1. DOMAIN doc[i].keys = 1..1
  BY DocumentsAssumption
<1>2. DOMAIN doc[i].keys = {1}
  BY <1>1
<1>3. QED
  BY <1>2, DocumentsAssumption DEF KeysOf

LEMMA KindIs ==
    ASSUME kind \in Kinds
    PROVE  /\ kind \in {"simple", "work", "publish", "routing", "topic"}
           /\ kind = "simple" => TypeOf[kind] = 1
           /\ kind = "work" => TypeOf[kind] = 2
           /\ kind = "publish" => TypeOf[kind] = 3
           /\ kind = "routing" => TypeOf[kind] = 4
           /\ kind = "topic" => TypeOf[kind] = 5
BY DEF Kinds, TypeOf

LEMMA DocumentIs ==
    ASSUME doc \in Documents
    PROVE  DOMAIN doc \in SUBSET (Nat \ {0})
<1>1. DOMAIN doc = 1..Len(doc) /\ Len(doc) \in Nat
  BY DocumentsAssumption
<1>2. QED
  BY <1>1

\* get_by_key returns the entry of the first item with the key.
LEMMA FindsFirst ==
    ASSUME kind \in Kinds, doc \in Documents, NEW key, GetByKey(kind, doc, key) # NoEntry
    PROVE  /\ GetByKey(kind, doc, key) \in ReadItems
           /\ key \in KeysOf(GetByKey(kind, doc, key))
           /\ GetByKey(kind, doc, key) = FirstItem(key)
<1> DEFINE e == GetByKey(kind, doc, key)
<1>0. DOMAIN doc \in SUBSET Nat /\ 0 \notin DOMAIN doc
  BY DocumentIs
<1>1. CASE TypeOf[kind] <= 3
  <2> DEFINE found == {i \in Inserted(doc) : doc[i].keys[1][1] = key}
  <2>1. e = IF found = {} THEN NoEntry ELSE First(found)
    BY <1>1 DEF GetByKey, SendorByKey, FirstOr
  <2>2. found # {} /\ found \in SUBSET Nat
    BY <1>0, <2>1 DEF Inserted
  <2>3. e \in found /\ \A j \in found : e <= j
    <3> HIDE DEF found, e
    <3> QED
      BY <2>1, <2>2, FirstIsLeast
  <2>4. e \in DOMAIN doc /\ doc[e].type \in 1..3 /\ doc[e].keys[1][1] = key
    BY <2>3 DEF Inserted
  <2>5. e \in ReadItems /\ key \in KeysOf(e)
    <3> HIDE DEF e
    <3> QED
      BY <1>1, <2>4, KeyOfItem DEF ReadItems
  <2>6. ASSUME NEW j \in ReadItems, key \in KeysOf(j) PROVE e <= j
    <3>1. j \in DOMAIN doc /\ doc[j].type \in 1..3 /\ doc[j].keys[1][1] = key
      BY <1>1, <2>6, KeyOfItem DEF ReadItems
    <3>2. e \in Inserted(doc)
      BY <2>3
    <3>3. j \notin 1..(e - 1)
      BY <2>4, <3>1, <3>2 DEF Inserted
    <3>4. j \in Nat \ {0} /\ e \in Nat
      BY <1>0, <2>4, <3>1
    <3> HIDE DEF e
    <3>5. QED
      BY <3>3, <3>4
  <2> HIDE DEF e
  <2>7. FirstItem(key) = e
    <3>1. ASSUME NEW i \in ReadItems, key \in KeysOf(i),
                 \A j \in ReadItems : key \in KeysOf(j) => i <= j
          PROVE  i = e
      <4>1. i <= e /\ e <= i
        BY <2>5, <2>6, <3>1
      <4>2. i \in Nat /\ e \in Nat
        BY <1>0, <2>5 DEF ReadItems
      <4>3. QED
        BY <4>1, <4>2
    <3>2. QED
      BY <2>5, <2>6, <3>1 DEF FirstItem
  <2>8. QED
    BY <2>5, <2>7 DEF e
<1>2. CASE ~(TypeOf[kind] <= 3)
  <2> DEFINE found == {i \in DOMAIN doc : doc[i].type = TypeOf[kind] /\ PlacesOf(doc, i, key) # {}}
  <2>1. e = IF found = {} THEN NoEntry ELSE First(found)
    BY <1>2 DEF GetByKey, RoutingByKey, FirstOr
  <2>2. found # {} /\ found \in SUBSET Nat
    BY <1>0, <2>1
  <2>3. e \in found /\ \A j \in found : e <= j
    <3> HIDE DEF found, e
    <3> QED
      BY <2>1, <2>2, FirstIsLeast
  <2>4. \A i : i \in found <=> i \in ReadItems /\ key \in KeysOf(i)
    BY <1>2 DEF ReadItems, KeysOf, PlacesOf
  <2> HIDE DEF e, found
  <2>5. FirstItem(key) = e
    <3>1. ASSUME NEW i \in ReadItems, key \in KeysOf(i),
                 \A j \in ReadItems : key \in KeysOf(j) => i <= j
          PROVE  i = e
      <4>1. i <= e /\ e <= i
        BY <2>3, <2>4, <3>1
      <4>2. i \in Nat /\ e \in Nat
        BY <2>2, <2>3, <2>4, <3>1
      <4>3. QED
        BY <4>1, <4>2
    <3>2. QED
      BY <2>3, <2>4, <3>1 DEF FirstItem
  <2>6. QED
    BY <2>3, <2>4, <2>5 DEF e
<1>3. QED
  BY <1>1, <1>2

\* get_by_routingkey returns one of the items that were inserted, the one with the
\* least key of those with the routingkey.
LEMMA FindsLeastKey ==
    ASSUME doc \in Documents, NEW routingkey, SendorByRoutingkey(doc, routingkey) # NoEntry
    PROVE  LET e == SendorByRoutingkey(doc, routingkey)
               found == {i \in Inserted(doc) : doc[i].keys[1][2] = routingkey}
           IN  e \in found /\ \A j \in found : doc[e].keys[1][1] <= doc[j].keys[1][1]
<1> DEFINE found == {i \in Inserted(doc) : doc[i].keys[1][2] = routingkey}
           keys == {doc[i].keys[1][1] : i \in found}
<1>1. /\ found # {}
      /\ SendorByRoutingkey(doc, routingkey) =
           CHOOSE i \in found : \A j \in found : doc[i].keys[1][1] <= doc[j].keys[1][1]
  BY DEF SendorByRoutingkey
<1>2. keys \in SUBSET Nat /\ keys # {}
  <2>1. \A i \in Inserted(doc) : i \in DOMAIN doc /\ doc[i].type \in 1..3
    BY DEF Inserted
  <2>2. \A i \in Inserted(doc) : doc[i].keys[1][1] \in Nat
    BY <2>1, KeyOfItem
  <2>3. \A i \in found : doc[i].keys[1][1] \in Nat
    BY <2>2
  <2> HIDE DEF found
  <2>4. QED
    BY <1>1, <2>3
<1>3. PICK k \in keys : \A l \in keys : k <= l
  <2> HIDE DEF keys
  <2> QED
    BY <1>2, LeastExists
<1>4. PICK i \in found : k = doc[i].keys[1][1]
  BY <1>3
<1>5. \A j \in found : doc[i].keys[1][1] <= doc[j].keys[1][1]
  BY <1>3, <1>4
<1> HIDE DEF found
<1>6. QED
  BY <1>1, <1>4, <1>5 DEF found

\* It is in ReadItems and the first item with its key, so that get_by_key finds it
\* again.
LEMMA InsertedIsFirst ==
    ASSUME kind \in Kinds, doc \in Documents, TypeOf[kind] <= 3, NEW i \in Inserted(doc)
    PROVE  /\ i \in ReadItems
           /\ KeysOf(i) = {doc[i].keys[1][1]} /\ doc[i].keys[1][1] \in Nat
           /\ GetByKey(kind, doc, doc[i].keys[1][1]) = i
           /\ FirstItem(doc[i].keys[1][1]) = i
<1> DEFINE key == doc[i].keys[1][1]
           found == {j \in Inserted(doc) : doc[j].keys[1][1] = key}
<1>0. DOMAIN doc \in SUBSET Nat /\ 0 \notin DOMAIN doc
  BY DocumentIs
<1>1. i \in DOMAIN doc /\ doc[i].type \in 1..3
  BY DEF Inserted
<1>2. KeysOf(i) = {key} /\ key \in Nat /\ i \in ReadItems
  BY <1>1, KeyOfItem DEF ReadItems
<1>3. found \in SUBSET Nat /\ i \in found
  BY <1>0 DEF Inserted
<1>4. First(found) \in found
  <2> HIDE DEF found
  <2> QED
    BY <1>3, FirstIsLeast
<1>5. First(found) # NoEntry
  BY <1>0, <1>4 DEF NoEntry, Inserted
<1>6. GetByKey(kind, doc, key) = First(found)
  <2>1. GetByKey(kind, doc, key) = FirstOr(found, NoEntry)
    BY DEF GetByKey, SendorByKey
  <2> HIDE DEF found
  <2>2. QED
    BY <2>1, <1>3 DEF FirstOr
<1>7. GetByKey(kind, doc, key) = FirstItem(key)
  <2> HIDE DEF key, found
  <2> QED
    BY <1>5, <1>6, FindsFirst
<1>8. First(found) = i
  <2> DEFINE j == First(found)
  <2>1. /\ j \in DOMAIN doc /\ doc[j].type \in 1..3 /\ doc[j].keys[1][1] = key
        /\ j \in Inserted(doc)
    BY <1>4 DEF Inserted
  <2> HIDE DEF j
  <2>2. j \notin 1..(i - 1) /\ i \notin 1..(j - 1)
    BY <1>1, <2>1 DEF Inserted
  <2>3. i \in Nat \ {0} /\ j \in Nat \ {0}
    BY <1>0, <1>1, <2>1
  <2>4. i = j
    BY <2>2, <2>3
  <2>5. QED
    BY <2>4 DEF j
<1>9. QED
  BY <1>2, <1>6, <1>7, <1>8

\* The first item with a key was inserted.
LEMMA FirstIsInserted ==
    ASSUME kind \in Kinds, doc \in Documents, TypeOf[kind] <= 3,
           NEW i \in ReadItems, NEW key \in KeysOf(i)
    PROVE  FirstItem(key) \in Inserted(doc) /\ doc[FirstItem(key)].keys[1][1] = key
<1> DEFINE with == {j \in ReadItems : key \in KeysOf(j)}
<1>1. with \in SUBSET Nat /\ with # {}
  BY DocumentIs DEF ReadItems
<1>2. PICK f \in with : \A j \in with : f <= j
  <2> HIDE DEF with
  <2> QED
    BY <1>1, LeastExists
<1>3. f \in DOMAIN doc /\ doc[f].type \in 1..3 /\ doc[f].keys[1][1] = key
  BY KeyOfItem DEF ReadItems
<1>4. ASSUME NEW j \in 1..(f - 1)
      PROVE  doc[j].type \notin 1..3 \/ doc[j].keys[1][1] # doc[f].keys[1][1]
  <2>1. j \in DOMAIN doc /\ ~(f <= j)
    <3>1. DOMAIN doc = 1..Len(doc) /\ Len(doc) \in Nat
      BY DocumentsAssumption
    <3>2. QED
      BY <1>3, <3>1
  <2>2. j \notin with
    BY <1>2, <2>1
  <2>3. QED
    BY <1>3, <2>1, <2>2, KeyOfItem DEF ReadItems
<1>5. f \in Inserted(doc)
  BY <1>3, <1>4 DEF Inserted
<1>6. QED
  BY <1>3, <1>5, InsertedIsFirst

\* The key under which a call puts its message into the task, and the calls that put
\* one there.
KeyOf(msg) ==
    IF msg.by = "key" THEN msg.name ELSE doc[SendorByRoutingkey(doc, msg.name)].keys[1][1]

Accepted(msg) ==
    msg.by # "key" => /\ kind \in {"simple", "work", "publish"}
                      /\ SendorByRoutingkey(doc, msg.name) # NoEntry

\* For any document: the entry that rb_top finds by the key in the task is the item
\* that the document means for the message, whichever call put it there.
THEOREM EntryIsItem ==
    ASSUME kind \in Kinds, doc \in Documents, NEW msg, Accepted(msg),
           GetByKey(kind, doc, KeyOf(msg)) # NoEntry
    PROVE  GetByKey(kind, doc, KeyOf(msg)) = ItemOf(msg)
<1>1. CASE msg.by = "key"
  <2>1. ItemOf(msg) = FirstItem(msg.name)
    BY <1>1 DEF ItemOf, FirstItem, ReadItems, KeysOf
  <2>2. QED
    BY <1>1, <2>1, FindsFirst DEF KeyOf
<1>2. CASE msg.by # "key"
  <2> DEFINE e == SendorByRoutingkey(doc, msg.name)
             keys == {key \in UNION {KeysOf(i) : i \in ReadItems} :
                        doc[FirstItem(key)].keys[1][2] = msg.name}
             least == CHOOSE key \in keys : \A other \in keys : key <= other
  <2>1. TypeOf[kind] <= 3 /\ e # NoEntry
    BY <1>2, KindIs DEF Accepted
  <2>2. ItemOf(msg) = FirstItem(least)
    BY <1>2 DEF ItemOf, FirstItem, ReadItems, KeysOf
  <2>3. e \in Inserted(doc) /\ doc[e].keys[1][2] = msg.name
    BY <2>1, FindsLeastKey
  <2>4. \A j \in Inserted(doc) : doc[j].keys[1][2] = msg.name =>
                                     doc[e].keys[1][1] <= doc[j].keys[1][1]
    BY <2>1, FindsLeastKey
  <2> DEFINE k == doc[e].keys[1][1]
  <2>5. /\ e \in ReadItems /\ KeysOf(e) = {k} /\ k \in Nat
        /\ GetByKey(kind, doc, k) = e /\ FirstItem(k) = e
    BY <2>1, <2>3, InsertedIsFirst
  <2>6. k \in keys
    BY <2>3, <2>5
  <2>7. ASSUME NEW other \in keys PROVE other \in Nat /\ k <= other
    <3>1. PICK i \in ReadItems : other \in KeysOf(i)
      OBVIOUS
    <3> DEFINE f == FirstItem(other)
    <3>2. f \in Inserted(doc) /\ doc[f].keys[1][1] = other
      BY <2>1, <3>1, FirstIsInserted
    <3>3. doc[f].keys[1][2] = msg.name
      BY <3>2
    <3>4. QED
      BY <2>1, <2>4, <3>2, <3>3, InsertedIsFirst
  <2> HIDE DEF keys, k, e
  <2>8. least = k
    <3>1. ASSUME NEW key \in keys, \A other \in keys : key <= other PROVE key = k
      <4>1. key <= k /\ k <= key /\ key \in Nat /\ k \in Nat
        BY <2>5, <2>6, <2>7, <3>1
      <4>2. QED
        BY <4>1
    <3>2. QED
      BY <2>6, <2>7, <3>1
  <2>9. KeyOf(msg) = k
    BY <1>2 DEF KeyOf, e, k
  <2>10. QED
    BY <2>2, <2>5, <2>8, <2>9
<1>3. QED
  BY <1>1, <1>2

\* For any document: where rb_top of each kind publishes a message, by the key in the
\* task, is where the document says that it shall go.
THEOREM PublishesToAddress ==
    ASSUME kind \in Kinds, doc \in Documents, NEW msg, Accepted(msg),
           GetByKey(kind, doc, KeyOf(msg)) # NoEntry
    PROVE  LET key == KeyOf(msg)
           IN  AddressOf(msg) =
                 CASE kind \in {"simple", "work"} -> <<"", doc[SendorByKey(doc, key)].keys[1][2]>>
                   [] kind = "publish" -> <<doc[SendorByKey(doc, key)].exchange, "">>
                   [] kind = "routing" -> <<doc[RoutingByKey(doc, 4, key)].exchange,
                                            MapToRoutingkey(doc, 4, key)>>
                   [] kind = "topic" -> <<doc[RoutingByKey(doc, 5, key)].exchange,
                                          MapToRoutingkey(doc, 5, key)>>
<1> DEFINE key == KeyOf(msg)
           e == GetByKey(kind, doc, key)
<1>1. e = ItemOf(msg)
  BY EntryIsItem
<1>2. e \in ReadItems /\ key \in KeysOf(e)
  BY FindsFirst
<1>3. CASE kind \in {"simple", "work", "publish"}
  <2>1. e = SendorByKey(doc, key)
    BY <1>3, KindIs DEF GetByKey
  <2> HIDE DEF e, key
  <2>2. QED
    BY <1>1, <1>3, <2>1 DEF AddressOf, key
<1>4. CASE kind \in {"routing", "topic"}
  <2>1. TypeOf[kind] \in {4, 5} /\ ~(TypeOf[kind] <= 3)
    BY <1>4, KindIs
  <2>2. e = RoutingByKey(doc, TypeOf[kind], key)
    BY <2>1 DEF GetByKey
  <2>3. key = msg.name
    BY <1>4 DEF KeyOf, Accepted
  <2> DEFINE places == PlacesOf(doc, e, key)
             keys == doc[e].keys
             node == CHOOSE n \in DOMAIN keys :
                       /\ keys[n][1] = msg.name
                       /\ \A m \in 1..(n - 1) : keys[m][1] # msg.name
  <2>4. DOMAIN keys = 1..Len(keys) /\ Len(keys) \in Nat
    BY <1>2, DocumentsAssumption DEF ReadItems
  <2>5. places = {n \in DOMAIN keys : keys[n][1] = msg.name}
    BY <2>3 DEF PlacesOf
  <2>6. places # {} /\ places \in SUBSET Nat
    BY <1>2, <2>3, <2>4, <2>5 DEF KeysOf
  <2>7. First(places) \in places /\ \A j \in places : First(places) <= j
    <3> HIDE DEF places
    <3> QED
      BY <2>6, FirstIsLeast
  <2> DEFINE f == First(places)
  <2>8. node = f
    <3> HIDE DEF f, keys, places
    <3>1. f \in 1..Len(keys) /\ keys[f][1] = msg.name
      BY <2>4, <2>5, <2>7 DEF f
    <3>2. \A m \in 1..(f - 1) : keys[m][1] # msg.name
      <4>1. ASSUME NEW m \in 1..(f - 1), keys[m][1] = msg.name PROVE FALSE
        <5>1. m \in 1..Len(keys) /\ ~(f <= m)
          BY <2>4, <3>1
        <5>2. QED
          BY <2>4, <2>5, <2>7, <4>1, <5>1 DEF f
      <4>2. QED
        BY <4>1
    <3>3. ASSUME NEW n \in DOMAIN keys, keys[n][1] = msg.name,
                 \A m \in 1..(n - 1) : keys[m][1] # msg.name
          PROVE  n = f
      <4>1. f \notin 1..(n - 1) /\ n \notin 1..(f - 1)
        BY <3>1, <3>2, <3>3
      <4>2. n \in Nat \ {0} /\ f \in Nat \ {0}
        BY <2>4, <3>1, <3>3
      <4>3. QED
        BY <4>1, <4>2
    <3>4. QED
      BY <2>4, <3>1, <3>2, <3>3
  <2>9. AddressOf(msg) = <<doc[e].exchange, doc[e].keys[node][2]>>
    <3> HIDE DEF e, key
    <3> QED
      BY <1>1, <1>4 DEF AddressOf
  <2>10. MapToRoutingkey(doc, TypeOf[kind], key) = doc[e].keys[f][2]
    <3> HIDE DEF e, key
    <3> QED
      BY <2>2 DEF MapToRoutingkey
  <2>11. AddressOf(msg) = <<doc[RoutingByKey(doc, TypeOf[kind], key)].exchange,
                            MapToRoutingkey(doc, TypeOf[kind], key)>>
    BY <2>2, <2>8, <2>9, <2>10
  <2> HIDE DEF e, key
  <2>12. QED
    BY <1>4, <2>11, KindIs DEF key
<1>5. QED
  BY <1>3, <1>4, KindIs

-----------------------------------------------------------------------------
(* What the entries hold *)

\* What a call puts into the task, and the frames that rb_top makes for an entry.
Calls == {[msg |-> m, key |-> KeyOf(m)] : m \in {m \in Messages : Accepted(m)}}
Frames(e) ==
    {[msg |-> m, to |-> AddressOf(m)] :
        m \in {m \in Messages : Accepted(m) /\ GetByKey(kind, doc, KeyOf(m)) = e}}

\* Only frames of an entry wait for it, and a write in progress has its frame.
EntryInv ==
    /\ kind \in Kinds /\ doc \in Documents
    /\ link = [e \in DOMAIN doc |-> link[e]]
    /\ outputBuffer = [e \in DOMAIN doc |-> outputBuffer[e]]
    /\ writer = [e \in DOMAIN doc |-> writer[e]]
    /\ pending = [e \in DOMAIN doc |-> pending[e]]
    /\ task \in Seq(Calls)
    /\ \A e \in DOMAIN doc :
         /\ pending[e] \in Seq(Frames(e))
         /\ outputBuffer[e] \in Seq(Frames(e) \cup {Setup})
         /\ link[e] = "ready" => outputBuffer[e] \in Seq(Frames(e))
         /\ writer[e] = "writing" => undefined \/ outputBuffer[e] # <<>>

\* The document stays what it is, and what is said of it.
LEMMA DocumentFixed ==
    ASSUME UNCHANGED <<kind, doc>>
    PROVE  /\ \A msg : /\ ItemOf(msg)' = ItemOf(msg) /\ AddressOf(msg)' = AddressOf(msg)
                       /\ KeyOf(msg)' = KeyOf(msg) /\ Accepted(msg)' <=> Accepted(msg)
           /\ Calls' = Calls
           /\ \A e : Frames(e)' = Frames(e)
<1>1. ASSUME NEW msg
      PROVE  /\ ItemOf(msg)' = ItemOf(msg) /\ AddressOf(msg)' = AddressOf(msg)
             /\ KeyOf(msg)' = KeyOf(msg) /\ Accepted(msg)' <=> Accepted(msg)
  <2>1. ItemOf(msg)' = ItemOf(msg)
    BY DEF ItemOf
  <2>2. AddressOf(msg)' = AddressOf(msg)
    BY <2>1 DEF AddressOf
  <2>3. KeyOf(msg)' = KeyOf(msg) /\ Accepted(msg)' <=> Accepted(msg)
    BY DEF KeyOf, Accepted
  <2>4. QED
    BY <2>1, <2>2, <2>3
<1>2. Calls' = Calls
  BY DEF Calls, KeyOf, Accepted
<1>3. ASSUME NEW e PROVE Frames(e)' = Frames(e)
  <2> DEFINE of == {m \in Messages : Accepted(m) /\ GetByKey(kind, doc, KeyOf(m)) = e}
  <2>1. of' = of
    BY DEF KeyOf, Accepted
  <2>2. Frames(e) = {[msg |-> m, to |-> AddressOf(m)] : m \in of}
    BY DEF Frames
  <2>3. Frames(e)' = {[msg |-> m, to |-> AddressOf(m)'] : m \in of'}
    BY DEF Frames
  <2> HIDE DEF of
  <2>4. QED
    BY <1>1, <2>1, <2>2, <2>3
<1>4. Calls' = Calls /\ \A e : Frames(e)' = Frames(e)
  BY <1>2, <1>3
<1>5. QED
  BY <1>1, <1>4

LEMMA EntryUntouched ==
    ASSUME EntryInv, UNCHANGED <<kind, doc, link, outputBuffer, writer, pending, task, undefined>>
    PROVE  EntryInv'
BY DocumentFixed DEF EntryInv

LEMMA EntryInit == Init => EntryInv
BY DEF Init, SendorInit, EntryInv

\* A step of the thread of one entry.
LEMMA EntryOfOne ==
    ASSUME EntryInv, NEW e \in DOMAIN doc, UNCHANGED <<kind, doc, task, undefined>>,
           NEW l, NEW b \in Seq(Frames(e) \cup {Setup}), NEW w, NEW p \in Seq(Frames(e)),
           link' = [link EXCEPT ![e] = l],
           outputBuffer' = [outputBuffer EXCEPT ![e] = b],
           writer' = [writer EXCEPT ![e] = w],
           pending' = [pending EXCEPT ![e] = p],
           l = "ready" => b \in Seq(Frames(e)),
           w = "writing" => undefined \/ b # <<>>
    PROVE  EntryInv'
<1>1. /\ link' = [f \in DOMAIN doc' |-> link'[f]]
      /\ outputBuffer' = [f \in DOMAIN doc' |-> outputBuffer'[f]]
      /\ writer' = [f \in DOMAIN doc' |-> writer'[f]]
      /\ pending' = [f \in DOMAIN doc' |-> pending'[f]]
  BY DEF EntryInv
<1>2. kind' \in Kinds /\ doc' \in Documents /\ task' \in Seq(Calls')
  BY DocumentFixed DEF EntryInv
<1>3. ASSUME NEW f \in DOMAIN doc
      PROVE  /\ pending'[f] \in Seq(Frames(f))
             /\ outputBuffer'[f] \in Seq(Frames(f) \cup {Setup})
             /\ link'[f] = "ready" => outputBuffer'[f] \in Seq(Frames(f))
             /\ writer'[f] = "writing" => undefined \/ outputBuffer'[f] # <<>>
  <2>1. CASE f = e
    <3>1. link'[e] = l /\ outputBuffer'[e] = b /\ writer'[e] = w /\ pending'[e] = p
      BY DEF EntryInv
    <3>2. QED
      BY <2>1, <3>1
  <2>2. CASE f # e
    <3>1. /\ link'[f] = link[f] /\ outputBuffer'[f] = outputBuffer[f]
          /\ writer'[f] = writer[f] /\ pending'[f] = pending[f]
      BY <2>2 DEF EntryInv
    <3>2. QED
      BY <3>1 DEF EntryInv
  <2>3. QED
    BY <2>1, <2>2
<1>4. \A f : Frames(f)' = Frames(f)
  BY DocumentFixed
<1>5. QED
  BY <1>1, <1>2, <1>3, <1>4 DEF EntryInv

\* A call of transfer_data that returns true.
LEMMA TransferDoes ==
    ASSUME NEW msg \in Messages, Transfer(msg)
    PROVE  Accepted(msg) /\ Put(msg, KeyOf(msg))
BY DEF Transfer, SimpleTransferByKey, WorkTransferByKey, PublishTransferByKey,
       RoutingTransferByKey, TopicTransferByKey, SimpleTransferByRoutingkey,
       WorkTransferByRoutingkey, PublishTransferByRoutingkey, TransferByKey,
       TransferByRoutingkey, Accepted, KeyOf

\* rb_top takes the first call, and may add its frame to the entry of its key.
LEMMA TopDoes ==
    ASSUME EntryInv, Top
    PROVE  \E m \in Messages :
             LET e == GetByKey(kind, doc, KeyOf(m))
                 frame == [msg |-> m, to |-> AddressOf(m)]
             IN  /\ top = Idle
                 /\ task # <<>> /\ Head(task) = [msg |-> m, key |-> KeyOf(m)]
                 /\ task' = Tail(task)
                 /\ UNCHANGED <<kind, doc, callVars, channel, link, writer, arrived, raced>>
                 /\ \/ UNCHANGED <<top, pending, outputBuffer, undefined>>
                    \/ /\ e \in DOMAIN doc /\ frame \in Frames(e)
                       /\ Publish(e, frame)
<1>1. PICK item \in ToSet(task) :
        \/ SimpleTop(item.msg, item.key) \/ WorkTop(item.msg, item.key)
        \/ PublishTop(item.msg, item.key)
        \/ RoutingTop(item.msg, item.key) \/ TopicTop(item.msg, item.key)
  BY DEF Top
<1>2. item \in Calls
  BY ToSetOfSeq DEF EntryInv
<1>3. PICK m \in Messages : Accepted(m) /\ item = [msg |-> m, key |-> KeyOf(m)]
  BY <1>2 DEF Calls
<1> DEFINE key == KeyOf(m)
           e == GetByKey(kind, doc, key)
           frame == [msg |-> m, to |-> AddressOf(m)]
           address ==
             CASE kind \in {"simple", "work"} -> <<"", doc[SendorByKey(doc, key)].keys[1][2]>>
               [] kind = "publish" -> <<doc[SendorByKey(doc, key)].exchange, "">>
               [] kind = "routing" -> <<doc[RoutingByKey(doc, 4, key)].exchange,
                                        MapToRoutingkey(doc, 4, key)>>
               [] kind = "topic" -> <<doc[RoutingByKey(doc, 5, key)].exchange,
                                      MapToRoutingkey(doc, 5, key)>>
<1>4. item.msg = m /\ item.key = key
  BY <1>3
<1>5. RbTop(m, key, address)
  <2> HIDE DEF key
  <2> QED
    BY <1>1, <1>4 DEF SimpleTop, WorkTop, PublishTop, RoutingTop, TopicTop
<1>6. e # NoEntry => /\ e \in DOMAIN doc
                     /\ address = AddressOf(m)
                     /\ frame \in Frames(e)
  BY <1>3, PublishesToAddress, FindsFirst DEF EntryInv, Frames, ReadItems
<1> HIDE DEF key, address
<1>7. /\ top = Idle
      /\ task # <<>> /\ Head(task) = [msg |-> m, key |-> KeyOf(m)]
      /\ task' = Tail(task)
      /\ UNCHANGED <<kind, doc, callVars, channel, link, writer, arrived, raced>>
  BY <1>5 DEF RbTop, cfgVars, key
<1>8. \/ UNCHANGED <<top, pending, outputBuffer, undefined>>
      \/ e # NoEntry /\ Publish(e, [msg |-> m, to |-> address])
  BY <1>5 DEF RbTop
<1>9. QED
  BY <1>6, <1>7, <1>8 DEF key

\* What publish does with a frame.
LEMMA PublishDoes ==
    ASSUME NEW e, NEW frame, Publish(e, frame)
    PROVE  \/ UNCHANGED <<top, pending, outputBuffer>> /\ undefined' \in {undefined, TRUE, FALSE}
           \/ /\ link[e] \in {"connecting", "login"}
              /\ pending' = [pending EXCEPT ![e] = Append(@, frame)]
              /\ UNCHANGED <<top, outputBuffer, undefined>>
           \/ /\ link[e] \in {"ready", "broken"}
              /\ outputBuffer' = [outputBuffer EXCEPT ![e] = Append(@, frame)]
              /\ top' = e
              /\ UNCHANGED <<pending, undefined>>
BY DEF Publish, PublishLive

\* rb_top adds a frame of an entry.
LEMMA EntryTop ==
    ASSUME EntryInv, ~undefined, Top
    PROVE  EntryInv'
<1>1. PICK m \in Messages :
        LET f == GetByKey(kind, doc, KeyOf(m))
            x == [msg |-> m, to |-> AddressOf(m)]
        IN  /\ task # <<>> /\ task' = Tail(task)
            /\ UNCHANGED <<kind, doc, link, writer>>
            /\ \/ UNCHANGED <<pending, outputBuffer, undefined>>
               \/ f \in DOMAIN doc /\ x \in Frames(f) /\ Publish(f, x)
  BY TopDoes
<1> DEFINE e == GetByKey(kind, doc, KeyOf(m))
           frame == [msg |-> m, to |-> AddressOf(m)]
<1>2. task' \in Seq(Calls') /\ kind' \in Kinds /\ doc' \in Documents
  BY <1>1, HeadTailProperties, DocumentFixed DEF EntryInv
<1> HIDE DEF e, frame
<1>3. /\ UNCHANGED <<kind, doc, link, writer>>
      /\ \/ UNCHANGED <<pending, outputBuffer>>
         \/ /\ frame \in Frames(e)
            /\ pending' = [pending EXCEPT ![e] = Append(@, frame)]
            /\ UNCHANGED outputBuffer
         \/ /\ frame \in Frames(e)
            /\ outputBuffer' = [outputBuffer EXCEPT ![e] = Append(@, frame)]
            /\ UNCHANGED pending
  <2>1. CASE UNCHANGED <<pending, outputBuffer, undefined>>
    BY <1>1, <2>1
  <2>2. CASE frame \in Frames(e) /\ Publish(e, frame)
    BY <1>1, <2>2, PublishDoes
  <2>3. QED
    BY <1>1, <2>1, <2>2 DEF e, frame
<1>4. \A f : Frames(f)' = Frames(f)
  BY <1>3, DocumentFixed
<1>5. CASE UNCHANGED <<pending, outputBuffer>>
  BY <1>2, <1>3, <1>4, <1>5 DEF EntryInv
<1>6. CASE /\ frame \in Frames(e)
           /\ pending' = [pending EXCEPT ![e] = Append(@, frame)]
           /\ UNCHANGED outputBuffer
  <2>1. pending' = [f \in DOMAIN doc' |-> pending'[f]]
    BY <1>3, <1>6 DEF EntryInv
  <2>2. ASSUME NEW f \in DOMAIN doc PROVE pending'[f] \in Seq(Frames(f))
    <3>1. CASE f = e
      <4>1. pending'[f] = Append(pending[f], frame) /\ pending[f] \in Seq(Frames(f))
        BY <1>6, <3>1 DEF EntryInv
      <4>2. QED
        BY <1>6, <3>1, <4>1, AppendProperties
    <3>2. CASE f # e
      BY <1>6, <3>2 DEF EntryInv
    <3>3. QED
      BY <3>1, <3>2
  <2>3. QED
    BY <1>2, <1>3, <1>4, <1>6, <2>1, <2>2 DEF EntryInv
<1>7. CASE /\ frame \in Frames(e)
           /\ outputBuffer' = [outputBuffer EXCEPT ![e] = Append(@, frame)]
           /\ UNCHANGED pending
  <2>1. outputBuffer' = [f \in DOMAIN doc' |-> outputBuffer'[f]]
    BY <1>3, <1>7 DEF EntryInv
  <2>2. ASSUME NEW f \in DOMAIN doc
        PROVE  /\ outputBuffer'[f] \in Seq(Frames(f) \cup {Setup})
               /\ link[f] = "ready" => outputBuffer'[f] \in Seq(Frames(f))
               /\ writer[f] = "writing" => outputBuffer'[f] # <<>>
    <3>1. CASE f = e
      <4>1. outputBuffer'[f] = Append(outputBuffer[f], frame)
        BY <1>7, <3>1 DEF EntryInv
      <4>2. /\ Append(outputBuffer[f], frame) \in Seq(Frames(f) \cup {Setup})
            /\ Append(outputBuffer[f], frame) # <<>>
        <5>1. outputBuffer[f] \in Seq(Frames(f) \cup {Setup}) /\ frame \in Frames(f) \cup {Setup}
          BY <1>7, <3>1 DEF EntryInv
        <5>2. QED
          BY <5>1, AppendProperties, EmptySeq
      <4>3. link[f] = "ready" => Append(outputBuffer[f], frame) \in Seq(Frames(f))
        BY <1>7, <3>1, AppendProperties DEF EntryInv
      <4>4. QED
        BY <4>1, <4>2, <4>3
    <3>2. CASE f # e
      BY <1>7, <3>2 DEF EntryInv
    <3>3. QED
      BY <3>1, <3>2
  <2>3. QED
    BY <1>2, <1>3, <1>4, <1>7, <2>1, <2>2 DEF EntryInv
<1>8. QED
  BY <1>3, <1>5, <1>6, <1>7

\* onData behind its push writes a frame that is there, or front() of an empty deque
\* is undefined.
LEMMA EntryCheck ==
    ASSUME EntryInv, ~undefined, NEW e \in DOMAIN doc, Check(e)
    PROVE  EntryInv'
<1>1. UNCHANGED <<kind, doc, task, link, pending, outputBuffer>>
  BY DEF Check, cfgVars, callVars
<1>2. \/ UNCHANGED writer
      \/ /\ writer' = [writer EXCEPT ![e] = "writing"]
         /\ undefined' = (outputBuffer[e] = <<>>)
  BY DEF Check
<1>3. CASE UNCHANGED writer
  BY <1>1, <1>3, DocumentFixed DEF EntryInv
<1>4. CASE /\ writer' = [writer EXCEPT ![e] = "writing"]
           /\ undefined' = (outputBuffer[e] = <<>>)
  <2>1. writer' = [f \in DOMAIN doc' |-> writer'[f]]
    BY <1>1, <1>4 DEF EntryInv
  <2>2. ASSUME NEW f \in DOMAIN doc, writer'[f] = "writing"
        PROVE  undefined' \/ outputBuffer'[f] # <<>>
    <3>1. CASE f = e
      BY <1>1, <1>4, <3>1
    <3>2. CASE f # e
      BY <1>1, <1>4, <2>2, <3>2 DEF EntryInv
    <3>3. QED
      BY <3>1, <3>2
  <2>3. QED
    BY <1>1, <2>1, <2>2, DocumentFixed DEF EntryInv
<1>5. QED
  BY <1>2, <1>3, <1>4

LEMMA EntryOfThread ==
    ASSUME EntryInv, ~undefined, NEW e \in DOMAIN doc, MakeSendorThr(e)
    PROVE  EntryInv'
<1>1. CASE Round(e)
  <2>1. /\ UNCHANGED <<kind, doc, task, undefined>>
        /\ link' = [link EXCEPT ![e] = "connecting"]
        /\ outputBuffer' = [outputBuffer EXCEPT ![e] = <<Setup>>]
        /\ writer' = [writer EXCEPT ![e] = writer[e]]
        /\ pending' = [pending EXCEPT ![e] = pending[e]]
        /\ pending[e] \in Seq(Frames(e))
        /\ "connecting" = "ready" => <<Setup>> \in Seq(Frames(e))
        /\ writer[e] = "writing" => undefined \/ <<Setup>> # <<>>
    BY <1>1 DEF Round, EntryInv, cfgVars, callVars, ioVars
  <2>2. <<Setup>> \in Seq(Frames(e) \cup {Setup})
    OBVIOUS
  <2>3. QED
    BY <2>1, <2>2, EntryOfOne
<1>2. CASE ConnectOk(e)
  <2>1. /\ UNCHANGED <<kind, doc, task, undefined>>
        /\ link' = [link EXCEPT ![e] = "login"]
        /\ outputBuffer' = [outputBuffer EXCEPT ![e] = outputBuffer[e]]
        /\ writer' = [writer EXCEPT ![e] = (IF outputBuffer[e] # <<>> THEN "writing" ELSE writer[e])]
        /\ pending' = [pending EXCEPT ![e] = pending[e]]
        /\ pending[e] \in Seq(Frames(e))
        /\ outputBuffer[e] \in Seq(Frames(e) \cup {Setup})
        /\ "login" = "ready" => outputBuffer[e] \in Seq(Frames(e))
        /\ (IF outputBuffer[e] # <<>> THEN "writing" ELSE writer[e]) = "writing" => undefined \/ outputBuffer[e] # <<>>
    BY <1>2 DEF ConnectOk, EntryInv, cfgVars, callVars
  <2>2. QED
    BY <2>1, EntryOfOne
<1>3. CASE Ready(e)
  <2>1. /\ UNCHANGED <<kind, doc, task, undefined>>
        /\ link' = [link EXCEPT ![e] = "ready"]
        /\ outputBuffer' = [outputBuffer EXCEPT ![e] = pending[e]]
        /\ writer' = [writer EXCEPT ![e] = (IF pending[e] # <<>> THEN "writing" ELSE writer[e])]
        /\ pending' = [pending EXCEPT ![e] = <<>>]
        /\ <<>> \in Seq(Frames(e))
        /\ pending[e] \in Seq(Frames(e) \cup {Setup})
        /\ "ready" = "ready" => pending[e] \in Seq(Frames(e))
        /\ (IF pending[e] # <<>> THEN "writing" ELSE writer[e]) = "writing" => undefined \/ pending[e] # <<>>
    BY <1>3 DEF Ready, EntryInv, cfgVars, callVars
  <2>2. QED
    BY <2>1, EntryOfOne
<1>4. CASE Written(e)
  <2>1. /\ UNCHANGED <<kind, doc, task, undefined, link, pending>>
        /\ writer[e] = "writing"
        /\ outputBuffer' = [outputBuffer EXCEPT ![e] = Tail(outputBuffer[e])]
        /\ writer' = [writer EXCEPT ![e] =
                        IF Tail(outputBuffer[e]) = <<>> THEN "ending" ELSE writer[e]]
    BY <1>4 DEF Written, cfgVars, callVars
  <2>2. link' = [link EXCEPT ![e] = link[e]] /\ pending' = [pending EXCEPT ![e] = pending[e]]
    BY <2>1 DEF EntryInv
  <2>3. pending[e] \in Seq(Frames(e))
    BY DEF EntryInv
  <2>4. /\ Tail(outputBuffer[e]) \in Seq(Frames(e) \cup {Setup})
        /\ link[e] = "ready" => Tail(outputBuffer[e]) \in Seq(Frames(e))
    BY <2>1, HeadTailProperties DEF EntryInv
  <2>5. QED
    BY <2>1, <2>2, <2>3, <2>4, EntryOfOne
<1>5. CASE WriteEnds(e)
  <2>1. /\ UNCHANGED <<kind, doc, task, undefined>>
        /\ link' = [link EXCEPT ![e] = (IF link[e] = "quitting" THEN "cut" ELSE link[e])]
        /\ outputBuffer' = [outputBuffer EXCEPT ![e] = outputBuffer[e]]
        /\ writer' = [writer EXCEPT ![e] = "idle"]
        /\ pending' = [pending EXCEPT ![e] = pending[e]]
        /\ pending[e] \in Seq(Frames(e))
        /\ outputBuffer[e] \in Seq(Frames(e) \cup {Setup})
        /\ (IF link[e] = "quitting" THEN "cut" ELSE link[e]) = "ready" => outputBuffer[e] \in Seq(Frames(e))
        /\ "idle" = "writing" => undefined \/ outputBuffer[e] # <<>>
    BY <1>5 DEF WriteEnds, EntryInv, cfgVars, callVars
  <2>2. QED
    BY <2>1, EntryOfOne
<1>6. CASE EndRound(e)
  <2>1. /\ UNCHANGED <<kind, doc, task, undefined>>
        /\ link' = [link EXCEPT ![e] = "off"]
        /\ outputBuffer' = [outputBuffer EXCEPT ![e] = <<>>]
        /\ writer' = [writer EXCEPT ![e] = "idle"]
        /\ pending' = [pending EXCEPT ![e] = <<>>]
        /\ <<>> \in Seq(Frames(e))
        /\ <<>> \in Seq(Frames(e) \cup {Setup})
        /\ "off" = "ready" => <<>> \in Seq(Frames(e))
        /\ "idle" = "writing" => undefined \/ <<>> # <<>>
    BY <1>6 DEF EndRound, EntryInv, cfgVars, callVars
  <2>2. QED
    BY <2>1, EntryOfOne
<1>7. QED
  BY <1>1, <1>2, <1>3, <1>4, <1>5, <1>6
     DEF MakeSendorThr, SimpleRound, WorkRound, PublishRound, RoutingRound, TopicRound

LEMMA EntryBroken ==
    ASSUME EntryInv, NEW e \in DOMAIN doc, Broken(e)
    PROVE  EntryInv'
<1>1. CASE ConnectFails(e)
  <2>1. /\ UNCHANGED <<kind, doc, task, undefined>>
        /\ link' = [link EXCEPT ![e] = "cut"]
        /\ outputBuffer' = [outputBuffer EXCEPT ![e] = outputBuffer[e]]
        /\ writer' = [writer EXCEPT ![e] = writer[e]]
        /\ pending' = [pending EXCEPT ![e] = pending[e]]
        /\ pending[e] \in Seq(Frames(e))
        /\ outputBuffer[e] \in Seq(Frames(e) \cup {Setup})
        /\ "cut" = "ready" => outputBuffer[e] \in Seq(Frames(e))
        /\ writer[e] = "writing" => undefined \/ outputBuffer[e] # <<>>
    BY <1>1 DEF ConnectFails, EntryInv, cfgVars, callVars
  <2>2. QED
    BY <2>1, EntryOfOne
<1>2. CASE ChannelError(e)
  <2>1. /\ UNCHANGED <<kind, doc, task, undefined, outputBuffer, writer>>
        /\ link' = [link EXCEPT ![e] = "closed"]
        /\ pending' = [pending EXCEPT ![e] = <<>>]
    BY <1>2 DEF ChannelError, cfgVars, callVars
  <2>2. /\ outputBuffer' = [outputBuffer EXCEPT ![e] = outputBuffer[e]]
        /\ writer' = [writer EXCEPT ![e] = writer[e]]
        /\ writer[e] = "writing" => undefined \/ outputBuffer[e] # <<>>
    BY <2>1 DEF EntryInv
  <2>3. <<>> \in Seq(Frames(e)) /\ outputBuffer[e] \in Seq(Frames(e) \cup {Setup})
    BY DEF EntryInv
  <2>4. QED
    BY <2>1, <2>2, <2>3, EntryOfOne
<1>3. CASE OnClosed(e)
  <2>1. /\ UNCHANGED <<kind, doc, task, undefined>>
        /\ link' = [link EXCEPT ![e] = (IF WriteInProgress(e) THEN "quitting" ELSE "cut")]
        /\ outputBuffer' = [outputBuffer EXCEPT ![e] = outputBuffer[e]]
        /\ writer' = [writer EXCEPT ![e] = writer[e]]
        /\ pending' = [pending EXCEPT ![e] = pending[e]]
        /\ pending[e] \in Seq(Frames(e))
        /\ outputBuffer[e] \in Seq(Frames(e) \cup {Setup})
        /\ (IF WriteInProgress(e) THEN "quitting" ELSE "cut") = "ready" => outputBuffer[e] \in Seq(Frames(e))
        /\ writer[e] = "writing" => undefined \/ outputBuffer[e] # <<>>
    BY <1>3 DEF OnClosed, EntryInv, cfgVars, callVars
  <2>2. QED
    BY <2>1, EntryOfOne
<1>4. CASE Break(e)
  <2>1. /\ UNCHANGED <<kind, doc, task, undefined>>
        /\ link' = [link EXCEPT ![e] = "broken"]
        /\ outputBuffer' = [outputBuffer EXCEPT ![e] = outputBuffer[e]]
        /\ writer' = [writer EXCEPT ![e] = writer[e]]
        /\ pending' = [pending EXCEPT ![e] = pending[e]]
        /\ pending[e] \in Seq(Frames(e))
        /\ outputBuffer[e] \in Seq(Frames(e) \cup {Setup})
        /\ "broken" = "ready" => outputBuffer[e] \in Seq(Frames(e))
        /\ writer[e] = "writing" => undefined \/ outputBuffer[e] # <<>>
    BY <1>4 DEF Break, EntryInv, cfgVars, callVars
  <2>2. QED
    BY <2>1, EntryOfOne
<1>5. CASE ErrorReading(e)
  <2>1. /\ UNCHANGED <<kind, doc, task, undefined>>
        /\ link' = [link EXCEPT ![e] = "cut"]
        /\ outputBuffer' = [outputBuffer EXCEPT ![e] = outputBuffer[e]]
        /\ writer' = [writer EXCEPT ![e] = writer[e]]
        /\ pending' = [pending EXCEPT ![e] = pending[e]]
        /\ pending[e] \in Seq(Frames(e))
        /\ outputBuffer[e] \in Seq(Frames(e) \cup {Setup})
        /\ "cut" = "ready" => outputBuffer[e] \in Seq(Frames(e))
        /\ writer[e] = "writing" => undefined \/ outputBuffer[e] # <<>>
    BY <1>5 DEF ErrorReading, EntryInv, cfgVars, callVars
  <2>2. QED
    BY <2>1, EntryOfOne
<1>6. QED
  BY <1>1, <1>2, <1>3, <1>4, <1>5 DEF Broken

LEMMA EntrySendor ==
    ASSUME EntryInv, SendorNext
    PROVE  EntryInv'
<1>1. ~undefined
  BY DEF SendorNext
<1>2. CASE MakeSendor
  BY <1>2, EntryUntouched DEF MakeSendor, cfgVars, ioVars
<1>3. ASSUME NEW msg \in Messages, Transfer(msg)
      PROVE  EntryInv'
  <2> DEFINE call == [msg |-> msg, key |-> KeyOf(msg)]
  <2>1. /\ call \in Calls /\ task' = Append(task, call)
        /\ UNCHANGED <<kind, doc, link, outputBuffer, writer, pending, undefined>>
    BY <1>3, TransferDoes DEF Put, cfgVars, ioVars, Calls
  <2> HIDE DEF call
  <2>2. task' \in Seq(Calls)
    BY <2>1, AppendProperties DEF EntryInv
  <2>3. QED
    BY <2>1, <2>2, DocumentFixed DEF EntryInv
<1>4. ASSUME NEW e \in DOMAIN doc, Check(e)
      PROVE  EntryInv'
  BY <1>1, <1>4, EntryCheck
<1>5. ASSUME NEW e \in DOMAIN doc, MakeSendorThr(e) \/ Broken(e)
      PROVE  EntryInv'
  BY <1>1, <1>5, EntryOfThread, EntryBroken
<1>6. QED
  BY <1>1, <1>2, <1>3, <1>4, <1>5, EntryTop DEF SendorNext

LEMMA EntryRestarts ==
    ASSUME EntryInv, BrokerRestarts
    PROVE  EntryInv'
<1>1. UNCHANGED <<kind, doc, task, outputBuffer, writer, pending, undefined>>
  BY DEF BrokerRestarts, cfgVars
<1>2. /\ link' = [f \in DOMAIN doc |-> link'[f]]
      /\ \A f \in DOMAIN doc : link'[f] # "ready"
  BY Zenon DEF BrokerRestarts
<1>3. QED
  BY <1>1, <1>2, DocumentFixed DEF EntryInv

-----------------------------------------------------------------------------
(* The types of the sender's state *)

LEMMA CallsTyped ==
    ASSUME kind \in Kinds, doc \in Documents
    PROVE  Calls \subseteq [msg : Messages, key : Nat]
<1> SUFFICES ASSUME NEW m \in Messages, Accepted(m)
             PROVE  KeyOf(m) \in Nat
  BY DEF Calls
<1>1. CASE m.by = "key"
  BY <1>1, MessagesAssumption DEF KeyOf
<1>2. CASE m.by # "key"
  <2>1. SendorByRoutingkey(doc, m.name) \in Inserted(doc)
    BY <1>2, FindsLeastKey DEF Accepted
  <2>2. QED
    BY <1>2, <2>1, KeyOfItem DEF KeyOf, Inserted
<1>3. QED
  BY <1>1, <1>2

LEMMA SendorTyped ==
    ASSUME EntryInv, SendorTypeOK, EntryInv', SendorNext
    PROVE  SendorTypeOK'
<1>0. UNCHANGED <<kind, doc>>
  BY SendorFixed
<1>1. task' \in Seq([msg : Messages, key : Nat])
  <2>1. task' \in Seq(Calls)
    BY <1>0, DocumentFixed DEF EntryInv
  <2>2. QED
    BY <2>1, CallsTyped, SeqMonotonic DEF EntryInv
<1>2. CASE MakeSendor
  BY <1>1, <1>2 DEF MakeSendor, SendorTypeOK, cfgVars, ioVars
<1>3. ASSUME NEW msg \in Messages, Transfer(msg)
      PROVE  SendorTypeOK'
  <2>1. accepted' \in Seq(Messages)
    <3>1. accepted \in Seq(Messages) /\ accepted' = Append(accepted, msg)
      BY <1>3, TransferDoes DEF Put, SendorTypeOK
    <3>2. QED
      BY <3>1, AppendProperties
  <2>2. QED
    BY <1>1, <1>3, <2>1, TransferDoes DEF Put, SendorTypeOK, cfgVars, ioVars
<1>4. CASE Top
  <2>1. PICK m \in Messages :
          LET e == GetByKey(kind, doc, KeyOf(m))
              frame == [msg |-> m, to |-> AddressOf(m)]
          IN  /\ UNCHANGED <<callVars, channel, link, writer, raced>>
              /\ \/ UNCHANGED <<top, pending, outputBuffer, undefined>>
                 \/ e \in DOMAIN doc /\ Publish(e, frame)
    BY <1>4, TopDoes
  <2> DEFINE e == GetByKey(kind, doc, KeyOf(m))
             frame == [msg |-> m, to |-> AddressOf(m)]
  <2> HIDE DEF e, frame
  <2>2. \/ UNCHANGED <<top, pending, outputBuffer, undefined>>
        \/ e \in DOMAIN doc /\ Publish(e, frame)
    BY <2>1 DEF e, frame
  <2>3. CASE UNCHANGED <<top, pending, outputBuffer, undefined>>
    BY <1>0, <1>1, <2>1, <2>3 DEF SendorTypeOK, callVars
  <2>4. CASE e \in DOMAIN doc /\ Publish(e, frame)
    <3>1. top' \in DOMAIN doc \cup {Idle} /\ undefined' \in BOOLEAN
      BY <2>4, PublishDoes DEF SendorTypeOK
    <3>2. \A f \in DOMAIN doc : link[f] = "off" =>
            pending'[f] = pending[f] /\ outputBuffer'[f] = outputBuffer[f]
      BY <2>4, PublishDoes DEF EntryInv
    <3>3. QED
      BY <1>0, <1>1, <2>1, <3>1, <3>2 DEF SendorTypeOK, callVars
  <2>5. QED
    BY <2>2, <2>3, <2>4
<1>5. ASSUME NEW e \in DOMAIN doc, Check(e)
      PROVE  SendorTypeOK'
  <2>1. /\ UNCHANGED <<callVars, channel, link, pending, outputBuffer>> /\ top' = Idle
        /\ writer' \in [DOMAIN doc -> {"idle", "writing", "ending"}]
        /\ raced' \subseteq DOMAIN doc
        /\ undefined' \in BOOLEAN
    BY <1>5 DEF Check, SendorTypeOK
  <2>2. ASSUME NEW f \in DOMAIN doc, link[f] = "off"
        PROVE  writer'[f] = writer[f] /\ (f \in raced' => f \in raced)
    BY <1>5, <2>2 DEF Check, SendorTypeOK
  <2>3. QED
    BY <1>0, <1>1, <2>1, <2>2 DEF SendorTypeOK, callVars
<1>6. ASSUME NEW e \in DOMAIN doc, MakeSendorThr(e)
      PROVE  SendorTypeOK'
  <2>1. CASE SimpleRound(e) \/ WorkRound(e) \/ PublishRound(e) \/ RoutingRound(e) \/ TopicRound(e)
    <3>1. /\ Round(e)
          /\ channel' = [channel EXCEPT ![e] = "live"] \/ UNCHANGED channel
      BY <2>1 DEF SimpleRound, WorkRound, PublishRound, RoutingRound, TopicRound, SaveChannel
    <3>2. /\ UNCHANGED <<callVars, top, pending, writer, raced, undefined>>
          /\ link' = [link EXCEPT ![e] = "connecting"]
          /\ outputBuffer' = [outputBuffer EXCEPT ![e] = <<Setup>>]
      BY <3>1 DEF Round
    <3>3. channel' \in [DOMAIN doc -> {"null", "live", "stale"}]
      BY <3>1 DEF SendorTypeOK
    <3>4. ASSUME NEW f \in DOMAIN doc, link'[f] = "off"
          PROVE  /\ link[f] = "off" /\ outputBuffer'[f] = outputBuffer[f]
                 /\ channel'[f] = channel[f]
      BY <3>1, <3>2, <3>4 DEF SendorTypeOK, EntryInv
    <3>5. link' \in [DOMAIN doc -> {"off", "connecting", "login", "ready", "closed", "quitting",
                                    "broken", "cut"}]
      BY <3>2 DEF SendorTypeOK
    <3>6. QED
      BY <1>0, <1>1, <3>2, <3>3, <3>4, <3>5 DEF SendorTypeOK, callVars
  <2>2. CASE ConnectOk(e)
    BY <1>0, <1>1, <2>2 DEF ConnectOk, SendorTypeOK, callVars
  <2>3. CASE Ready(e)
    BY <1>0, <1>1, <2>3 DEF Ready, SaveChannel, SendorTypeOK, callVars
  <2>4. CASE Written(e)
    BY <1>0, <1>1, <2>4 DEF Written, SendorTypeOK, callVars
  <2>5. CASE WriteEnds(e)
    BY <1>0, <1>1, <2>5 DEF WriteEnds, SendorTypeOK, callVars
  <2>6. CASE EndRound(e)
    BY <1>0, <1>1, <2>6 DEF EndRound, SendorTypeOK, callVars, EntryInv
  <2>7. QED
    BY <1>6, <2>1, <2>2, <2>3, <2>4, <2>5, <2>6 DEF MakeSendorThr
<1>7. ASSUME NEW e \in DOMAIN doc, Broken(e)
      PROVE  SendorTypeOK'
  <2>1. /\ UNCHANGED <<callVars, top, channel, outputBuffer, writer, raced, undefined>>
        /\ link' \in [DOMAIN doc -> {"off", "connecting", "login", "ready", "closed", "quitting",
                                     "broken", "cut"}]
        /\ \A f \in DOMAIN doc : link'[f] = "off" => link[f] = "off" /\ pending'[f] = pending[f]
    <3>1. CASE ConnectFails(e) \/ Break(e) \/ ErrorReading(e)
      BY <3>1 DEF ConnectFails, Break, ErrorReading, SendorTypeOK
    <3>2. CASE ChannelError(e)
      BY <3>2 DEF ChannelError, SendorTypeOK, EntryInv
    <3>3. CASE OnClosed(e)
      BY <3>3 DEF OnClosed, SendorTypeOK
    <3>4. QED
      BY <1>7, <3>1, <3>2, <3>3 DEF Broken
  <2>2. QED
    BY <1>0, <1>1, <2>1 DEF SendorTypeOK, callVars
<1>8. QED
  BY <1>2, <1>3, <1>4, <1>5, <1>6, <1>7 DEF SendorNext

-----------------------------------------------------------------------------
(* What arrives at the broker, and what the receiver gets of it *)

AllFrames == UNION {Frames(e) : e \in DOMAIN doc}

\* What a step of the sender does for the broker.
LEMMA SendorArrives ==
    ASSUME EntryInv, SendorNext
    PROVE  /\ UNCHANGED <<kind, doc>>
           /\ \/ UNCHANGED arrived
              \/ \E e \in DOMAIN doc : \E x \in Frames(e) :
                    /\ Written(e) /\ link[e] = "ready" /\ writer[e] = "writing"
                    /\ outputBuffer[e] # <<>> /\ x = Head(outputBuffer[e])
                    /\ arrived' = Append(arrived, x)
<1>0. ~undefined
  BY DEF SendorNext
<1>1. CASE MakeSendor
  BY <1>1 DEF MakeSendor, cfgVars
<1>2. CASE Top
  BY <1>2 DEF Top, SimpleTop, WorkTop, PublishTop, RoutingTop, TopicTop, RbTop, cfgVars
<1>3. ASSUME NEW msg \in Messages, Transfer(msg)
      PROVE  UNCHANGED <<kind, doc, arrived>>
  BY <1>3 DEF Transfer, SimpleTransferByKey, WorkTransferByKey,
       PublishTransferByKey, RoutingTransferByKey, TopicTransferByKey, SimpleTransferByRoutingkey,
       WorkTransferByRoutingkey, PublishTransferByRoutingkey, TransferByKey, TransferByRoutingkey, Put, cfgVars
<1>4. ASSUME NEW e \in DOMAIN doc, Check(e)
      PROVE  UNCHANGED <<kind, doc, arrived>>
  BY <1>4 DEF Check, cfgVars
<1>5. ASSUME NEW e \in DOMAIN doc, Written(e)
      PROVE  /\ UNCHANGED <<kind, doc>>
             /\ \/ UNCHANGED arrived
                \/ \E x \in Frames(e) :
                      /\ link[e] = "ready" /\ writer[e] = "writing"
                      /\ outputBuffer[e] # <<>> /\ x = Head(outputBuffer[e])
                      /\ arrived' = Append(arrived, x)
  <2>1. /\ UNCHANGED <<kind, doc>> /\ writer[e] = "writing"
        /\ \/ UNCHANGED arrived
           \/ link[e] = "ready" /\ arrived' = Append(arrived, Head(outputBuffer[e]))
    BY <1>5 DEF Written, cfgVars
  <2>2. link[e] = "ready" => outputBuffer[e] # <<>> /\ Head(outputBuffer[e]) \in Frames(e)
    BY <1>0, <2>1, HeadTailProperties DEF EntryInv
  <2>3. QED
    BY <2>1, <2>2
<1>6. ASSUME NEW e \in DOMAIN doc, MakeSendorThr(e) \/ Broken(e), ~Written(e)
      PROVE  UNCHANGED <<kind, doc, arrived>>
  BY <1>6 DEF MakeSendorThr, SimpleRound, WorkRound, PublishRound, RoutingRound, TopicRound,
              Round, ConnectOk, Ready, WriteEnds, EndRound, Broken, ConnectFails, ChannelError,
              OnClosed, Break, ErrorReading, cfgVars
<1>7. QED
  <2>1. CASE \E e \in DOMAIN doc : Written(e)
    BY <1>5, <2>1
  <2>2. CASE \A e \in DOMAIN doc : ~Written(e)
    BY <1>1, <1>2, <1>3, <1>4, <1>6, <2>2 DEF SendorNext
  <2>3. QED
    BY <2>1, <2>2

\* What a step of the sender does to the queue.
LEMMA QueueGets ==
    ASSUME EntryInv, arrived \in Seq(AllFrames), SendorStep
    PROVE  \/ UNCHANGED queue
           \/ \E e \in DOMAIN doc : \E x \in Frames(e) :
                 arrived' = Append(arrived, x) /\ queue' = Append(queue, x.msg)
<1>1. /\ SendorNext
      /\ queue' = IF arrived' # arrived /\ declared /\ Binds(Last(arrived').to)
                  THEN Append(queue, Last(arrived').msg) ELSE queue
  BY DEF SendorStep
<1>2. CASE UNCHANGED arrived
  BY <1>1, <1>2
<1>3. ASSUME NEW e \in DOMAIN doc, NEW x \in Frames(e), arrived' = Append(arrived, x)
      PROVE  Last(arrived') = x
  <2>1. x \in AllFrames
    BY DEF AllFrames
  <2>2. /\ Len(Append(arrived, x)) = Len(arrived) + 1
        /\ Append(arrived, x)[Len(arrived) + 1] = x
    BY <2>1, AppendProperties
  <2>3. QED
    BY <1>3, <2>2 DEF Last
<1>4. QED
  BY <1>1, <1>2, <1>3, SendorArrives

\* f_ gets what was delivered.
LEMMA ToSetHandled ==
    ASSUME handled \in Seq(Messages), NEW x \in Messages
    PROVE  Handled(x) \in Seq(Messages) /\ ToSet(Handled(x)) = ToSet(handled) \cup {x}
<1>1. CASE handled # <<>> /\ Last(handled) = x
  <2>1. Len(handled) \in 1..Len(handled) /\ DOMAIN handled = 1..Len(handled)
    BY <1>1, EmptySeq, LenProperties
  <2>2. x \in ToSet(handled)
    BY <1>1, <2>1 DEF Last, ToSet
  <2>3. QED
    BY <1>1, <2>2 DEF Handled
<1>2. CASE ~(handled # <<>> /\ Last(handled) = x)
  BY <1>2, ToSetAppend, AppendProperties DEF Handled
<1>3. QED
  BY <1>1, <1>2

\* The broker puts back what was not acknowledged.
LEMMA PutBack ==
    ASSUME acking \in Seq(Messages), delivered \in Seq(Messages), queue \in Seq(Messages)
    PROVE  /\ acking \o delivered \o queue \in Seq(Messages)
           /\ ToSet(queue) \cup ToSet(delivered) \subseteq ToSet(acking \o delivered \o queue)
<1> DEFINE out == acking \o delivered
<1>2. out \in Seq(Messages) /\ ToSet(out) = ToSet(acking) \cup ToSet(delivered)
  BY ToSetConcat
<1>3. out \o queue \in Seq(Messages) /\ ToSet(out \o queue) = ToSet(out) \cup ToSet(queue)
  <2> HIDE DEF out
  <2> QED
    BY <1>2, ToSetConcat
<1>4. QED
  BY <1>2, <1>3

ReceiverTypeOK ==
    /\ consumer \in {"off", "on", "dead"} /\ declared \in BOOLEAN
    /\ queue \in Seq(Messages) /\ delivered \in Seq(Messages)
    /\ acking \in Seq(Messages) /\ handled \in Seq(Messages)
    /\ redelivered \subseteq Messages

\* A closed channel puts back as a lost connection does.
LEMMA ChannelPutsBack ==
    ASSUME acking \in Seq(Messages), queue \in Seq(Messages), ReceiverChannelError
    PROVE  /\ queue' = acking \o delivered \o queue /\ delivered' = <<>> /\ acking' = <<>>
           /\ consumer' = "dead"
           /\ UNCHANGED <<kind, rcv, declared, handled, redelivered>>
<1>1. /\ delivered = <<>> /\ delivered' = delivered /\ acking' = <<>> /\ consumer' = "dead"
      /\ queue' = acking \o queue
      /\ UNCHANGED <<kind, rcv, declared, handled, redelivered>>
  BY DEF ReceiverChannelError
<1>2. acking \o <<>> = acking
  OBVIOUS
<1>3. QED
  BY <1>1, <1>2

LEMMA ReceiverTyped ==
    ASSUME ReceiverTypeOK, ReceiverNext
    PROVE  ReceiverTypeOK'
<1>1. CASE ConnetToServer
  BY <1>1 DEF ConnetToServer, SimpleConsumes, WorkConsumes, PublishConsumes,
              RoutingConsumes, TopicConsumes, ReceiverRound, Consume, ConsumeFails, ReceiverTypeOK
<1>2. CASE Deliver
  <2>1. Head(queue) \in Messages /\ Tail(queue) \in Seq(Messages)
    BY <1>2, HeadTailProperties DEF Deliver, ReceiverTypeOK
  <2>2. Append(delivered, Head(queue)) \in Seq(Messages)
    BY <2>1, AppendProperties DEF ReceiverTypeOK
  <2>3. QED
    BY <1>2, <2>1, <2>2 DEF Deliver, ReceiverTypeOK
<1>3. CASE MessageCb \/ WorkMessageCb
  <2>1. Head(delivered) \in Messages /\ Tail(delivered) \in Seq(Messages)
    BY <1>3, HeadTailProperties DEF MessageCb, WorkMessageCb, ReceiverTypeOK
  <2>2. /\ Append(acking, Head(delivered)) \in Seq(Messages)
        /\ Handled(Head(delivered)) \in Seq(Messages)
    BY <2>1, AppendProperties, ToSetHandled DEF ReceiverTypeOK
  <2>3. /\ UNCHANGED <<consumer, declared, queue>>
        /\ delivered' = Tail(delivered)
        /\ acking' \in {acking, Append(acking, Head(delivered))}
        /\ handled' = Handled(Head(delivered))
        /\ redelivered' \subseteq redelivered \cup {Head(delivered)}
    BY <1>3 DEF MessageCb, WorkMessageCb
  <2>4. QED
    BY <2>1, <2>2, <2>3 DEF ReceiverTypeOK
<1>4. CASE AckArrives
  BY <1>4, HeadTailProperties DEF AckArrives, ReceiverTypeOK
<1>5. CASE ReceiverBreaks
  <2>1. /\ consumer' = "off" /\ delivered' = <<>> /\ acking' = <<>>
        /\ UNCHANGED <<handled, redelivered>>
        /\ \/ UNCHANGED declared /\ UNCHANGED queue
           \/ UNCHANGED declared /\ queue' = acking \o delivered \o queue
           \/ declared' = FALSE /\ queue' = <<>>
    <3>1. Lost /\ UNCHANGED <<handled, redelivered>>
      BY <1>5 DEF ReceiverBreaks
    <3>2. \/ UNCHANGED declared /\ UNCHANGED queue
          \/ UNCHANGED declared /\ queue' = acking \o delivered \o queue
          \/ declared' = FALSE /\ queue' = <<>>
      BY <3>1 DEF Lost
    <3>3. QED
      BY <3>1, <3>2 DEF Lost
  <2>2. queue' \in Seq(Messages)
    <3>1. acking \in Seq(Messages) /\ delivered \in Seq(Messages) /\ queue \in Seq(Messages)
      BY DEF ReceiverTypeOK
    <3>2. acking \o delivered \o queue \in Seq(Messages)
      BY <3>1, PutBack
    <3>3. <<>> \in Seq(Messages)
      OBVIOUS
    <3>4. QED
      BY <2>1, <3>1, <3>2, <3>3, Zenon
  <2>3. declared' \in BOOLEAN
    <3>1. declared' = declared \/ declared' = FALSE
      BY <2>1, Zenon
    <3>2. QED
      BY <3>1, Zenon DEF ReceiverTypeOK
  <2>4. delivered' \in Seq(Messages) /\ acking' \in Seq(Messages) /\ handled' \in Seq(Messages)
    BY <2>1 DEF ReceiverTypeOK
  <2>5. consumer' \in {"off", "on", "dead"} /\ redelivered' \subseteq Messages
    BY <2>1, Zenon DEF ReceiverTypeOK
  <2>6. QED
    BY <2>2, <2>3, <2>4, <2>5, Zenon DEF ReceiverTypeOK
<1>6. CASE ReceiverChannelError
  <2>1. acking \in Seq(Messages) /\ delivered \in Seq(Messages) /\ queue \in Seq(Messages)
    BY DEF ReceiverTypeOK
  <2>2. /\ queue' = acking \o delivered \o queue /\ delivered' = <<>> /\ acking' = <<>>
        /\ consumer' = "dead"
        /\ UNCHANGED <<declared, handled, redelivered>>
    BY <1>6, <2>1, ChannelPutsBack
  <2>3. queue' \in Seq(Messages)
    <3>1. acking \o delivered \o queue \in Seq(Messages)
      BY <2>1, PutBack
    <3>2. QED
      BY <2>2, <3>1, Zenon
  <2>4. /\ delivered' \in Seq(Messages) /\ acking' \in Seq(Messages)
        /\ consumer' \in {"off", "on", "dead"}
    BY <2>2
  <2>5. QED
    BY <2>2, <2>3, <2>4, Zenon DEF ReceiverTypeOK
<1>7. QED
  BY <1>1, <1>2, <1>3, <1>4, <1>5, <1>6 DEF ReceiverNext

\* The inductive form of TypeOK: what a handler holds are frames of its entry.
TypeInv ==
    /\ EntryInv
    /\ arrived \in Seq(AllFrames)
    /\ SendorTypeOK
    /\ ReceiverTypeOK

LEMMA TypeInit == Init => TypeInv
<1> SUFFICES ASSUME Init
             PROVE  TypeInv
  OBVIOUS
<1>1. SendorInit /\ ReceiverInit
  BY DEF Init
<1>2. /\ channel \in [DOMAIN doc -> {"null", "live", "stale"}]
      /\ link \in [DOMAIN doc -> {"off", "connecting", "login", "ready", "closed", "quitting",
                                  "broken", "cut"}]
      /\ writer \in [DOMAIN doc -> {"idle", "writing", "ending"}]
      /\ snd_ = "none" /\ accepted = <<>> /\ task = <<>> /\ top = Idle
      /\ raced = {} /\ undefined = FALSE
  BY <1>1 DEF SendorInit
<1>3. \A e \in DOMAIN doc : /\ writer[e] = "idle" /\ pending[e] = <<>> /\ outputBuffer[e] = <<>>
                            /\ channel[e] = "null" /\ e \notin raced
  BY <1>1 DEF SendorInit
<1>4. SendorTypeOK
  <2>1. snd_ \in {"none", "made"} /\ top \in DOMAIN doc \cup {Idle} /\ raced \subseteq DOMAIN doc
    BY <1>2
  <2>2. accepted \in Seq(Messages) /\ task \in Seq([msg : Messages, key : Nat])
    BY <1>2
  <2>3. undefined \in BOOLEAN
    BY <1>2, Zenon
  <2>4. \A e \in DOMAIN doc : channel[e] # "live"
    BY <1>3
  <2>5. QED
    BY <1>2, <1>3, <2>1, <2>2, <2>3, <2>4, Zenon DEF SendorTypeOK
<1>5. ReceiverTypeOK
  <2>1. /\ consumer = "off" /\ declared = FALSE /\ redelivered = {}
        /\ queue = <<>> /\ delivered = <<>> /\ acking = <<>> /\ handled = <<>>
    BY <1>1 DEF ReceiverInit
  <2>2. consumer \in {"off", "on", "dead"} /\ declared \in BOOLEAN
    BY <2>1, Zenon
  <2>3. <<>> \in Seq(Messages)
    OBVIOUS
  <2>4. QED
    BY <2>1, <2>2, <2>3, Zenon DEF ReceiverTypeOK
<1>6. arrived \in Seq(AllFrames)
  BY <1>1 DEF SendorInit
<1>7. QED
  BY <1>4, <1>5, <1>6, EntryInit DEF TypeInv

LEMMA TypeStep == TypeInv /\ [Next]_vars => TypeInv'
<1> SUFFICES ASSUME TypeInv, [Next]_vars
             PROVE  TypeInv'
  OBVIOUS
<1>0. UNCHANGED <<kind, doc>> => AllFrames' = AllFrames
  BY DocumentFixed DEF AllFrames
<1>1. CASE SendorStep
  <2>1. SendorNext /\ UNCHANGED <<kind, doc, consumer, delivered, acking, handled, redelivered>>
        /\ declared' \in BOOLEAN
    BY <1>1, SendorFixed DEF SendorStep, TypeInv, ReceiverTypeOK
  <2>2. EntryInv' /\ SendorTypeOK'
    BY <2>1, EntrySendor, SendorTyped DEF TypeInv
  <2>3. arrived' \in Seq(AllFrames')
    <3>1. CASE UNCHANGED arrived
      BY <1>0, <2>1, <3>1 DEF TypeInv
    <3>2. ASSUME NEW e \in DOMAIN doc, NEW x \in Frames(e), arrived' = Append(arrived, x)
          PROVE  arrived' \in Seq(AllFrames')
      <4>1. x \in AllFrames
        BY DEF AllFrames
      <4>2. QED
        BY <1>0, <2>1, <3>2, <4>1, AppendProperties DEF TypeInv
    <3>3. QED
      BY <2>1, <3>1, <3>2, SendorArrives DEF TypeInv
  <2>4. queue' \in Seq(Messages)
    <3>1. CASE UNCHANGED queue
      BY <3>1 DEF TypeInv, ReceiverTypeOK
    <3>2. ASSUME NEW e \in DOMAIN doc, NEW x \in Frames(e), queue' = Append(queue, x.msg)
          PROVE  queue' \in Seq(Messages)
      <4>1. x.msg \in Messages
        BY DEF Frames
      <4>2. QED
        BY <3>2, <4>1, AppendProperties DEF TypeInv, ReceiverTypeOK
    <3>3. QED
      BY <1>1, <3>1, <3>2, QueueGets DEF TypeInv
  <2>5. QED
    BY <2>1, <2>2, <2>3, <2>4 DEF TypeInv, ReceiverTypeOK
<1>2. CASE ReceiverStep
  <2>1. UNCHANGED <<kind, doc, sendorVars>> /\ ReceiverTypeOK'
    BY <1>2, KindFixed, ReceiverTyped DEF Next, ReceiverStep, TypeInv
  <2>2. EntryInv' /\ SendorTypeOK'
    BY <2>1, EntryUntouched DEF TypeInv, sendorVars, ioVars, callVars, SendorTypeOK
  <2>3. QED
    BY <1>0, <2>1, <2>2 DEF TypeInv, sendorVars
<1>3. CASE BrokerRestarts
  <2>1. /\ UNCHANGED <<kind, doc, callVars, task, top, channel, pending, outputBuffer, writer>>
        /\ UNCHANGED <<arrived, raced, undefined, handled, redelivered>>
        /\ consumer' = "off" /\ delivered' = <<>> /\ acking' = <<>>
        /\ declared' \in {declared, FALSE}
        /\ queue' \in {<<>>, acking \o delivered \o queue}
    BY <1>3 DEF BrokerRestarts, cfgVars
  <2>2. /\ link' \in [DOMAIN doc -> {"off", "connecting", "login", "ready", "closed",
                                     "quitting", "broken", "cut"}]
        /\ \A f \in DOMAIN doc : link'[f] = "off" => link[f] = "off"
    <3>1. /\ link' = [f \in DOMAIN doc |-> link'[f]]
          /\ \A f \in DOMAIN doc : \/ link'[f] \in {"broken", "cut"}
                                   \/ link[f] = "off" /\ link'[f] = "off"
      BY <1>3, Zenon DEF BrokerRestarts
    <3>2. QED
      BY <3>1
  <2>3. SendorTypeOK'
    BY <2>1, <2>2 DEF TypeInv, SendorTypeOK, callVars
  <2>4. ReceiverTypeOK'
    <3>1. acking \in Seq(Messages) /\ delivered \in Seq(Messages) /\ queue \in Seq(Messages)
      BY DEF TypeInv, ReceiverTypeOK
    <3>2. acking \o delivered \o queue \in Seq(Messages)
      BY <3>1, PutBack
    <3>3. queue' \in Seq(Messages)
      <4>1. <<>> \in Seq(Messages)
        OBVIOUS
      <4>2. QED
        BY <2>1, <3>2, <4>1, Zenon
    <3>4. declared' \in BOOLEAN
      <4>1. declared' = declared \/ declared' = FALSE
        BY <2>1
      <4>2. QED
        BY <4>1, Zenon DEF TypeInv, ReceiverTypeOK
    <3>5. consumer' \in {"off", "on", "dead"} /\ redelivered' \subseteq Messages
      BY <2>1, Zenon DEF TypeInv, ReceiverTypeOK
    <3>6. handled' \in Seq(Messages) /\ delivered' \in Seq(Messages) /\ acking' \in Seq(Messages)
      BY <2>1 DEF TypeInv, ReceiverTypeOK
    <3>7. QED
      BY <3>3, <3>4, <3>5, <3>6, Zenon DEF ReceiverTypeOK
  <2>5. QED
    BY <1>0, <1>3, <2>1, <2>3, <2>4, EntryRestarts DEF TypeInv
<1>4. CASE UNCHANGED vars
  <2>1. UNCHANGED <<kind, doc, sendorVars, receiverVars>>
    BY <1>4 DEF vars, cfgVars
  <2>2. EntryInv' /\ SendorTypeOK'
    BY <2>1, EntryUntouched DEF TypeInv, sendorVars, ioVars, callVars, SendorTypeOK
  <2>3. ReceiverTypeOK' /\ arrived' = arrived
    BY <2>1 DEF TypeInv, receiverVars, sendorVars, ReceiverTypeOK
  <2>4. QED
    BY <1>0, <2>1, <2>2, <2>3 DEF TypeInv
<1>5. QED
  BY <1>1, <1>2, <1>3, <1>4 DEF Next

\* For any documents, messages and keys: the sender and the receiver keep to their
\* types, and nothing of a round outlives it.
THEOREM RabbitTypeOK == SafeSpec => []TypeOK
<1>1. TypeInv => TypeOK
  BY DEF TypeInv, TypeOK, ReceiverTypeOK
<1>2. QED
  BY <1>1, TypeInit, TypeStep, PTL DEF SafeSpec

-----------------------------------------------------------------------------
(* The calls in their order, and the task as the last of them *)

\* all is the history of the messages put into the task, q the task.
LastOf(all, q) ==
    /\ Len(q) <= Len(all)
    /\ \A j \in 1..Len(q) : q[j].msg = all[(Len(all) - Len(q)) + j]
TakenOf(all, q) == {all[i] : i \in 1..(Len(all) - Len(q))}
BeforeIn(all, a, b) == \E m, n \in 1..Len(all) : m < n /\ all[m] = a /\ all[n] = b
Once(all) == \A i, j \in 1..Len(all) : i < j => all[i] # all[j]

LEMMA OnceIrreflexive ==
    ASSUME NEW S, NEW all \in Seq(S), Once(all), NEW a
    PROVE  ~BeforeIn(all, a, a)
BY DEF Once, BeforeIn

LEMMA TaskPush ==
    ASSUME NEW S, NEW all \in Seq(S), NEW x \in S, NEW T, NEW q \in Seq(T), NEW c \in T,
           c.msg = x, LastOf(all, q), Once(all), x \notin ToSet(all)
    PROVE  /\ LastOf(Append(all, x), Append(q, c)) /\ Once(Append(all, x))
           /\ TakenOf(Append(all, x), Append(q, c)) = TakenOf(all, q)
           /\ \A a, b : BeforeIn(all, a, b) => BeforeIn(Append(all, x), a, b)
<1> DEFINE all2 == Append(all, x)
           q2 == Append(q, c)
<1>1. /\ all2 \in Seq(S) /\ Len(all2) = Len(all) + 1
      /\ \A i \in 1..Len(all) : all2[i] = all[i]
      /\ all2[Len(all) + 1] = x
  BY AppendProperties
<1>2. /\ Len(q2) = Len(q) + 1
      /\ \A i \in 1..Len(q) : q2[i] = q[i]
      /\ q2[Len(q) + 1] = c
  BY AppendProperties
<1>3. Len(all) \in Nat /\ Len(q) \in Nat /\ Len(q) <= Len(all)
  BY LenProperties DEF LastOf
<1> HIDE DEF all2, q2
<1>4. LastOf(all2, q2)
  <2>1. ASSUME NEW j \in 1..Len(q2) PROVE q2[j].msg = all2[(Len(all2) - Len(q2)) + j]
    <3>1. CASE j \in 1..Len(q)
      <4>1. /\ (Len(all2) - Len(q2)) + j = (Len(all) - Len(q)) + j
            /\ (Len(all) - Len(q)) + j \in 1..Len(all)
        BY <1>1, <1>2, <1>3, <3>1
      <4>2. q2[j].msg = all[(Len(all) - Len(q)) + j]
        BY <1>2, <3>1 DEF LastOf
      <4>3. QED
        BY <1>1, <4>1, <4>2
    <3>2. CASE j = Len(q) + 1
      <4>1. (Len(all2) - Len(q2)) + j = Len(all) + 1
        BY <1>1, <1>2, <1>3, <3>2
      <4>2. QED
        BY <1>1, <1>2, <3>2, <4>1
    <3>3. QED
      BY <1>2, <1>3, <3>1, <3>2
  <2>2. Len(q2) <= Len(all2)
    BY <1>1, <1>2, <1>3
  <2>3. QED
    BY <2>1, <2>2 DEF LastOf
<1>5. Once(all2)
  <2>1. \A i \in 1..Len(all) : all[i] # x
    BY ToSetOfSeq
  <2>2. ASSUME NEW i \in 1..Len(all2), NEW j \in 1..Len(all2), i < j
        PROVE  all2[i] # all2[j]
    <3>1. i \in 1..Len(all)
      BY <1>1, <1>3, <2>2
    <3>2. CASE j \in 1..Len(all)
      BY <1>1, <2>2, <3>1, <3>2 DEF Once
    <3>3. CASE j = Len(all) + 1
      BY <1>1, <2>1, <3>1, <3>3
    <3>4. QED
      BY <1>1, <1>3, <3>2, <3>3
  <2>3. QED
    BY <2>2 DEF Once
<1>6. TakenOf(all2, q2) = TakenOf(all, q)
  <2>1. Len(all2) - Len(q2) = Len(all) - Len(q)
    BY <1>1, <1>2, <1>3
  <2>2. \A i \in 1..(Len(all) - Len(q)) : i \in 1..Len(all)
    BY <1>3
  <2>3. \A i \in 1..(Len(all) - Len(q)) : all2[i] = all[i]
    BY <1>1, <2>2
  <2>4. QED
    BY <2>1, <2>3 DEF TakenOf
<1>7. \A a, b : BeforeIn(all, a, b) => BeforeIn(all2, a, b)
  <2>1. \A i \in 1..Len(all) : i \in 1..Len(all2)
    BY <1>1, <1>3
  <2>2. QED
    BY <1>1, <2>1 DEF BeforeIn
<1>8. QED
  BY <1>4, <1>5, <1>6, <1>7 DEF all2, q2

LEMMA TaskPop ==
    ASSUME NEW S, NEW all \in Seq(S), NEW T, NEW q \in Seq(T), q # <<>>, LastOf(all, q)
    PROVE  /\ LastOf(all, Tail(q))
           /\ TakenOf(all, Tail(q)) = TakenOf(all, q) \cup {Head(q).msg}
           /\ \A t \in TakenOf(all, q) : BeforeIn(all, t, Head(q).msg)
<1> DEFINE q2 == Tail(q)
           k == Len(all) - Len(q)
<1>1. /\ Len(q2) = Len(q) - 1
      /\ \A i \in 1..Len(q2) : q2[i] = q[i + 1]
  BY HeadTailProperties
<1>2. Len(all) \in Nat /\ Len(q) \in Nat \ {0} /\ Len(q) <= Len(all) /\ Head(q) = q[1]
  BY LenProperties, EmptySeq DEF LastOf
<1> HIDE DEF q2
<1>3. /\ k \in Nat /\ k + 1 \in 1..Len(all) /\ Len(all) - Len(q2) = k + 1
      /\ 1 \in 1..Len(q)
  BY <1>1, <1>2
<1>4. Head(q).msg = all[k + 1]
  BY <1>2, <1>3 DEF LastOf
<1>5. LastOf(all, q2)
  <2>1. ASSUME NEW j \in 1..Len(q2) PROVE q2[j].msg = all[(Len(all) - Len(q2)) + j]
    <3>1. /\ j + 1 \in 1..Len(q)
          /\ (Len(all) - Len(q2)) + j = (Len(all) - Len(q)) + (j + 1)
      BY <1>1, <1>2
    <3>2. QED
      BY <1>1, <3>1 DEF LastOf
  <2>2. Len(q2) <= Len(all)
    BY <1>1, <1>2
  <2>3. QED
    BY <2>1, <2>2 DEF LastOf
<1>6. TakenOf(all, q2) = TakenOf(all, q) \cup {all[k + 1]}
  <2> HIDE DEF k
  <2>1. 1..(k + 1) = (1..k) \cup {k + 1}
    BY <1>3
  <2>2. TakenOf(all, q2) = {all[i] : i \in 1..(k + 1)}
    BY <1>3 DEF TakenOf
  <2>3. TakenOf(all, q) = {all[i] : i \in 1..k}
    BY DEF TakenOf, k
  <2>4. QED
    BY <2>1, <2>2, <2>3
<1>7. ASSUME NEW t \in TakenOf(all, q) PROVE BeforeIn(all, t, all[k + 1])
  <2>1. PICK i \in 1..k : t = all[i]
    BY DEF TakenOf
  <2>2. i \in 1..Len(all) /\ i < k + 1
    BY <1>3
  <2>3. QED
    BY <1>3, <2>1, <2>2 DEF BeforeIn
<1>8. QED
  BY <1>4, <1>5, <1>6, <1>7 DEF q2

-----------------------------------------------------------------------------
(* What is on its way to the broker keeps the order of the calls *)

\* The first message of a pair was put into the task first, if both are for one item.
Precede == {p \in Messages \X Messages :
              ItemOf(p[1]) = ItemOf(p[2]) => BeforeIn(accepted, p[1], p[2])}
PrecedeFrames == {p \in AllFrames \X AllFrames : <<p[1].msg, p[2].msg>> \in Precede}

\* The frames of an entry that may still arrive: those of a round that is over, or was
\* broken, are gone.
Waiting(e) == IF link[e] = "ready" THEN outputBuffer[e]
              ELSE IF link[e] \in {"connecting", "login"} THEN pending[e] ELSE <<>>

\* Everything that arrived or waits was taken from the task, and what arrived comes
\* before what waits. That needs that a round begins with nothing that waits, and
\* that the frames of a round go through one queue, from pending to outputBuffer.
OrderInv ==
    /\ Once(accepted) /\ LastOf(accepted, task)
    /\ Sorted(arrived, PrecedeFrames)
    /\ \A x \in ToSet(arrived) : x.msg \in TakenOf(accepted, task)
    /\ \A e \in DOMAIN doc :
         /\ Sorted(Waiting(e), PrecedeFrames)
         /\ \A x \in ToSet(Waiting(e)) :
              /\ x.msg \in TakenOf(accepted, task)
              /\ \A y \in ToSet(arrived) : <<y, x>> \in PrecedeFrames

LEMMA WaitingTyped ==
    ASSUME TypeInv, NEW e \in DOMAIN doc
    PROVE  Waiting(e) \in Seq(Frames(e)) /\ Frames(e) \subseteq AllFrames
<1>1. Frames(e) \subseteq AllFrames
  BY DEF AllFrames
<1>2. /\ pending[e] \in Seq(Frames(e))
      /\ link[e] = "ready" => outputBuffer[e] \in Seq(Frames(e))
  BY DEF TypeInv, EntryInv
<1>3. <<>> \in Seq(Frames(e))
  OBVIOUS
<1>4. CASE link[e] = "ready"
  BY <1>1, <1>2, <1>4 DEF Waiting
<1>5. CASE link[e] # "ready"
  BY <1>1, <1>2, <1>3, <1>5, Zenon DEF Waiting
<1>6. QED
  BY <1>4, <1>5

\* Two messages of one item are a pair if one is before the other; all pairs of
\* messages of different items are.
LEMMA FramesPair ==
    ASSUME NEW x \in AllFrames, NEW y \in AllFrames, BeforeIn(accepted, x.msg, y.msg)
    PROVE  <<x, y>> \in PrecedeFrames
<1>1. x.msg \in Messages /\ y.msg \in Messages
  BY DEF AllFrames, Frames
<1>2. QED
  BY <1>1 DEF Precede, PrecedeFrames

LEMMA OthersPair ==
    ASSUME kind \in Kinds, doc \in Documents, NEW e \in DOMAIN doc, NEW f \in DOMAIN doc, e # f,
           NEW x \in Frames(e), NEW y \in Frames(f)
    PROVE  <<x, y>> \in PrecedeFrames
<1>1. ASSUME NEW g \in DOMAIN doc, NEW z \in Frames(g)
      PROVE  z.msg \in Messages /\ ItemOf(z.msg) = g
  <2>1. PICK m \in Messages : /\ Accepted(m) /\ GetByKey(kind, doc, KeyOf(m)) = g
                              /\ z = [msg |-> m, to |-> AddressOf(m)]
    BY DEF Frames
  <2>2. g # NoEntry
    BY DocumentIs DEF NoEntry
  <2>3. QED
    BY <2>1, <2>2, EntryIsItem
<1>2. x \in AllFrames /\ y \in AllFrames
  BY DEF AllFrames
<1>3. /\ x.msg \in Messages /\ ItemOf(x.msg) = e
      /\ y.msg \in Messages /\ ItemOf(y.msg) = f
  BY <1>1
<1>4. <<x.msg, y.msg>> \in Precede
  BY <1>3 DEF Precede
<1>5. QED
  BY <1>2, <1>4 DEF PrecedeFrames

\* The pairs only grow.
LEMMA PairsGrow ==
    ASSUME UNCHANGED <<kind, doc>>,
           \A a, b : BeforeIn(accepted, a, b) => BeforeIn(accepted', a, b)
    PROVE  Precede \subseteq Precede' /\ PrecedeFrames \subseteq PrecedeFrames'
<1>1. AllFrames' = AllFrames /\ \A m : ItemOf(m)' = ItemOf(m)
  BY DocumentFixed DEF AllFrames
<1>2. Precede \subseteq Precede'
  BY <1>1 DEF Precede
<1>3. QED
  BY <1>1, <1>2 DEF PrecedeFrames

LEMMA PairsFixed ==
    ASSUME UNCHANGED <<kind, doc, accepted>>
    PROVE  Precede' = Precede /\ PrecedeFrames' = PrecedeFrames
<1>1. AllFrames' = AllFrames /\ \A m : ItemOf(m)' = ItemOf(m)
  BY DocumentFixed DEF AllFrames
<1>2. Precede' = Precede
  BY <1>1 DEF Precede
<1>3. QED
  BY <1>1, <1>2 DEF PrecedeFrames

LEMMA OrderInit == Init => OrderInv
<1> SUFFICES ASSUME Init
             PROVE  OrderInv
  OBVIOUS
<1>1. /\ accepted = <<>> /\ task = <<>> /\ arrived = <<>>
      /\ \A e \in DOMAIN doc : link[e] = "off"
  BY DEF Init, SendorInit
<1>2. \A e \in DOMAIN doc : Waiting(e) = <<>>
  BY <1>1 DEF Waiting
<1>3. Once(<<>>) /\ LastOf(<<>>, <<>>) /\ Sorted(<<>>, PrecedeFrames) /\ ToSet(<<>>) = {}
  BY DEF Once, LastOf, Sorted, ToSet
<1>4. QED
  BY <1>1, <1>2, <1>3 DEF OrderInv

\* A step that takes no message from the task: what waits stays, or is gone.
LEMMA OrderKeeps ==
    ASSUME OrderInv, UNCHANGED <<kind, doc, accepted, task, arrived>>,
           \A e \in DOMAIN doc : Waiting(e)' \in {Waiting(e), <<>>}
    PROVE  OrderInv'
<1>1. PrecedeFrames' = PrecedeFrames
  BY PairsFixed
<1>2. Sorted(<<>>, PrecedeFrames) /\ ToSet(<<>>) = {}
  BY DEF Sorted, ToSet
<1>3. ASSUME NEW e \in DOMAIN doc
      PROVE  /\ Sorted(Waiting(e)', PrecedeFrames)
             /\ \A x \in ToSet(Waiting(e)') :
                  /\ x.msg \in TakenOf(accepted, task)
                  /\ \A y \in ToSet(arrived) : <<y, x>> \in PrecedeFrames
  BY <1>2 DEF OrderInv
<1>4. QED
  BY <1>1, <1>3 DEF OrderInv

\* transfer_data: a message for the end of the order.
LEMMA OrderTransfer ==
    ASSUME TypeInv, OrderInv, NEW msg \in Messages, Transfer(msg)
    PROVE  OrderInv'
<1> DEFINE call == [msg |-> msg, key |-> KeyOf(msg)]
<1>1. /\ accepted' = Append(accepted, msg) /\ task' = Append(task, call)
      /\ msg \notin ToSet(accepted) /\ call \in Calls
      /\ UNCHANGED <<kind, doc, arrived, link, outputBuffer, pending>>
  BY TransferDoes DEF Put, Calls, Contains, ToSet, cfgVars, ioVars
<1>2. accepted \in Seq(Messages) /\ task \in Seq(Calls) /\ call.msg = msg
  BY DEF TypeInv, SendorTypeOK, EntryInv
<1> HIDE DEF call
<1>3. /\ LastOf(accepted', task') /\ Once(accepted')
      /\ TakenOf(accepted', task') = TakenOf(accepted, task)
      /\ \A a, b : BeforeIn(accepted, a, b) => BeforeIn(accepted', a, b)
  BY <1>1, <1>2, TaskPush DEF OrderInv
<1>4. PrecedeFrames \subseteq PrecedeFrames'
  BY <1>1, <1>3, PairsGrow
<1>5. \A e \in DOMAIN doc : Waiting(e)' = Waiting(e)
  BY <1>1 DEF Waiting
<1>6. Sorted(arrived', PrecedeFrames')
  BY <1>1, <1>4 DEF OrderInv, Sorted
<1>7. \A x \in ToSet(arrived') : x.msg \in TakenOf(accepted', task')
  BY <1>1, <1>3 DEF OrderInv
<1>8. ASSUME NEW e \in DOMAIN doc
      PROVE  /\ Sorted(Waiting(e)', PrecedeFrames')
             /\ \A x \in ToSet(Waiting(e)') :
                  /\ x.msg \in TakenOf(accepted', task')
                  /\ \A y \in ToSet(arrived') : <<y, x>> \in PrecedeFrames'
  <2>1. Sorted(Waiting(e), PrecedeFrames')
    BY <1>4 DEF OrderInv, Sorted
  <2>2. QED
    BY <1>1, <1>3, <1>4, <1>5, <2>1 DEF OrderInv
<1>9. QED
  BY <1>1, <1>3, <1>6, <1>7, <1>8 DEF OrderInv

\* rb_top: the first call of the task waits behind all that were taken before it.
LEMMA OrderTop ==
    ASSUME TypeInv, OrderInv, Top
    PROVE  OrderInv'
<1>1. PICK m \in Messages :
        LET f == GetByKey(kind, doc, KeyOf(m))
            x == [msg |-> m, to |-> AddressOf(m)]
        IN  /\ task # <<>> /\ Head(task) = [msg |-> m, key |-> KeyOf(m)]
            /\ task' = Tail(task)
            /\ UNCHANGED <<kind, doc, callVars, link, arrived>>
            /\ \/ UNCHANGED <<pending, outputBuffer>>
               \/ f \in DOMAIN doc /\ x \in Frames(f) /\ Publish(f, x)
  BY TopDoes DEF TypeInv
<1> DEFINE e == GetByKey(kind, doc, KeyOf(m))
           frame == [msg |-> m, to |-> AddressOf(m)]
<1>2. frame.msg = m /\ Head(task).msg = m /\ task # <<>> /\ task' = Tail(task)
  BY <1>1
<1>3. UNCHANGED <<kind, doc, accepted, link, arrived>>
  BY <1>1 DEF callVars
<1> HIDE DEF e, frame
<1>4. /\ LastOf(accepted, task') /\ m \in TakenOf(accepted, task')
      /\ TakenOf(accepted, task) \subseteq TakenOf(accepted, task')
      /\ \A t \in TakenOf(accepted, task) : BeforeIn(accepted, t, m)
  <2>1. accepted \in Seq(Messages) /\ task \in Seq(Calls)
    BY DEF TypeInv, SendorTypeOK, EntryInv
  <2>2. QED
    BY <1>2, <2>1, TaskPop DEF OrderInv
<1>5. PrecedeFrames' = PrecedeFrames
  BY <1>3, PairsFixed
<1>6. \/ UNCHANGED <<pending, outputBuffer>>
      \/ /\ e \in DOMAIN doc /\ frame \in Frames(e)
         /\ \/ /\ link[e] \in {"connecting", "login"}
               /\ pending' = [pending EXCEPT ![e] = Append(@, frame)]
               /\ UNCHANGED outputBuffer
            \/ /\ link[e] \in {"ready", "broken"}
               /\ outputBuffer' = [outputBuffer EXCEPT ![e] = Append(@, frame)]
               /\ UNCHANGED pending
  <2>1. CASE UNCHANGED <<pending, outputBuffer>>
    BY <2>1
  <2>2. CASE e \in DOMAIN doc /\ frame \in Frames(e) /\ Publish(e, frame)
    BY <2>2, PublishDoes
  <2>3. QED
    BY <1>1, <2>1, <2>2 DEF e, frame
<1>7. ASSUME NEW f \in DOMAIN doc
      PROVE  \/ Waiting(f)' = Waiting(f)
             \/ /\ f = e /\ frame \in Frames(f)
                /\ Waiting(f)' = Append(Waiting(f), frame)
  <2>1. /\ pending = [g \in DOMAIN doc |-> pending[g]]
        /\ outputBuffer = [g \in DOMAIN doc |-> outputBuffer[g]]
    BY DEF TypeInv, EntryInv
  <2>2. CASE UNCHANGED <<pending, outputBuffer>>
    BY <1>3, <2>2 DEF Waiting
  <2>3. CASE /\ frame \in Frames(e) /\ link[e] \in {"connecting", "login"}
             /\ pending' = [pending EXCEPT ![e] = Append(@, frame)]
             /\ UNCHANGED outputBuffer
    BY <1>3, <2>1, <2>3 DEF Waiting
  <2>4. CASE /\ frame \in Frames(e) /\ link[e] \in {"ready", "broken"}
             /\ outputBuffer' = [outputBuffer EXCEPT ![e] = Append(@, frame)]
             /\ UNCHANGED pending
    BY <1>3, <2>1, <2>4 DEF Waiting
  <2>5. QED
    BY <1>6, <2>2, <2>3, <2>4
<1>8. ASSUME NEW f \in DOMAIN doc
      PROVE  /\ Sorted(Waiting(f)', PrecedeFrames)
             /\ \A x \in ToSet(Waiting(f)') :
                  /\ x.msg \in TakenOf(accepted, task')
                  /\ \A y \in ToSet(arrived) : <<y, x>> \in PrecedeFrames
  <2>0. /\ Sorted(Waiting(f), PrecedeFrames)
        /\ \A x \in ToSet(Waiting(f)) :
             /\ x.msg \in TakenOf(accepted, task)
             /\ \A y \in ToSet(arrived) : <<y, x>> \in PrecedeFrames
    BY DEF OrderInv
  <2>1. CASE Waiting(f)' = Waiting(f)
    BY <1>4, <2>0, <2>1
  <2>2. CASE frame \in Frames(f) /\ Waiting(f)' = Append(Waiting(f), frame)
    <3>1. /\ Waiting(f) \in Seq(AllFrames) /\ frame \in AllFrames
          /\ ToSet(Waiting(f)) \subseteq AllFrames /\ ToSet(arrived) \subseteq AllFrames
      <4>1. Waiting(f) \in Seq(AllFrames) /\ frame \in AllFrames
        BY <2>2, WaitingTyped, SeqMonotonic
      <4>2. QED
        BY <4>1, ToSetOfSeq DEF TypeInv
    <3>2. \A y \in ToSet(Waiting(f)) \cup ToSet(arrived) : <<y, frame>> \in PrecedeFrames
      BY <1>2, <1>4, <3>1, FramesPair DEF OrderInv
    <3>3. ToSet(Waiting(f)') = ToSet(Waiting(f)) \cup {frame}
      BY <2>2, <3>1, ToSetAppend
    <3>4. Sorted(Waiting(f)', PrecedeFrames)
      BY <2>0, <2>2, <3>1, <3>2, SortedAppend
    <3>5. QED
      BY <1>2, <1>4, <2>0, <3>2, <3>3, <3>4
  <2>3. QED
    BY <1>7, <2>1, <2>2
<1>9. \A x \in ToSet(arrived) : x.msg \in TakenOf(accepted, task')
  BY <1>4 DEF OrderInv
<1>10. QED
  BY <1>3, <1>4, <1>5, <1>8, <1>9 DEF OrderInv

\* doWrite: the first frame that waits arrives.
LEMMA OrderArrives ==
    ASSUME TypeInv, OrderInv, NEW e \in DOMAIN doc, Written(e), link[e] = "ready",
           outputBuffer[e] # <<>>
    PROVE  OrderInv'
<1> DEFINE x == Head(outputBuffer[e])
<1>1. /\ UNCHANGED <<kind, doc, accepted, task, link, pending>>
      /\ outputBuffer' = [outputBuffer EXCEPT ![e] = Tail(@)]
      /\ arrived' = Append(arrived, x)
  BY DEF Written, cfgVars, callVars
<1>2. /\ Waiting(e) = outputBuffer[e] /\ Waiting(e)' = Tail(Waiting(e))
      /\ \A f \in DOMAIN doc : f # e => Waiting(f)' = Waiting(f)
  BY <1>1 DEF Waiting, TypeInv, EntryInv
<1>3. Waiting(e) \in Seq(Frames(e)) /\ Waiting(e) # <<>> /\ x = Head(Waiting(e))
  BY <1>2, WaitingTyped
<1> HIDE DEF x
<1>4. /\ x \in Frames(e) /\ Tail(Waiting(e)) \in Seq(Frames(e))
      /\ ToSet(Waiting(e)) = {x} \cup ToSet(Tail(Waiting(e)))
  BY <1>3, ToSetTail
<1>5. /\ Sorted(Tail(Waiting(e)), PrecedeFrames)
      /\ \A y \in ToSet(Tail(Waiting(e))) : <<x, y>> \in PrecedeFrames
  BY <1>3, SortedTail DEF OrderInv
<1>6. PrecedeFrames' = PrecedeFrames
  BY <1>1, PairsFixed
<1>7. x \in AllFrames /\ arrived \in Seq(AllFrames)
  BY <1>4 DEF AllFrames, TypeInv
<1>8. ToSet(arrived') = ToSet(arrived) \cup {x}
  BY <1>1, <1>7, ToSetAppend
<1>9. Sorted(arrived', PrecedeFrames)
  <2>1. Sorted(arrived, PrecedeFrames) /\ \A y \in ToSet(arrived) : <<y, x>> \in PrecedeFrames
    BY <1>4 DEF OrderInv
  <2>2. QED
    BY <1>1, <1>7, <2>1, SortedAppend
<1>10. \A y \in ToSet(arrived') : y.msg \in TakenOf(accepted, task)
  BY <1>4, <1>8 DEF OrderInv
<1>11. ASSUME NEW f \in DOMAIN doc
       PROVE  /\ Sorted(Waiting(f)', PrecedeFrames)
              /\ \A z \in ToSet(Waiting(f)') :
                   /\ z.msg \in TakenOf(accepted, task)
                   /\ \A y \in ToSet(arrived') : <<y, z>> \in PrecedeFrames
  <2>1. CASE f = e
    BY <1>2, <1>4, <1>5, <1>8, <2>1 DEF OrderInv
  <2>2. CASE f # e
    <3>1. ToSet(Waiting(f)) \subseteq Frames(f)
      BY WaitingTyped, ToSetOfSeq
    <3>2. \A z \in ToSet(Waiting(f)) : <<x, z>> \in PrecedeFrames
      BY <1>4, <2>2, <3>1, OthersPair DEF TypeInv, EntryInv
    <3>3. QED
      BY <1>2, <1>8, <2>2, <3>2 DEF OrderInv
  <2>3. QED
    BY <2>1, <2>2
<1>12. QED
  BY <1>1, <1>6, <1>9, <1>10, <1>11 DEF OrderInv

\* The other steps of the thread of an entry.
LEMMA OrderOfEntry ==
    ASSUME TypeInv, OrderInv, NEW e \in DOMAIN doc,
           Check(e) \/ MakeSendorThr(e) \/ Broken(e),
           ~(Written(e) /\ link[e] = "ready")
    PROVE  OrderInv'
<1>0. /\ pending = [f \in DOMAIN doc |-> pending[f]]
      /\ outputBuffer = [f \in DOMAIN doc |-> outputBuffer[f]]
      /\ link = [f \in DOMAIN doc |-> link[f]]
      /\ \A f \in DOMAIN doc : link[f] = "off" => pending[f] = <<>>
  BY DEF TypeInv, EntryInv, SendorTypeOK
<1>1. CASE Check(e)
  BY <1>1, OrderKeeps DEF Check, Waiting, cfgVars, callVars
<1>2. CASE Round(e)
  BY <1>0, <1>2, OrderKeeps DEF Round, Waiting, cfgVars, callVars
<1>3. CASE ConnectOk(e)
  BY <1>0, <1>3, OrderKeeps DEF ConnectOk, Waiting, cfgVars, callVars
<1>4. CASE Ready(e)
  BY <1>0, <1>4, OrderKeeps DEF Ready, Waiting, cfgVars, callVars
<1>5. CASE Written(e)
  <2>1. link[e] # "ready"
    BY <1>5
  <2>2. QED
    BY <1>0, <1>5, <2>1, OrderKeeps DEF Written, Waiting, cfgVars, callVars
<1>6. CASE WriteEnds(e)
  BY <1>0, <1>6, OrderKeeps DEF WriteEnds, Waiting, cfgVars, callVars
<1>7. CASE EndRound(e)
  BY <1>0, <1>7, OrderKeeps DEF EndRound, Waiting, cfgVars, callVars
<1>8. CASE ConnectFails(e)
  BY <1>0, <1>8, OrderKeeps DEF ConnectFails, Waiting, cfgVars, callVars
<1>9. CASE ChannelError(e)
  BY <1>0, <1>9, OrderKeeps DEF ChannelError, Waiting, cfgVars, callVars
<1>10. CASE OnClosed(e)
  BY <1>0, <1>10, OrderKeeps DEF OnClosed, Waiting, cfgVars, callVars
<1>11. CASE Break(e)
  BY <1>0, <1>11, OrderKeeps DEF Break, Waiting, cfgVars, callVars
<1>12. CASE ErrorReading(e)
  BY <1>0, <1>12, OrderKeeps DEF ErrorReading, Waiting, cfgVars, callVars
<1>13. QED
  BY <1>1, <1>2, <1>3, <1>4, <1>5, <1>6, <1>7, <1>8, <1>9, <1>10, <1>11, <1>12
     DEF MakeSendorThr, SimpleRound, WorkRound, PublishRound, RoutingRound, TopicRound, Broken

LEMMA OrderSendor ==
    ASSUME TypeInv, OrderInv, SendorNext
    PROVE  OrderInv'
<1>1. CASE MakeSendor
  BY <1>1, OrderKeeps DEF MakeSendor, Waiting, cfgVars, ioVars
<1>2. ASSUME NEW e \in DOMAIN doc, Written(e), link[e] = "ready"
      PROVE  OrderInv'
  <2>1. outputBuffer[e] # <<>>
    BY <1>2 DEF SendorNext, Written, TypeInv, EntryInv
  <2>2. QED
    BY <1>2, <2>1, OrderArrives
<1>3. QED
  BY <1>1, <1>2, OrderTransfer, OrderTop, OrderOfEntry DEF SendorNext

LEMMA OrderStep ==
    ASSUME TypeInv, OrderInv, [Next]_vars
    PROVE  OrderInv'
<1>1. CASE SendorStep
  BY <1>1, OrderSendor DEF SendorStep
<1>2. CASE ReceiverStep
  <2>1. UNCHANGED <<kind, doc, sendorVars>>
    BY <1>2, KindFixed DEF Next, ReceiverStep
  <2>2. QED
    BY <2>1, OrderKeeps DEF Waiting, sendorVars, callVars, ioVars
<1>3. CASE BrokerRestarts
  <2>1. UNCHANGED <<kind, doc, accepted, task, arrived>>
    BY <1>3 DEF BrokerRestarts, cfgVars, callVars
  <2>2. \A f \in DOMAIN doc : link'[f] \notin {"ready", "connecting", "login"}
    <3>1. \A f \in DOMAIN doc : \/ link'[f] \in {"broken", "cut"}
                                \/ link[f] = "off" /\ link'[f] = "off"
      BY <1>3, Zenon DEF BrokerRestarts
    <3>2. QED
      BY <3>1
  <2>3. QED
    BY <2>1, <2>2, OrderKeeps DEF Waiting
<1>4. CASE UNCHANGED vars
  BY <1>4, OrderKeeps DEF Waiting, vars, cfgVars, sendorVars, callVars, ioVars
<1>5. QED
  BY <1>1, <1>2, <1>3, <1>4 DEF Next

-----------------------------------------------------------------------------
(* What the receiver gets keeps that order too *)

\* What is left of the messages of m when h was handled before: the first of them
\* may be there again, because its acknowledgement was lost.
Unseen(h, m) == IF h # <<>> /\ m # <<>> /\ Head(m) = Last(h) THEN Tail(m) ELSE m

LEMMA UnseenTyped ==
    ASSUME NEW S, NEW h \in Seq(S), NEW m \in Seq(S)
    PROVE  Unseen(h, m) \in Seq(S)
<1>1. m # <<>> => Tail(m) \in Seq(S)
  BY HeadTailProperties
<1>2. QED
  BY <1>1, Zenon DEF Unseen

\* A message that was not handled last joins the end.
LEMMA UnseenAppend ==
    ASSUME NEW S, NEW h \in Seq(S), NEW m \in Seq(S), NEW x \in S,
           h # <<>> => Last(h) # x
    PROVE  h \o Unseen(h, Append(m, x)) = Append(h \o Unseen(h, m), x)
<1> DEFINE m2 == Append(m, x)
<1>1. /\ m2 \in Seq(S) /\ Len(m2) = Len(m) + 1
      /\ \A i \in 1..Len(m) : m2[i] = m[i]
      /\ m2[Len(m) + 1] = x
      /\ Len(m) \in Nat
  BY AppendProperties, LenProperties
<1> HIDE DEF m2
<1>2. /\ m2 # <<>> /\ Head(m2) = m2[1]
      /\ m # <<>> => Len(m) \in Nat \ {0} /\ Head(m) = m[1]
  <2>1. m2 # <<>>
    BY <1>1, EmptySeq
  <2>2. m # <<>> => Len(m) \in Nat \ {0}
    BY <1>1, EmptySeq
  <2>3. QED
    BY <1>1, <2>1, <2>2
<1>3. Unseen(h, m2) = Append(Unseen(h, m), x)
  <2>1. CASE m = <<>>
    <3>1. Head(m2) = x /\ m2 = Append(<<>>, x)
      BY <1>1, <1>2, <2>1 DEF m2
    <3>2. Unseen(h, m2) = m2 /\ Unseen(h, m) = <<>>
      BY <2>1, <3>1 DEF Unseen
    <3>3. QED
      BY <3>1, <3>2
  <2>2. CASE m # <<>>
    <3>1. Head(m2) = Head(m)
      BY <1>1, <1>2, <2>2
    <3>2. Tail(m2) = Append(Tail(m), x)
      <4>1. /\ Tail(m) \in Seq(S) /\ Len(Tail(m)) = Len(m) - 1
            /\ \A i \in 1..Len(Tail(m)) : Tail(m)[i] = m[i + 1]
        BY <2>2, HeadTailProperties
      <4>2. /\ Tail(m2) \in Seq(S) /\ Len(Tail(m2)) = Len(m2) - 1
            /\ \A i \in 1..Len(Tail(m2)) : Tail(m2)[i] = m2[i + 1]
        BY <1>1, <1>2, HeadTailProperties
      <4>3. /\ Append(Tail(m), x) \in Seq(S) /\ Len(Append(Tail(m), x)) = Len(m)
            /\ \A i \in 1..Len(Tail(m)) : Append(Tail(m), x)[i] = Tail(m)[i]
            /\ Append(Tail(m), x)[Len(m)] = x
        <5>1. /\ Append(Tail(m), x) \in Seq(S)
              /\ Len(Append(Tail(m), x)) = Len(Tail(m)) + 1
              /\ \A i \in 1..Len(Tail(m)) : Append(Tail(m), x)[i] = Tail(m)[i]
              /\ Append(Tail(m), x)[Len(Tail(m)) + 1] = x
          BY <4>1, AppendProperties
        <5>2. Len(Tail(m)) + 1 = Len(m)
          BY <1>1, <4>1
        <5>3. QED
          BY <5>1, <5>2
      <4>4. ASSUME NEW i \in 1..Len(m) PROVE Tail(m2)[i] = Append(Tail(m), x)[i]
        <5>1. i \in 1..Len(Tail(m2)) /\ Tail(m2)[i] = m2[i + 1]
          BY <1>1, <4>2
        <5>2. CASE i = Len(m)
          BY <1>1, <4>3, <5>1, <5>2
        <5>3. CASE i # Len(m)
          <6>1. i \in 1..Len(Tail(m)) /\ i + 1 \in 1..Len(m)
            <7>1. Len(Tail(m)) = Len(m) - 1 /\ Len(m) \in Nat
              BY <1>1, <4>1
            <7>2. QED
              BY <5>3, <7>1
          <6>2. QED
            BY <1>1, <4>1, <4>3, <5>1, <6>1
        <5>4. QED
          BY <5>2, <5>3
      <4>5. Len(Tail(m2)) = Len(m)
        BY <1>1, <4>2
      <4>6. QED
        BY <4>2, <4>3, <4>4, <4>5, SeqEqual
    <3>3. CASE h # <<>> /\ Head(m) = Last(h)
      BY <1>2, <2>2, <3>1, <3>2, <3>3 DEF Unseen
    <3>4. CASE ~(h # <<>> /\ Head(m) = Last(h))
      <4>1. Unseen(h, m2) = m2 /\ Unseen(h, m) = m
        BY <3>1, <3>4 DEF Unseen
      <4>2. QED
        BY <4>1 DEF m2
    <3>5. QED
      BY <3>3, <3>4
  <2>3. QED
    BY <2>1, <2>2
<1>4. QED
  BY <1>3, UnseenTyped, PushAppends DEF m2

\* f_ gets the first message of m, maybe again; it is not gone yet.
LEMMA UnseenTaken ==
    ASSUME NEW S, NEW h \in Seq(S), NEW m \in Seq(S), m # <<>>, NEW h2,
           h2 = IF h # <<>> /\ Last(h) = Head(m) THEN h ELSE Append(h, Head(m))
    PROVE  /\ h2 \o Unseen(h2, m) = h \o Unseen(h, m)
           /\ h2 # <<>> /\ Last(h2) = Head(m)
<1>1. CASE h # <<>> /\ Last(h) = Head(m)
  BY <1>1
<1>2. CASE ~(h # <<>> /\ Last(h) = Head(m))
  <2>1. Head(m) \in S /\ Tail(m) \in Seq(S) /\ h2 = Append(h, Head(m))
    BY <1>2, HeadTailProperties
  <2>2. Last(h2) = Head(m) /\ h2 # <<>>
    BY <2>1, LastOfAppend
  <2>3. Unseen(h2, m) = Tail(m) /\ Unseen(h, m) = m
    BY <1>2, <2>2 DEF Unseen
  <2>4. QED
    BY <2>1, <2>2, <2>3, PopMoves
<1>3. QED
  BY <1>1, <1>2

\* The broker forgets the message that was handled last.
LEMMA UnseenAcked ==
    ASSUME NEW S, NEW R, \A a \in S : <<a, a>> \notin R,
           NEW h \in Seq(S), NEW m \in Seq(S), m # <<>>, h # <<>>, Head(m) = Last(h),
           Sorted(h \o Unseen(h, m), R)
    PROVE  Unseen(h, Tail(m)) = Unseen(h, m)
<1>1. Unseen(h, m) = Tail(m) /\ Tail(m) \in Seq(S)
  BY HeadTailProperties DEF Unseen
<1>2. CASE Tail(m) = <<>>
  BY <1>1, <1>2 DEF Unseen
<1>3. CASE Tail(m) # <<>>
  <2>1. Last(h) \in S /\ Last(h) \in ToSet(h)
    BY LastIsElement
  <2>2. Head(Tail(m)) \in ToSet(Tail(m))
    BY <1>1, <1>3, ToSetTail
  <2>3. <<Last(h), Head(Tail(m))>> \in R
    BY <1>1, <2>1, <2>2, SortedConcat
  <2>4. Head(Tail(m)) # Last(h)
    BY <2>1, <2>3
  <2>5. QED
    BY <1>1, <2>4 DEF Unseen
<1>4. QED
  BY <1>2, <1>3

\* What the receiver has yet to get, in the order in which it will.
Mail == acking \o delivered \o queue

\* What it got and has yet to get, each message once.
Line == IF kind = "work" THEN handled \o Unseen(handled, Mail) ELSE handled \o Mail

\* Only of the message handled last may the work receiver owe the acknowledgement,
\* since the broker sends it one at a time; the others owe none and get nothing twice.
Owes ==
    /\ kind # "work" => acking = <<>> /\ redelivered = {}
    /\ kind = "work" =>
         /\ delivered # <<>> => acking = <<>> /\ \E x \in Messages : delivered = <<x>>
         /\ acking # <<>> => handled # <<>> /\ acking = <<Last(handled)>>

\* The line keeps the order of the calls, and all of it has arrived at the broker.
LineInv ==
    /\ Owes
    /\ \A x \in ToSet(Line) : \E y \in ToSet(arrived) : y.msg = x
    /\ Sorted(Line, Precede)

LEMMA LineTyped ==
    ASSUME ReceiverTypeOK
    PROVE  /\ queue \in Seq(Messages) /\ delivered \in Seq(Messages)
           /\ acking \in Seq(Messages) /\ handled \in Seq(Messages)
           /\ Mail \in Seq(Messages) /\ Line \in Seq(Messages)
<1>1. /\ queue \in Seq(Messages) /\ delivered \in Seq(Messages)
      /\ acking \in Seq(Messages) /\ handled \in Seq(Messages)
  BY DEF ReceiverTypeOK
<1>2. Mail \in Seq(Messages)
  BY <1>1, PutBack DEF Mail
<1>3. Unseen(handled, Mail) \in Seq(Messages)
  BY <1>1, <1>2, UnseenTyped
<1>4. handled \o Unseen(handled, Mail) \in Seq(Messages) /\ handled \o Mail \in Seq(Messages)
  BY <1>1, <1>2, <1>3, ConcatProperties
<1>5. QED
  BY <1>1, <1>2, <1>4, Zenon DEF Line

\* No message is before itself.
LEMMA NoSelf ==
    ASSUME TypeInv, OrderInv
    PROVE  \A a \in Messages : <<a, a>> \notin Precede
<1>1. accepted \in Seq(Messages) /\ Once(accepted)
  BY DEF TypeInv, SendorTypeOK, OrderInv
<1>2. \A a : ~BeforeIn(accepted, a, a)
  BY <1>1, OnceIrreflexive
<1>3. QED
  BY <1>2 DEF Precede

\* A step of the sender leaves the pairs as they are or adds some.
LEMMA SendorPairs ==
    ASSUME TypeInv, OrderInv, SendorNext
    PROVE  Precede \subseteq Precede'
<1>0. UNCHANGED <<kind, doc>>
  BY SendorFixed
<1>1. ASSUME NEW msg \in Messages, Transfer(msg)
      PROVE  \A a, b : BeforeIn(accepted, a, b) => BeforeIn(accepted', a, b)
  <2> DEFINE call == [msg |-> msg, key |-> KeyOf(msg)]
  <2>1. /\ accepted' = Append(accepted, msg) /\ msg \notin ToSet(accepted) /\ call \in Calls
        /\ call.msg = msg
    BY <1>1, TransferDoes DEF Put, Calls, Contains, ToSet
  <2>2. accepted \in Seq(Messages) /\ task \in Seq(Calls)
    BY DEF TypeInv, SendorTypeOK, EntryInv
  <2> HIDE DEF call
  <2>3. QED
    BY <2>1, <2>2, TaskPush DEF OrderInv
<1>2. (\A msg \in Messages : ~Transfer(msg)) => UNCHANGED accepted
  <2>1. MakeSendor => UNCHANGED accepted
    BY DEF MakeSendor
  <2>2. Top => UNCHANGED accepted
    BY DEF Top, SimpleTop, WorkTop, PublishTop, RoutingTop, TopicTop, RbTop, callVars
  <2>3. ASSUME NEW e \in DOMAIN doc, Check(e) \/ MakeSendorThr(e) \/ Broken(e)
        PROVE  UNCHANGED accepted
    BY <2>3 DEF Check, MakeSendorThr, SimpleRound, WorkRound, PublishRound, RoutingRound,
                TopicRound, Round, ConnectOk, Ready, Written, WriteEnds, EndRound, Broken,
                ConnectFails, ChannelError, OnClosed, Break, ErrorReading, callVars
  <2>4. QED
    BY <2>1, <2>2, <2>3 DEF SendorNext
<1>3. \A a, b : BeforeIn(accepted, a, b) => BeforeIn(accepted', a, b)
  <2>1. CASE \A msg \in Messages : ~Transfer(msg)
    BY <1>2, <2>1
  <2>2. CASE ~(\A msg \in Messages : ~Transfer(msg))
    BY <1>1, <2>2
  <2>3. QED
    BY <2>1, <2>2
<1>4. QED
  BY <1>0, <1>3, PairsGrow

\* What joins the queue arrives, behind all that arrived before.
LEMMA QueueGetsNext ==
    ASSUME TypeInv, OrderInv, SendorStep
    PROVE  /\ ToSet(arrived) \subseteq ToSet(arrived')
           /\ \/ UNCHANGED queue
              \/ \E x \in AllFrames :
                    /\ x.msg \in Messages /\ queue' = Append(queue, x.msg)
                    /\ x \in ToSet(arrived')
                    /\ \A y \in ToSet(arrived) : <<y.msg, x.msg>> \in Precede
<1>0. arrived \in Seq(AllFrames) /\ SendorNext
  BY DEF TypeInv, SendorStep
<1>1. CASE UNCHANGED arrived
  BY <1>1 DEF SendorStep
<1>2. ASSUME NEW e \in DOMAIN doc, NEW x \in Frames(e), link[e] = "ready",
             outputBuffer[e] # <<>>, x = Head(outputBuffer[e]), arrived' = Append(arrived, x)
      PROVE  /\ ToSet(arrived) \subseteq ToSet(arrived')
             /\ UNCHANGED queue \/ queue' = Append(queue, x.msg)
             /\ x \in AllFrames /\ x.msg \in Messages
             /\ x \in ToSet(arrived')
             /\ \A y \in ToSet(arrived) : <<y.msg, x.msg>> \in Precede
  <2>1. x \in AllFrames /\ x.msg \in Messages
    BY DEF AllFrames, Frames
  <2>2. ToSet(arrived') = ToSet(arrived) \cup {x}
    BY <1>0, <1>2, <2>1, ToSetAppend
  <2>3. Waiting(e) = outputBuffer[e] /\ Waiting(e) \in Seq(Frames(e))
    BY <1>2, WaitingTyped DEF Waiting
  <2>4. x \in ToSet(Waiting(e))
    BY <1>2, <2>3, ToSetTail
  <2>5. \A y \in ToSet(arrived) : <<y.msg, x.msg>> \in Precede
    BY <2>4 DEF OrderInv, PrecedeFrames
  <2>6. Last(arrived') = x
    BY <1>0, <1>2, <2>1, LastOfAppend
  <2>7. UNCHANGED queue \/ queue' = Append(queue, x.msg)
    BY <2>6 DEF SendorStep
  <2>8. QED
    BY <2>1, <2>2, <2>5, <2>7
<1>3. QED
  BY <1>0, <1>1, <1>2, SendorArrives DEF TypeInv

LEMMA LineInit == Init => LineInv
<1> SUFFICES ASSUME Init
             PROVE  LineInv
  OBVIOUS
<1>1. /\ acking = <<>> /\ delivered = <<>> /\ queue = <<>> /\ handled = <<>> /\ redelivered = {}
  BY DEF Init, ReceiverInit
<1>2. Mail = <<>>
  BY <1>1 DEF Mail
<1>3. Line = <<>>
  BY <1>1, <1>2 DEF Line, Unseen
<1>4. Sorted(<<>>, Precede) /\ ToSet(<<>>) = {}
  BY DEF Sorted, ToSet
<1>5. Owes
  BY <1>1 DEF Owes
<1>6. QED
  BY <1>3, <1>4, <1>5 DEF LineInv

\* A step that leaves the line as it is.
LEMMA LineKeeps ==
    ASSUME LineInv, UNCHANGED <<kind, doc, accepted, arrived>>, Line' = Line, Owes'
    PROVE  LineInv'
BY PairsFixed DEF LineInv

\* A connection that is lost takes with it what was on its way, unless it is put back.
LEMMA LineShrinks ==
    ASSUME ReceiverTypeOK, LineInv, UNCHANGED <<kind, doc, accepted, arrived, handled>>,
           kind # "work", acking' = <<>>, delivered' = <<>>, redelivered' = redelivered,
           queue' = queue \/ queue' = <<>>
    PROVE  LineInv'
<1>1. /\ queue \in Seq(Messages) /\ delivered \in Seq(Messages) /\ handled \in Seq(Messages)
      /\ acking = <<>> /\ redelivered = {}
  BY LineTyped DEF LineInv, Owes
<1>2. Line = handled \o (delivered \o queue)
  <2>1. <<>> \o delivered = delivered
    BY <1>1, ConcatEmptySeq
  <2>2. QED
    BY <1>1, <2>1 DEF Line, Mail
<1>3. Line' = handled \o queue'
  <2>1. <<>> \in Seq(Messages)
    OBVIOUS
  <2>2. queue' \in Seq(Messages)
    BY <1>1, <2>1, Zenon
  <2>3. <<>> \o <<>> = <<>> /\ <<>> \o queue' = queue'
    BY <2>1, <2>2, ConcatEmptySeq
  <2>4. QED
    BY <2>3 DEF Line, Mail
<1>4. delivered \o queue \in Seq(Messages)
  BY <1>1, ConcatProperties
<1>5. /\ Sorted(handled, Precede) /\ Sorted(delivered \o queue, Precede)
      /\ \A x \in ToSet(handled), y \in ToSet(delivered \o queue) : <<x, y>> \in Precede
  <2> DEFINE rest == delivered \o queue
  <2> HIDE DEF rest
  <2>1. Sorted(handled \o rest, Precede) /\ rest \in Seq(Messages)
    BY <1>2, <1>4 DEF LineInv, rest
  <2>2. /\ Sorted(handled, Precede) /\ Sorted(rest, Precede)
        /\ \A x \in ToSet(handled), y \in ToSet(rest) : <<x, y>> \in Precede
    BY <1>1, <2>1, SortedConcat
  <2>3. QED
    BY <2>2 DEF rest
<1>6. /\ Sorted(queue, Precede)
      /\ ToSet(queue) \subseteq ToSet(delivered \o queue)
  BY <1>1, <1>5, SortedConcat, ToSetConcat
<1>7. ToSet(handled) \cup ToSet(queue) \subseteq ToSet(Line)
  <2> DEFINE rest == delivered \o queue
  <2> HIDE DEF rest
  <2>1. rest \in Seq(Messages) /\ Line = handled \o rest /\ ToSet(queue) \subseteq ToSet(rest)
    BY <1>2, <1>4, <1>6 DEF rest
  <2>2. ToSet(handled \o rest) = ToSet(handled) \cup ToSet(rest)
    BY <1>1, <2>1, ToSetConcat
  <2>3. QED
    BY <2>1, <2>2
<1>8. Sorted(Line', Precede) /\ ToSet(Line') \subseteq ToSet(Line)
  <2>1. CASE queue' = queue
    <3>1. Sorted(handled \o queue, Precede)
      BY <1>1, <1>5, <1>6, SortedConcat
    <3>2. ToSet(handled \o queue) = ToSet(handled) \cup ToSet(queue)
      BY <1>1, ToSetConcat
    <3>3. QED
      BY <1>3, <1>7, <2>1, <3>1, <3>2
  <2>2. CASE queue' = <<>>
    <3>1. handled \o <<>> = handled
      BY <1>1, ConcatEmptySeq
    <3>2. QED
      BY <1>3, <1>5, <1>7, <2>2, <3>1
  <2>3. QED
    BY <2>1, <2>2
<1>9. Owes'
  BY <1>1 DEF Owes
<1>10. Precede' = Precede
  BY PairsFixed
<1>11. QED
  BY <1>8, <1>9, <1>10 DEF LineInv

\* What the broker puts back is where it was.
LEMMA LinePutBack ==
    ASSUME ReceiverTypeOK, LineInv, UNCHANGED <<kind, doc, accepted, arrived, handled>>,
           kind = "work", acking' = <<>>, delivered' = <<>>,
           queue' = acking \o delivered \o queue
    PROVE  LineInv'
<1>1. Mail \in Seq(Messages) /\ queue' = Mail
  BY LineTyped DEF Mail
<1>2. Mail' = Mail
  <2>1. <<>> \o <<>> = <<>> /\ <<>> \o Mail = Mail
    <3>1. <<>> \in Seq(Messages)
      OBVIOUS
    <3>2. QED
      BY <1>1, <3>1, ConcatEmptySeq
  <2>2. Mail' = acking' \o delivered' \o queue'
    BY DEF Mail
  <2>3. QED
    BY <1>1, <2>1, <2>2
<1>3. Line' = Line
  BY <1>2 DEF Line
<1>4. Owes'
  BY DEF Owes
<1>5. QED
  BY <1>3, <1>4, LineKeeps

LEMMA LineSendor ==
    ASSUME TypeInv, OrderInv, LineInv, SendorStep
    PROVE  LineInv'
<1>0. /\ UNCHANGED <<kind, doc, delivered, acking, handled, redelivered>>
      /\ Precede \subseteq Precede'
      /\ ToSet(arrived) \subseteq ToSet(arrived')
  BY SendorFixed, SendorPairs, QueueGetsNext DEF SendorStep
<1>1. Owes'
  BY <1>0 DEF LineInv, Owes
<1>2. CASE UNCHANGED queue
  <2>1. Line' = Line
    BY <1>0, <1>2 DEF Line, Mail
  <2>2. QED
    BY <1>0, <1>1, <2>1 DEF LineInv, Sorted
<1>3. ASSUME NEW x \in AllFrames, x.msg \in Messages, queue' = Append(queue, x.msg),
             x \in ToSet(arrived'), \A y \in ToSet(arrived) : <<y.msg, x.msg>> \in Precede
      PROVE  LineInv'
  <2>1. /\ queue \in Seq(Messages) /\ delivered \in Seq(Messages)
        /\ acking \in Seq(Messages) /\ handled \in Seq(Messages)
        /\ Mail \in Seq(Messages) /\ Line \in Seq(Messages)
    BY LineTyped DEF TypeInv
  <2>2. \A a \in ToSet(Line) : <<a, x.msg>> \in Precede
    BY <1>3 DEF LineInv
  <2>3. Mail' = Append(Mail, x.msg)
    <3> DEFINE out == acking \o delivered
    <3>1. out \in Seq(Messages)
      BY <2>1, ConcatProperties
    <3>2. Mail = out \o queue /\ Mail' = out \o queue'
      BY <1>0 DEF Mail
    <3> HIDE DEF out
    <3>3. QED
      BY <1>3, <2>1, <3>1, <3>2, PushAppends
  <2>4. handled # <<>> => Last(handled) # x.msg
    <3>1. SUFFICES ASSUME handled # <<>>, Last(handled) = x.msg
                   PROVE  FALSE
      OBVIOUS
    <3>2. Last(handled) \in ToSet(handled)
      BY <2>1, <3>1, LastIsElement
    <3>3. ToSet(handled) \subseteq ToSet(Line)
      <4>1. Unseen(handled, Mail) \in Seq(Messages)
        BY <2>1, UnseenTyped
      <4>2. /\ ToSet(handled) \subseteq ToSet(handled \o Mail)
            /\ ToSet(handled) \subseteq ToSet(handled \o Unseen(handled, Mail))
        BY <2>1, <4>1, ToSetConcat
      <4>3. QED
        BY <4>2, Zenon DEF Line
    <3>4. <<x.msg, x.msg>> \in Precede
      BY <2>2, <3>1, <3>2, <3>3
    <3>5. QED
      BY <1>3, <3>4, NoSelf
  <2>5. Line' = Append(Line, x.msg)
    <3>1. handled \o Unseen(handled, Append(Mail, x.msg))
            = Append(handled \o Unseen(handled, Mail), x.msg)
      BY <1>3, <2>1, <2>4, UnseenAppend
    <3>2. handled \o Append(Mail, x.msg) = Append(handled \o Mail, x.msg)
      BY <1>3, <2>1, PushAppends
    <3>3. QED
      BY <1>0, <2>3, <3>1, <3>2 DEF Line
  <2>6. Sorted(Line', Precede)
    <3>1. Sorted(Line, Precede)
      BY DEF LineInv
    <3>2. QED
      BY <1>3, <2>1, <2>2, <2>5, <3>1, SortedAppend
  <2>7. ToSet(Line') = ToSet(Line) \cup {x.msg}
    BY <1>3, <2>1, <2>5, ToSetAppend
  <2>8. \A a \in ToSet(Line') : \E y \in ToSet(arrived') : y.msg = a
    BY <1>0, <1>3, <2>7 DEF LineInv
  <2>9. Sorted(Line', Precede')
    BY <1>0, <2>6 DEF Sorted
  <2>10. QED
    BY <1>1, <2>8, <2>9 DEF LineInv
<1>4. QED
  BY <1>2, <1>3, QueueGetsNext

LEMMA LineDeliver ==
    ASSUME ReceiverTypeOK, LineInv, UNCHANGED <<kind, doc, accepted, arrived>>, Deliver
    PROVE  LineInv'
<1>1. /\ queue \in Seq(Messages) /\ delivered \in Seq(Messages) /\ queue # <<>>
      /\ queue' = Tail(queue) /\ delivered' = Append(delivered, Head(queue))
      /\ UNCHANGED <<acking, handled, redelivered>>
      /\ acking = <<>>
      /\ kind = "work" => delivered = <<>>
  BY LineTyped DEF Deliver, LineInv, Owes
<1>2. Head(queue) \in Messages /\ delivered' \o queue' = delivered \o queue
  BY <1>1, PopMoves
<1>3. delivered' \in Seq(Messages)
  BY <1>1, <1>2, AppendProperties
<1>4. Mail' = Mail
  <2>1. <<>> \o delivered = delivered /\ <<>> \o delivered' = delivered'
    BY <1>1, <1>3, ConcatEmptySeq
  <2>2. Mail = delivered \o queue /\ Mail' = delivered' \o queue'
    BY <1>1, <2>1 DEF Mail
  <2>3. QED
    BY <1>2, <2>2
<1>5. Line' = Line
  BY <1>1, <1>4 DEF Line
<1>6. Owes'
  <2>1. kind = "work" => delivered' = <<Head(queue)>>
    BY <1>1
  <2>2. QED
    BY <1>1, <1>2, <2>1 DEF LineInv, Owes
<1>7. QED
  BY <1>5, <1>6, LineKeeps

\* Nothing that f_ gets was handled: that would not keep the order.
LEMMA LineMessageCb ==
    ASSUME TypeInv, OrderInv, LineInv, UNCHANGED <<kind, doc, accepted, arrived>>, MessageCb
    PROVE  LineInv'
<1> DEFINE first == Head(delivered)
           rest == Tail(delivered)
<1>1. /\ queue \in Seq(Messages) /\ delivered \in Seq(Messages) /\ handled \in Seq(Messages)
      /\ kind # "work" /\ delivered # <<>> /\ acking = <<>> /\ redelivered = {}
      /\ delivered' = rest /\ handled' = Handled(first)
      /\ redelivered' = {first} \cap ToSet(handled)
      /\ UNCHANGED <<queue, acking>>
  BY LineTyped DEF MessageCb, LineInv, Owes, TypeInv
<1>2. /\ first \in Messages /\ rest \in Seq(Messages) /\ first \in ToSet(delivered)
      /\ Append(handled, first) \o rest = handled \o delivered
  BY <1>1, ToSetTail, PopMoves
<1> HIDE DEF first, rest
<1>3. /\ Line = handled \o (delivered \o queue)
      /\ Line' = handled' \o (rest \o queue)
  <2>1. <<>> \o delivered = delivered /\ <<>> \o rest = rest
    BY <1>1, <1>2, ConcatEmptySeq
  <2>2. Mail = delivered \o queue /\ Mail' = rest \o queue
    BY <1>1, <2>1 DEF Mail
  <2>3. QED
    BY <1>1, <2>2 DEF Line
<1>4. first \notin ToSet(handled)
  <2>1. /\ delivered \o queue \in Seq(Messages)
        /\ ToSet(delivered \o queue) = ToSet(delivered) \cup ToSet(queue)
    BY <1>1, ToSetConcat
  <2> DEFINE mail == delivered \o queue
  <2>2. mail \in Seq(Messages) /\ first \in ToSet(mail)
    BY <1>2, <2>1
  <2> HIDE DEF mail
  <2>3. Sorted(handled \o mail, Precede)
    BY <1>3 DEF mail, LineInv
  <2>4. \A y \in ToSet(handled) : <<y, first>> \in Precede
    BY <1>1, <2>2, <2>3, SortedConcat
  <2>5. QED
    BY <1>2, <2>4, NoSelf
<1>5. handled' = Append(handled, first)
  <2>1. handled # <<>> => Last(handled) \in ToSet(handled)
    BY <1>1, LastIsElement
  <2>2. QED
    BY <1>1, <1>4, <2>1 DEF Handled
<1>6. Line' = Line
  <2>1. handled' \in Seq(Messages) /\ rest \in Seq(Messages) /\ queue \in Seq(Messages)
    BY <1>1, <1>2, <1>5, AppendProperties
  <2>2. handled' \o (rest \o queue) = (handled' \o rest) \o queue
    BY <2>1, ConcatAssociative
  <2>3. handled \o (delivered \o queue) = (handled \o delivered) \o queue
    BY <1>1, ConcatAssociative
  <2>4. QED
    BY <1>2, <1>3, <1>5, <2>2, <2>3
<1>7. Owes'
  BY <1>1, <1>4 DEF Owes
<1>8. QED
  BY <1>6, <1>7, LineKeeps

\* What the work receiver's f_ gets stays in the line until the acknowledgement arrives.
LEMMA LineWorkMessageCb ==
    ASSUME ReceiverTypeOK, LineInv, UNCHANGED <<kind, doc, accepted, arrived>>, WorkMessageCb
    PROVE  LineInv'
<1>1. /\ queue \in Seq(Messages) /\ handled \in Seq(Messages) /\ kind = "work"
      /\ acking = <<>> /\ UNCHANGED queue
      /\ delivered' = Tail(delivered) /\ acking' = Append(acking, Head(delivered))
      /\ handled' = Handled(Head(delivered))
  BY LineTyped DEF WorkMessageCb, LineInv, Owes
<1>2. PICK m \in Messages : delivered = <<m>>
  BY DEF WorkMessageCb, LineInv, Owes
<1>3. delivered' = <<>> /\ acking' = <<m>> /\ handled' = Handled(m)
  BY <1>1, <1>2
<1>4. Mail = <<m>> \o queue /\ Mail' = <<m>> \o queue
  <2>1. <<>> \o <<m>> = <<m>> /\ <<m>> \o <<>> = <<m>>
    BY ConcatEmptySeq
  <2>2. Mail = (<<>> \o <<m>>) \o queue /\ Mail' = (<<m>> \o <<>>) \o queue
    BY <1>1, <1>2, <1>3 DEF Mail
  <2>3. QED
    BY <2>1, <2>2
<1>5. Mail \in Seq(Messages) /\ Mail # <<>> /\ Head(Mail) = m
  BY <1>1, <1>4, FirstAndRest
<1>6. handled' = IF handled # <<>> /\ Last(handled) = Head(Mail) THEN handled
                 ELSE Append(handled, Head(Mail))
  BY <1>3, <1>5 DEF Handled
<1>7. /\ handled' \o Unseen(handled', Mail) = handled \o Unseen(handled, Mail)
      /\ handled' # <<>> /\ Last(handled') = m
  BY <1>1, <1>5, <1>6, UnseenTaken
<1>8. Line' = Line
  BY <1>1, <1>4, <1>7 DEF Line
<1>9. Owes'
  BY <1>1, <1>3, <1>7 DEF Owes
<1>10. QED
  BY <1>8, <1>9, LineKeeps

LEMMA LineAckArrives ==
    ASSUME TypeInv, OrderInv, LineInv, UNCHANGED <<kind, doc, accepted, arrived>>, AckArrives
    PROVE  LineInv'
<1>1. /\ queue \in Seq(Messages) /\ handled \in Seq(Messages)
      /\ kind = "work" /\ handled # <<>> /\ acking = <<Last(handled)>> /\ delivered = <<>>
      /\ acking' = Tail(acking)
      /\ UNCHANGED <<queue, delivered, handled>>
  BY LineTyped DEF AckArrives, LineInv, Owes, TypeInv
<1>2. Last(handled) \in Messages /\ acking' = <<>>
  BY <1>1, LastIsElement
<1>3. Mail = <<Last(handled)>> \o queue /\ Mail' = queue
  <2>1. /\ <<Last(handled)>> \o <<>> = <<Last(handled)>>
        /\ <<>> \o <<>> = <<>> /\ <<>> \o queue = queue
    BY <1>1, <1>2, ConcatEmptySeq
  <2>2. /\ Mail = (<<Last(handled)>> \o <<>>) \o queue
        /\ Mail' = (<<>> \o <<>>) \o queue
    BY <1>1, <1>2 DEF Mail
  <2>3. QED
    BY <2>1, <2>2
<1>4. /\ Mail \in Seq(Messages) /\ Mail # <<>> /\ Head(Mail) = Last(handled)
      /\ Mail' = Tail(Mail)
  BY <1>1, <1>2, <1>3, FirstAndRest
<1>5. Sorted(handled \o Unseen(handled, Mail), Precede)
  BY <1>1 DEF LineInv, Line
<1>6. Unseen(handled, Tail(Mail)) = Unseen(handled, Mail)
  BY <1>1, <1>4, <1>5, NoSelf, UnseenAcked
<1>7. Line' = Line
  BY <1>1, <1>4, <1>6 DEF Line
<1>8. Owes'
  BY <1>1, <1>2 DEF Owes
<1>9. QED
  BY <1>7, <1>8, LineKeeps

LEMMA LineReceiver ==
    ASSUME TypeInv, OrderInv, LineInv, ReceiverStep
    PROVE  LineInv'
<1>0. UNCHANGED <<kind, doc, accepted, arrived>> /\ ReceiverTypeOK
  BY KindFixed DEF Next, ReceiverStep, sendorVars, callVars, TypeInv
<1>1. CASE ConnetToServer
  <2>1. UNCHANGED <<queue, delivered, acking, handled, redelivered>>
    BY <1>1 DEF ConnetToServer, SimpleConsumes, WorkConsumes, PublishConsumes,
                RoutingConsumes, TopicConsumes, ReceiverRound, Consume, ConsumeFails
  <2>2. Line' = Line /\ Owes'
    BY <1>0, <2>1 DEF Line, Mail, LineInv, Owes
  <2>3. QED
    BY <1>0, <2>2, LineKeeps
<1>2. CASE ReceiverBreaks
  <2>1. /\ Lost /\ UNCHANGED <<handled, redelivered>>
        /\ delivered' = <<>> /\ acking' = <<>>
    BY <1>2 DEF ReceiverBreaks, Lost
  <2>2. CASE kind = "work"
    <3>1. queue' = acking \o delivered \o queue
      BY <2>1, <2>2, Zenon DEF Lost
    <3>2. QED
      BY <1>0, <2>1, <2>2, <3>1, LinePutBack
  <2>3. CASE kind # "work"
    <3>1. queue' = queue \/ queue' = <<>>
      BY <2>1, <2>3 DEF Lost
    <3>2. QED
      BY <1>0, <2>1, <2>3, <3>1, LineShrinks
  <2>4. QED
    BY <2>2, <2>3
<1>3. CASE ReceiverChannelError
  <2>1. /\ queue' = acking \o delivered \o queue /\ delivered' = <<>> /\ acking' = <<>>
        /\ UNCHANGED <<handled, redelivered>>
    BY <1>0, <1>3, ChannelPutsBack DEF ReceiverTypeOK
  <2>2. CASE kind = "work"
    BY <1>0, <2>1, <2>2, LinePutBack
  <2>3. CASE kind # "work"
    <3>1. acking = <<>> /\ queue' = acking \o queue
      BY <1>3, <2>3 DEF ReceiverChannelError, LineInv, Owes
    <3>2. queue' = queue
      BY <1>0, <3>1 DEF ReceiverTypeOK
    <3>3. QED
      BY <1>0, <2>1, <2>3, <3>2, LineShrinks
  <2>4. QED
    BY <2>2, <2>3
<1>4. QED
  BY <1>0, <1>1, <1>2, <1>3, LineDeliver, LineMessageCb, LineWorkMessageCb, LineAckArrives
     DEF ReceiverStep, ReceiverNext

LEMMA LineStep ==
    ASSUME TypeInv, OrderInv, LineInv, [Next]_vars
    PROVE  LineInv'
<1>1. CASE BrokerRestarts
  <2>1. /\ UNCHANGED <<kind, doc, accepted, arrived, handled, redelivered>>
        /\ delivered' = <<>> /\ acking' = <<>>
        /\ kind = "work" => queue' = acking \o delivered \o queue
        /\ kind # "work" => queue' = <<>>
    BY <1>1 DEF BrokerRestarts, cfgVars, callVars
  <2>2. QED
    BY <2>1, LinePutBack, LineShrinks DEF TypeInv
<1>2. CASE UNCHANGED vars
  <2>1. /\ UNCHANGED <<kind, doc, accepted, arrived>>
        /\ UNCHANGED <<queue, delivered, acking, handled, redelivered>>
    BY <1>2 DEF vars, cfgVars, sendorVars, callVars, receiverVars
  <2>2. Line' = Line /\ Owes'
    BY <2>1 DEF Line, Mail, LineInv, Owes
  <2>3. QED
    BY <2>1, <2>2, LineKeeps
<1>3. QED
  BY <1>1, <1>2, LineSendor, LineReceiver DEF Next

\* For any documents, messages and keys, and through any breaks and restarts: what
\* arrives, and what f_ gets, goes only where the document says, at most once and
\* in the order of the calls; only the work receiver may get its last message again.
THEOREM RabbitFaithfulDelivery == SafeSpec => []FaithfulDelivery
<1> DEFINE Inv == TypeInv /\ OrderInv /\ LineInv
<1>1. Init => Inv
  BY TypeInit, OrderInit, LineInit
<1>2. Inv /\ [Next]_vars => Inv'
  BY TypeStep, OrderStep, LineStep
<1>3. Inv => FaithfulDelivery
  <2> SUFFICES ASSUME Inv
               PROVE  FaithfulDelivery
    OBVIOUS
  <2>1. /\ arrived \in Seq(AllFrames) /\ Len(arrived) \in Nat /\ DOMAIN arrived = 1..Len(arrived)
        /\ \A i \in DOMAIN arrived : arrived[i] \in AllFrames
        /\ DOMAIN accepted = 1..Len(accepted)
        /\ handled \in Seq(Messages) /\ DOMAIN handled = 1..Len(handled)
    BY LenProperties, ElementOfSeq DEF TypeInv, SendorTypeOK, ReceiverTypeOK
  <2>2. \A i \in DOMAIN arrived : arrived[i].to = AddressOf(arrived[i].msg)
    BY <2>1 DEF AllFrames, Frames
  <2>3. ASSUME NEW s, DOMAIN s = 1..Len(s), Sorted(s, Precede)
        PROVE  InOrder(s)
    <3> SUFFICES ASSUME NEW i \in DOMAIN s, NEW j \in DOMAIN s, i < j,
                        ItemOf(s[i]) = ItemOf(s[j])
                 PROVE  \E m, n \in DOMAIN accepted :
                           m < n /\ accepted[m] = s[i] /\ accepted[n] = s[j]
      BY DEF InOrder
    <3>1. <<s[i], s[j]>> \in Precede
      BY <2>3 DEF Sorted
    <3>2. BeforeIn(accepted, s[i], s[j])
      BY <3>1 DEF Precede
    <3>3. QED
      BY <2>1, <3>2 DEF BeforeIn
  <2>4. InOrder([i \in DOMAIN arrived |-> arrived[i].msg])
    <3> DEFINE s == [i \in DOMAIN arrived |-> arrived[i].msg]
    <3>1. s \in Seq(Messages)
      <4>1. \A x \in AllFrames : x.msg \in Messages
        BY DEF AllFrames, Frames
      <4>2. s = [i \in 1..Len(arrived) |-> arrived[i].msg]
        BY <2>1
      <4>3. \A i \in 1..Len(arrived) : arrived[i].msg \in Messages
        BY <2>1, <4>1
      <4>4. QED
        BY <2>1, <4>2, <4>3
    <3>2. DOMAIN s = 1..Len(arrived) /\ Len(s) = Len(arrived)
      BY <2>1, <3>1, LenProperties
    <3>3. \A i \in 1..Len(arrived) : s[i] = arrived[i].msg
      BY <2>1
    <3> HIDE DEF s
    <3>4. Sorted(s, Precede)
      <4> SUFFICES ASSUME NEW i \in 1..Len(arrived), NEW j \in 1..Len(arrived), i < j
                   PROVE  <<s[i], s[j]>> \in Precede
        BY <3>2 DEF Sorted
      <4>1. <<arrived[i], arrived[j]>> \in PrecedeFrames
        BY DEF OrderInv, Sorted
      <4>2. <<arrived[i].msg, arrived[j].msg>> \in Precede
        BY <4>1 DEF PrecedeFrames
      <4>3. QED
        BY <3>3, <4>2
    <3>5. QED
      BY <2>3, <3>2, <3>4 DEF s
  <2>5. InOrder(handled)
    <3>1. /\ Mail \in Seq(Messages) /\ Unseen(handled, Mail) \in Seq(Messages)
      BY <2>1, LineTyped, UnseenTyped DEF TypeInv
    <3>2. \/ Sorted(handled \o Mail, Precede)
          \/ Sorted(handled \o Unseen(handled, Mail), Precede)
      BY Zenon DEF LineInv, Line
    <3>3. Sorted(handled, Precede)
      BY <2>1, <3>1, <3>2, SortedConcat
    <3>4. QED
      BY <2>1, <2>3, <3>3
  <2>6. redelivered # {} => kind = "work"
    BY DEF LineInv, Owes
  <2>7. QED
    BY <2>2, <2>4, <2>5, <2>6 DEF FaithfulDelivery
<1>4. QED
  BY <1>1, <1>2, <1>3, PTL DEF SafeSpec

\* An acknowledgement on its way to the broker is that of the message which f_ got
\* last, and the only one: the work receiver never acknowledges what was not handled.
THEOREM AcknowledgedWasHandled == SafeSpec => []Owes
<1> DEFINE Inv == TypeInv /\ OrderInv /\ LineInv
<1>1. Init => Inv
  BY TypeInit, OrderInit, LineInit
<1>2. Inv /\ [Next]_vars => Inv'
  BY TypeStep, OrderStep, LineStep
<1>3. Inv => Owes
  BY DEF LineInv
<1>4. QED
  BY <1>1, <1>2, <1>3, PTL DEF SafeSpec

-----------------------------------------------------------------------------
(* What the receiver gets was sent, and to an address that it has bound *)

Held == ToSet(acking) \cup ToSet(delivered) \cup ToSet(queue) \cup ToSet(handled)

OwnInv == \A x \in Held : Binds(AddressOf(x)) /\ \E y \in ToSet(arrived) : y.msg = x

LEMMA OwnFixed ==
    ASSUME UNCHANGED <<kind, doc, rcv>>
    PROVE  \A x : Binds(AddressOf(x))' <=> Binds(AddressOf(x))
<1>1. \A a : Binds(a)' <=> Binds(a)
  BY DEF Binds, RoutingkeySet
<1>2. ASSUME NEW x PROVE AddressOf(x)' = AddressOf(x)
  BY DocumentFixed
<1>3. QED
  BY <1>1, <1>2 DEF Binds, RoutingkeySet

\* A step of the receiver or of the broker only moves messages and forgets them.
LEMMA OwnKeeps ==
    ASSUME OwnInv, UNCHANGED <<kind, doc, rcv, arrived>>, Held' \subseteq Held
    PROVE  OwnInv'
BY OwnFixed DEF OwnInv

LEMMA OwnSendor ==
    ASSUME TypeInv, OrderInv, OwnInv, SendorStep
    PROVE  OwnInv'
<1>1. UNCHANGED <<kind, doc, rcv, delivered, acking, handled>>
  BY SendorFixed DEF SendorStep
<1>2. ToSet(arrived) \subseteq ToSet(arrived')
  BY QueueGetsNext
<1>3. CASE UNCHANGED queue
  <2>1. Held' = Held
    BY <1>1, <1>3 DEF Held
  <2>2. QED
    BY <1>1, <1>2, <2>1, OwnFixed DEF OwnInv
<1>4. ASSUME NEW e \in DOMAIN doc, NEW x \in Frames(e), arrived' = Append(arrived, x),
             ~UNCHANGED queue
      PROVE  OwnInv'
  <2>1. /\ x \in AllFrames /\ x.msg \in Messages /\ x.to = AddressOf(x.msg)
        /\ arrived \in Seq(AllFrames) /\ queue \in Seq(Messages)
    BY LineTyped DEF AllFrames, Frames, TypeInv
  <2>2. Last(arrived') = x /\ ToSet(arrived') = ToSet(arrived) \cup {x}
    BY <1>4, <2>1, LastOfAppend, ToSetAppend
  <2>3. queue' = Append(queue, x.msg) /\ Binds(AddressOf(x.msg))
    BY <1>4, <2>1, <2>2 DEF SendorStep
  <2>4. Held' = Held \cup {x.msg}
    <3>1. ToSet(queue') = ToSet(queue) \cup {x.msg}
      BY <2>1, <2>3, ToSetAppend
    <3>2. QED
      BY <1>1, <3>1 DEF Held
  <2>5. QED
    BY <1>1, <2>2, <2>3, <2>4, OwnFixed DEF OwnInv
<1>5. UNCHANGED arrived => UNCHANGED queue
  BY DEF SendorStep
<1>6. QED
  BY <1>3, <1>4, <1>5, SendorArrives DEF SendorStep, TypeInv

LEMMA HeldPutBack ==
    ASSUME ReceiverTypeOK, UNCHANGED handled, delivered' = <<>>, acking' = <<>>,
           \/ queue' = queue
           \/ queue' = <<>>
           \/ queue' = acking \o delivered \o queue
    PROVE  Held' \subseteq Held
<1>1. /\ queue \in Seq(Messages) /\ delivered \in Seq(Messages) /\ acking \in Seq(Messages)
  BY DEF ReceiverTypeOK
<1>2. ToSet(<<>>) = {}
  BY DEF ToSet
<1>3. ToSet(queue') \subseteq ToSet(acking) \cup ToSet(delivered) \cup ToSet(queue)
  <2> DEFINE out == acking \o delivered
  <2>1. out \in Seq(Messages) /\ ToSet(out) = ToSet(acking) \cup ToSet(delivered)
    BY <1>1, ToSetConcat
  <2> HIDE DEF out
  <2>2. ToSet(out \o queue) = ToSet(out) \cup ToSet(queue)
    BY <1>1, <2>1, ToSetConcat
  <2>3. queue' = queue \/ queue' = <<>> \/ queue' = out \o queue
    BY DEF out
  <2>4. QED
    BY <1>2, <2>1, <2>2, <2>3
<1>4. QED
  BY <1>2, <1>3 DEF Held

LEMMA OwnReceiver ==
    ASSUME TypeInv, OwnInv, ReceiverStep
    PROVE  OwnInv'
<1>0. UNCHANGED <<kind, doc, rcv, arrived>>
  <2>1. UNCHANGED <<doc, arrived>>
    BY DEF ReceiverStep, sendorVars
  <2>2. UNCHANGED <<kind, rcv>>
    BY DEF ReceiverStep, ReceiverNext, ConnetToServer, SimpleConsumes, WorkConsumes,
           PublishConsumes, RoutingConsumes, TopicConsumes, ReceiverRound, Consume, ConsumeFails,
           Deliver, MessageCb, WorkMessageCb, AckArrives, ReceiverChannelError, ReceiverBreaks
  <2>3. QED
    BY <2>1, <2>2
<1>1. /\ queue \in Seq(Messages) /\ delivered \in Seq(Messages)
      /\ acking \in Seq(Messages) /\ handled \in Seq(Messages)
  BY LineTyped DEF TypeInv
<1>2. CASE ConnetToServer
  <2>1. UNCHANGED <<queue, delivered, acking, handled>>
    BY <1>2 DEF ConnetToServer, SimpleConsumes, WorkConsumes, PublishConsumes,
                RoutingConsumes, TopicConsumes, ReceiverRound, Consume, ConsumeFails
  <2>2. QED
    BY <1>0, <2>1, OwnKeeps DEF Held
<1>3. CASE Deliver
  <2>1. /\ queue # <<>> /\ queue' = Tail(queue) /\ delivered' = Append(delivered, Head(queue))
        /\ UNCHANGED <<acking, handled>>
    BY <1>3 DEF Deliver
  <2>2. Head(queue) \in Messages /\ ToSet(queue) = {Head(queue)} \cup ToSet(Tail(queue))
    BY <1>1, <2>1, ToSetTail
  <2>3. ToSet(delivered') = ToSet(delivered) \cup {Head(queue)}
    BY <1>1, <2>1, <2>2, ToSetAppend
  <2>4. QED
    BY <1>0, <2>1, <2>2, <2>3, OwnKeeps DEF Held
<1>4. CASE MessageCb \/ WorkMessageCb
  <2>1. /\ delivered # <<>> /\ delivered' = Tail(delivered) /\ UNCHANGED queue
        /\ acking' \in {acking, Append(acking, Head(delivered))}
        /\ handled' = Handled(Head(delivered))
    BY <1>4 DEF MessageCb, WorkMessageCb
  <2>2. /\ Head(delivered) \in Messages
        /\ ToSet(delivered) = {Head(delivered)} \cup ToSet(Tail(delivered))
    BY <1>1, <2>1, ToSetTail
  <2>3. /\ ToSet(handled') = ToSet(handled) \cup {Head(delivered)}
        /\ ToSet(Append(acking, Head(delivered))) = ToSet(acking) \cup {Head(delivered)}
    BY <1>1, <2>1, <2>2, ToSetHandled, ToSetAppend
  <2>4. QED
    BY <1>0, <2>1, <2>2, <2>3, OwnKeeps DEF Held
<1>5. CASE AckArrives
  <2>1. /\ acking # <<>> /\ acking' = Tail(acking)
        /\ UNCHANGED <<queue, delivered, handled>>
    BY <1>5 DEF AckArrives
  <2>2. ToSet(acking') \subseteq ToSet(acking)
    BY <1>1, <2>1, ToSetTail
  <2>3. QED
    BY <1>0, <2>1, <2>2, OwnKeeps DEF Held
<1>6. CASE ReceiverBreaks
  <2>1. /\ UNCHANGED handled /\ delivered' = <<>> /\ acking' = <<>>
        /\ \/ queue' = queue
           \/ queue' = <<>>
           \/ queue' = acking \o delivered \o queue
    <3>1. Lost /\ UNCHANGED handled
      BY <1>6 DEF ReceiverBreaks
    <3>2. QED
      BY <3>1, Zenon DEF Lost
  <2>2. QED
    BY <1>0, <2>1, HeldPutBack, OwnKeeps DEF TypeInv
<1>7. CASE ReceiverChannelError
  <2>1. /\ queue' = acking \o delivered \o queue /\ delivered' = <<>> /\ acking' = <<>>
        /\ UNCHANGED handled
    BY <1>1, <1>7, ChannelPutsBack
  <2>2. QED
    BY <1>0, <2>1, HeldPutBack, OwnKeeps DEF TypeInv
<1>8. QED
  BY <1>2, <1>3, <1>4, <1>5, <1>6, <1>7 DEF ReceiverStep, ReceiverNext

LEMMA OwnStep ==
    ASSUME TypeInv, OrderInv, OwnInv, [Next]_vars
    PROVE  OwnInv'
<1>1. CASE BrokerRestarts
  <2>1. /\ UNCHANGED <<kind, doc, rcv, arrived, handled>> /\ delivered' = <<>> /\ acking' = <<>>
        /\ \/ queue' = <<>>
           \/ queue' = acking \o delivered \o queue
    BY <1>1 DEF BrokerRestarts, cfgVars
  <2>2. QED
    BY <2>1, HeldPutBack, OwnKeeps DEF TypeInv
<1>2. CASE UNCHANGED vars
  <2>1. UNCHANGED <<kind, doc, rcv, arrived, queue, delivered, acking, handled>>
    BY <1>2 DEF vars, cfgVars, sendorVars, receiverVars
  <2>2. QED
    BY <2>1, OwnKeeps DEF Held
<1>3. QED
  BY <1>1, <1>2, OwnSendor, OwnReceiver DEF Next

\* Everything that f_ got had been published, to the address of its item, and this
\* address is bound by the receiver: nothing is invented and nothing goes astray.
HandledWasMeant ==
    \A x \in ToSet(handled) :
        Binds(AddressOf(x)) /\ \E i \in DOMAIN arrived :
                                  arrived[i] = [msg |-> x, to |-> AddressOf(x)]

\* For any documents, receivers and keys of the five kinds: f_ gets only messages
\* that were published to an address which the receiver has bound.
THEOREM ReceiverGetsItsOwn == SafeSpec => []HandledWasMeant
<1> DEFINE Inv == TypeInv /\ OrderInv /\ OwnInv
<1>1. Init => OwnInv
  <2>1. ToSet(<<>>) = {}
    BY DEF ToSet
  <2>2. QED
    BY <2>1 DEF Init, ReceiverInit, OwnInv, Held
<1>2. Init => Inv
  BY <1>1, TypeInit, OrderInit
<1>3. Inv /\ [Next]_vars => Inv'
  BY TypeStep, OrderStep, OwnStep
<1>4. Inv => HandledWasMeant
  <2> SUFFICES ASSUME Inv, NEW x \in ToSet(handled)
               PROVE  /\ Binds(AddressOf(x))
                      /\ \E i \in DOMAIN arrived :
                            arrived[i] = [msg |-> x, to |-> AddressOf(x)]
    BY DEF HandledWasMeant
  <2>1. Binds(AddressOf(x)) /\ \E y \in ToSet(arrived) : y.msg = x
    BY DEF OwnInv, Held
  <2>2. PICK i \in DOMAIN arrived : arrived[i].msg = x
    BY <2>1 DEF ToSet
  <2>3. arrived[i] \in AllFrames
    BY LenProperties, ElementOfSeq DEF TypeInv
  <2>4. PICK m \in Messages : arrived[i] = [msg |-> m, to |-> AddressOf(m)]
    BY <2>3 DEF AllFrames, Frames
  <2>5. m = x
    BY <2>2, <2>4
  <2>6. QED
    BY <2>1, <2>4, <2>5
<1>5. QED
  BY <1>2, <1>3, <1>4, PTL DEF SafeSpec

-----------------------------------------------------------------------------
(* Nothing that reached the broker is lost *)

AddressOfEntry(e) == <<"", doc[e].keys[1][2]>>

\* The work sender publishes to the queue of the entry.
LEMMA WorkFrames ==
    ASSUME kind = "work", EntryInv, NEW e \in DOMAIN doc, NEW x \in Frames(e)
    PROVE  x.msg \in Messages /\ x.to = AddressOfEntry(e)
<1>1. PICK m \in Messages : /\ Accepted(m) /\ GetByKey(kind, doc, KeyOf(m)) = e
                            /\ x = [msg |-> m, to |-> AddressOf(m)]
  BY DEF Frames
<1>2. e # NoEntry
  BY DocumentIs DEF EntryInv, NoEntry
<1>3. ItemOf(m) = e
  BY <1>1, <1>2, EntryIsItem DEF EntryInv
<1>4. QED
  BY <1>1, <1>3 DEF AddressOf, AddressOfEntry

\* The queue of an entry is declared before the entry publishes to it; what arrives
\* there is in the queue, at the receiver, or was handled.
BrokerInv ==
    /\ \A e \in DOMAIN doc : link[e] = "ready" /\ Binds(AddressOfEntry(e)) => declared
    /\ arrived \in Seq(AllFrames)
    /\ queue \in Seq(Messages) /\ delivered \in Seq(Messages)
    /\ acking \in Seq(Messages) /\ handled \in Seq(Messages)
    /\ \A i \in 1..Len(arrived) : Binds(arrived[i].to) =>
         arrived[i].msg \in ToSet(queue) \cup ToSet(delivered) \cup ToSet(handled)

LEMMA BrokerInit == Init => BrokerInv
BY DEF Init, SendorInit, ReceiverInit, BrokerInv

LEMMA BrokerSendorStep ==
    ASSUME kind = "work", EntryInv, BrokerInv, SendorStep
    PROVE  BrokerInv'
<1>1. /\ SendorNext
      /\ declared' = (declared \/ DeclaredBySendor)
      /\ UNCHANGED <<rcv, delivered, acking, handled>>
      /\ queue' = IF arrived' # arrived /\ declared /\ Binds(Last(arrived').to)
                  THEN Append(queue, Last(arrived').msg) ELSE queue
  BY DEF SendorStep
<1>2. UNCHANGED <<kind, doc>>
  BY <1>1, SendorArrives
<1>3. \A a : Binds(a)' <=> Binds(a)
  BY <1>1, <1>2 DEF Binds, RoutingkeySet
<1>4. AllFrames' = AllFrames /\ \A e : AddressOfEntry(e)' = AddressOfEntry(e)
  BY <1>2, DocumentFixed DEF AllFrames, AddressOfEntry
<1>5. ASSUME NEW e \in DOMAIN doc, link'[e] = "ready", Binds(AddressOfEntry(e))
      PROVE  declared'
  <2>1. CASE link[e] = "ready"
    BY <1>1, <1>5, <2>1, Zenon DEF BrokerInv
  <2>2. CASE link[e] # "ready"
    BY <1>1, <1>5, <2>2, Zenon DEF DeclaredBySendor, AddressOfEntry
  <2>3. QED
    BY <2>1, <2>2
<1>6. CASE UNCHANGED arrived
  <2>1. UNCHANGED queue
    BY <1>1, <1>6
  <2>2. QED
    BY <1>1, <1>2, <1>3, <1>4, <1>5, <1>6, <2>1 DEF BrokerInv
<1>7. ASSUME NEW e \in DOMAIN doc, NEW x \in Frames(e),
             link[e] = "ready", arrived' = Append(arrived, x)
      PROVE  BrokerInv'
  <2>1. /\ arrived \in Seq(AllFrames) /\ x \in AllFrames /\ x.msg \in Messages
        /\ x.to = AddressOfEntry(e)
    BY WorkFrames DEF BrokerInv, AllFrames
  <2>2. /\ arrived' \in Seq(AllFrames) /\ Len(arrived') = Len(arrived) + 1
        /\ \A i \in 1..Len(arrived) : arrived'[i] = arrived[i]
        /\ arrived'[Len(arrived) + 1] = x
        /\ Len(arrived) \in Nat
    BY <1>7, <2>1, AppendProperties, LenProperties
  <2>3. Last(arrived') = x /\ arrived' # arrived
    BY <2>2 DEF Last
  <2>4. queue \in Seq(Messages)
    BY DEF BrokerInv
  <2>5. /\ queue' \in Seq(Messages) /\ ToSet(queue) \subseteq ToSet(queue')
        /\ Binds(x.to) => x.msg \in ToSet(queue')
    <3>1. Binds(x.to) => declared
      BY <1>7, <2>1 DEF BrokerInv
    <3>2. CASE Binds(x.to)
      <4>1. queue' = Append(queue, x.msg)
        BY <1>1, <2>3, <3>1, <3>2
      <4>2. Append(queue, x.msg) \in Seq(Messages)
        BY <2>1, <2>4, AppendProperties
      <4>3. QED
        BY <2>1, <2>4, <4>1, <4>2, ToSetAppend
    <3>3. CASE ~Binds(x.to)
      BY <1>1, <2>3, <2>4, <3>3
    <3>4. QED
      BY <3>2, <3>3
  <2>6. ASSUME NEW i \in 1..Len(arrived'), Binds(arrived'[i].to)
        PROVE  arrived'[i].msg \in ToSet(queue') \cup ToSet(delivered) \cup ToSet(handled)
    <3>1. CASE i \in 1..Len(arrived)
      BY <2>2, <2>5, <2>6, <3>1 DEF BrokerInv
    <3>2. CASE i = Len(arrived) + 1
      BY <2>2, <2>5, <2>6, <3>2
    <3>3. QED
      BY <2>2, <3>1, <3>2
  <2>7. QED
    BY <1>1, <1>2, <1>3, <1>4, <1>5, <2>2, <2>5, <2>6 DEF BrokerInv
<1>8. QED
  BY <1>1, <1>6, <1>7, SendorArrives

\* A step that leaves the sender and what arrived alone, and forgets nothing.
LEMMA BrokerKeeps ==
    ASSUME BrokerInv, UNCHANGED <<kind, doc, rcv, arrived>>,
           \A e \in DOMAIN doc : link'[e] = "ready" => link[e] = "ready",
           declared => declared',
           queue' \in Seq(Messages), delivered' \in Seq(Messages),
           acking' \in Seq(Messages), handled' \in Seq(Messages),
           ToSet(queue) \cup ToSet(delivered) \cup ToSet(handled)
               \subseteq ToSet(queue') \cup ToSet(delivered') \cup ToSet(handled')
    PROVE  BrokerInv'
<1>1. \A a : Binds(a)' <=> Binds(a)
  BY DEF Binds, RoutingkeySet
<1>2. AllFrames' = AllFrames /\ \A e : AddressOfEntry(e)' = AddressOfEntry(e)
  BY DocumentFixed DEF AllFrames, AddressOfEntry
<1>3. QED
  BY <1>1, <1>2 DEF BrokerInv

LEMMA BrokerReceiverStep ==
    ASSUME kind = "work", BrokerInv, ReceiverStep
    PROVE  BrokerInv'
<1>1. UNCHANGED <<kind, doc, rcv, arrived, link>>
  <2>1. UNCHANGED <<doc, arrived, link>>
    BY DEF ReceiverStep, sendorVars, ioVars
  <2>2. UNCHANGED <<kind, rcv>>
    BY DEF ReceiverStep, ReceiverNext, ConnetToServer, SimpleConsumes, WorkConsumes,
           PublishConsumes, RoutingConsumes, TopicConsumes, ReceiverRound, Consume, ConsumeFails,
           Deliver, MessageCb, WorkMessageCb, AckArrives, ReceiverChannelError, ReceiverBreaks
  <2>3. QED
    BY <2>1, <2>2
<1>2. /\ queue \in Seq(Messages) /\ delivered \in Seq(Messages)
      /\ acking \in Seq(Messages) /\ handled \in Seq(Messages)
  BY DEF BrokerInv
<1>3. CASE ConnetToServer
  <2>1. /\ declared' = declared \/ declared' = TRUE
        /\ UNCHANGED <<queue, delivered, acking, handled>>
    BY <1>3 DEF ConnetToServer, SimpleConsumes, WorkConsumes, PublishConsumes,
                RoutingConsumes, TopicConsumes, ReceiverRound, Consume, ConsumeFails
  <2>2. declared => declared'
    BY <2>1, Zenon
  <2>3. QED
    BY <1>1, <1>2, <2>1, <2>2, BrokerKeeps
<1>4. CASE Deliver
  <2>1. /\ queue # <<>> /\ queue' = Tail(queue) /\ delivered' = Append(delivered, Head(queue))
        /\ UNCHANGED <<declared, acking, handled>>
    BY <1>4 DEF Deliver
  <2>2. /\ Head(queue) \in Messages /\ Tail(queue) \in Seq(Messages)
        /\ ToSet(queue) = {Head(queue)} \cup ToSet(Tail(queue))
    BY <1>2, <2>1, ToSetTail
  <2>3. /\ delivered' \in Seq(Messages)
        /\ ToSet(delivered') = ToSet(delivered) \cup {Head(queue)}
    BY <1>2, <2>1, <2>2, ToSetAppend, AppendProperties
  <2>4. QED
    BY <1>1, <1>2, <2>1, <2>2, <2>3, BrokerKeeps
<1>5. CASE WorkMessageCb
  <2>1. /\ delivered # <<>> /\ delivered' = Tail(delivered)
        /\ acking' = Append(acking, Head(delivered))
        /\ handled' = Handled(Head(delivered))
        /\ UNCHANGED <<declared, queue>>
    BY <1>5 DEF WorkMessageCb
  <2>2. /\ Head(delivered) \in Messages /\ Tail(delivered) \in Seq(Messages)
        /\ ToSet(delivered) = {Head(delivered)} \cup ToSet(Tail(delivered))
    BY <1>2, <2>1, ToSetTail
  <2>3. /\ handled' \in Seq(Messages) /\ acking' \in Seq(Messages)
        /\ ToSet(handled') = ToSet(handled) \cup {Head(delivered)}
    BY <1>2, <2>1, <2>2, ToSetHandled, AppendProperties
  <2>4. QED
    BY <1>1, <1>2, <2>1, <2>2, <2>3, BrokerKeeps
<1>6. CASE AckArrives
  <2>1. /\ acking # <<>> /\ acking' = Tail(acking)
        /\ UNCHANGED <<declared, queue, delivered, handled>>
    BY <1>6 DEF AckArrives
  <2>2. acking' \in Seq(Messages)
    BY <1>2, <2>1, ToSetTail
  <2>3. QED
    BY <1>1, <1>2, <2>1, <2>2, BrokerKeeps
<1>7. CASE ReceiverBreaks
  <2>1. /\ queue' = acking \o delivered \o queue /\ delivered' = <<>> /\ acking' = <<>>
        /\ UNCHANGED <<declared, handled>>
    BY <1>7, Zenon DEF ReceiverBreaks, Lost
  <2>2. QED
    BY <1>1, <1>2, <2>1, PutBack, BrokerKeeps DEF BrokerInv
<1>8. CASE MessageCb
  BY <1>8 DEF MessageCb
<1>9. CASE ReceiverChannelError
  <2>1. /\ queue' = acking \o delivered \o queue /\ delivered' = <<>> /\ acking' = <<>>
        /\ UNCHANGED <<declared, handled>>
    BY <1>2, <1>9, ChannelPutsBack
  <2>2. QED
    BY <1>1, <1>2, <2>1, PutBack, BrokerKeeps DEF BrokerInv
<1>10. QED
  BY <1>3, <1>4, <1>5, <1>6, <1>7, <1>8, <1>9 DEF ReceiverStep, ReceiverNext

LEMMA BrokerRestartsStep ==
    ASSUME kind = "work", BrokerInv, BrokerRestarts
    PROVE  BrokerInv'
<1>1. /\ UNCHANGED <<kind, doc, rcv, arrived, declared, handled>>
      /\ queue' = acking \o delivered \o queue /\ delivered' = <<>> /\ acking' = <<>>
  BY DEF BrokerRestarts, cfgVars
<1>2. \A f \in DOMAIN doc : link'[f] # "ready"
  BY Zenon DEF BrokerRestarts
<1>3. handled' \in Seq(Messages)
  BY <1>1 DEF BrokerInv
<1>4. QED
  BY <1>1, <1>2, <1>3, PutBack, BrokerKeeps DEF BrokerInv

\* For any documents, messages and keys: no message of the work sender that has
\* reached the broker is lost.
THEOREM RabbitWorkNeverLost == SafeSpec => []WorkNeverLost
<1> DEFINE Inv == kind = "work" => EntryInv /\ BrokerInv
<1>1. Init => Inv
  BY EntryInit, BrokerInit
<1>2. Inv /\ [Next]_vars => Inv'
  <2> SUFFICES ASSUME Inv, [Next]_vars
               PROVE  Inv'
    OBVIOUS
  <2>1. CASE kind # "work"
    <3>1. kind' = kind
      BY KindFixed DEF vars, cfgVars
    <3>2. QED
      BY <2>1, <3>1
  <2>2. CASE kind = "work"
    <3>1. CASE SendorStep
      BY <2>2, <3>1, EntrySendor, BrokerSendorStep DEF SendorStep
    <3>2. CASE ReceiverStep
      <4>1. EntryInv'
        BY <2>2, <3>2, KindFixed, EntryUntouched DEF Next, ReceiverStep, sendorVars, ioVars
      <4>2. QED
        BY <2>2, <3>2, <4>1, BrokerReceiverStep
    <3>3. CASE BrokerRestarts
      BY <2>2, <3>3, EntryRestarts, BrokerRestartsStep
    <3>4. CASE UNCHANGED vars
      <4>1. /\ UNCHANGED <<kind, doc, rcv, arrived, link, declared>>
            /\ UNCHANGED <<queue, delivered, acking, handled>>
            /\ UNCHANGED <<outputBuffer, writer, pending, task, undefined>>
        BY <3>4 DEF vars, cfgVars, sendorVars, ioVars, receiverVars
      <4>2. EntryInv'
        BY <2>2, <4>1, EntryUntouched
      <4>3. BrokerInv'
        <5>1. /\ queue' \in Seq(Messages) /\ delivered' \in Seq(Messages)
              /\ acking' \in Seq(Messages) /\ handled' \in Seq(Messages)
          BY <2>2, <4>1 DEF BrokerInv
        <5>2. QED
          BY <2>2, <4>1, <5>1, BrokerKeeps
      <4>4. QED
        BY <4>2, <4>3
    <3>5. QED
      BY <3>1, <3>2, <3>3, <3>4 DEF Next
  <2>3. QED
    BY <2>1, <2>2
<1>3. Inv => WorkNeverLost
  <2> SUFFICES ASSUME kind = "work", BrokerInv
               PROVE  WorkNeverLost
    BY DEF WorkNeverLost
  <2>1. DOMAIN arrived = 1..Len(arrived)
    BY LenProperties DEF BrokerInv
  <2>2. QED
    BY <2>1 DEF BrokerInv, WorkNeverLost
<1>4. QED
  BY <1>1, <1>2, <1>3, PTL DEF SafeSpec
=============================================================================
