------------------------- MODULE TcpSslServerProofs -------------------------
(***************************************************************************)
(* Proofs about TcpSslServer for any number of handlers, posted tasks and  *)
(* writes: its variables have their types, the end of a connection is      *)
(* reported once, and a handler that deletes itself leaves nothing behind  *)
(* outside the two risky cases. Only where the completion of the handshake *)
(* stands in a handler's queue matters.                                    *)
(***************************************************************************)
EXTENDS TcpSslServer, SequenceTheorems, TLAPS

-----------------------------------------------------------------------------
(* Completions in a queue *)

Entries == Tasks \cup Completions

Pending(q) == \E i \in 1..Len(q) : q[i] \in Completions
Failed(q) == \E i \in 1..Len(q) : q[i] = "handshake failed"

\* At most one completion; a failed one is the last entry.
Single(q) == \A i, j \in 1..Len(q) : q[i] \in Completions /\ q[j] \in Completions => i = j
FailedLast(q) == \A i \in 1..Len(q) : q[i] = "handshake failed" => i = Len(q)

LEMMA EmptyQueue == /\ ~Pending(<<>>) /\ ~Failed(<<>>)
                    /\ Single(<<>>) /\ FailedLast(<<>>)
<1>1. Len(<<>>) = 0 /\ 1..0 = {}
  OBVIOUS
<1>2. QED
  BY <1>1, Zenon DEF Pending, Failed, Single, FailedLast

\* Running the head moves the other entries up.
LEMMA QueueTail ==
    ASSUME NEW q \in Seq(Entries), q # <<>>
    PROVE  /\ Tail(q) \in Seq(Entries)
           /\ Single(q) => Single(Tail(q))
           /\ Pending(Tail(q)) => Pending(q)
           /\ Failed(Tail(q)) => Failed(q)
           /\ FailedLast(q) => FailedLast(Tail(q))
           /\ Head(q) \in Completions => Pending(q)
           /\ Head(q) = "handshake failed" => Failed(q)
           /\ Head(q) \in Completions /\ Single(q) => ~Pending(Tail(q))
           /\ Head(q) = "handshake failed" /\ FailedLast(q) => Tail(q) = <<>>
<1> DEFINE rest == Tail(q)
<1>1. /\ rest \in Seq(Entries) /\ Len(rest) = Len(q) - 1
      /\ \A i \in 1..Len(rest) : rest[i] = q[i + 1]
  BY HeadTailProperties
<1> HIDE DEF rest
<1>2. /\ Len(q) \in Nat \ {0} /\ Head(q) = q[1] /\ 1 \in 1..Len(q)
  BY EmptySeq, LenProperties
<1>len. /\ Len(q) \in Nat /\ Len(rest) \in Nat
        /\ Len(rest) < Len(q) /\ ~(Len(rest) + 1 < Len(q))
  BY <1>1, <1>2, LenProperties
<1>3. \A i \in 1..Len(rest) : i + 1 \in 1..Len(q) /\ i + 1 # 1 /\ i \in Int
  BY <1>1, <1>2
<1>4. Single(q) => Single(rest)
  <2> SUFFICES ASSUME Single(q), NEW i \in 1..Len(rest), NEW j \in 1..Len(rest),
                      rest[i] \in Completions, rest[j] \in Completions
               PROVE  i = j
    BY DEF Single
  <2>1. q[i + 1] \in Completions /\ q[j + 1] \in Completions
    BY <1>1
  <2>2. i + 1 = j + 1
    BY <1>3, <2>1 DEF Single
  <2>3. QED
    BY <1>3, <2>2
<1>5. /\ Pending(rest) => Pending(q)
      /\ Failed(rest) => Failed(q)
  BY <1>1, <1>3 DEF Pending, Failed
<1>last. /\ \A i \in 1..Len(rest) : i + 1 = Len(q) => i = Len(rest)
         /\ Len(q) = 1 => rest = <<>>
  <2>1. Len(q) = 1 => Len(rest) = 0
    BY <1>len
  <2>2. \A i \in 1..Len(rest) : i + 1 = Len(q) => i = Len(rest)
    BY <1>len
  <2>3. QED
    BY <1>1, <2>1, <2>2, EmptySeq
<1>6. FailedLast(q) => FailedLast(rest)
  <2>1. FailedLast(q) => \A i \in 1..Len(rest) : rest[i] = "handshake failed" => i + 1 = Len(q)
    BY <1>1, <1>3 DEF FailedLast
  <2>2. QED
    BY <1>last, <2>1 DEF FailedLast
<1>7. /\ Head(q) \in Completions => Pending(q)
      /\ Head(q) = "handshake failed" => Failed(q)
  BY <1>2 DEF Pending, Failed
<1>8. Head(q) \in Completions /\ Single(q) => ~Pending(rest)
  BY <1>1, <1>2, <1>3 DEF Single, Pending
<1>9. Head(q) = "handshake failed" /\ FailedLast(q) => rest = <<>>
  <2>1. Head(q) = "handshake failed" /\ FailedLast(q) => Len(q) = 1
    BY <1>2 DEF FailedLast
  <2>2. QED
    BY <1>last, <2>1
<1>10. QED
  BY <1>1, <1>4, <1>5, <1>6, <1>7, <1>8, <1>9 DEF rest

\* Posting a task adds no completion.
LEMMA QueueTask ==
    ASSUME NEW q \in Seq(Entries), NEW task \in Tasks
    PROVE  /\ Append(q, task) \in Seq(Entries)
           /\ Single(q) => Single(Append(q, task))
           /\ Pending(Append(q, task)) => Pending(q)
           /\ Failed(Append(q, task)) => Failed(q)
<1> DEFINE longer == Append(q, task)
<1>1. /\ longer \in Seq(Entries) /\ Len(longer) = Len(q) + 1
      /\ \A i \in 1..Len(q) : longer[i] = q[i]
      /\ longer[Len(q) + 1] = task
  BY AppendProperties DEF Entries
<1>2. Len(q) \in Nat /\ task \notin Completions
  BY LenProperties DEF Tasks, Completions
<1> HIDE DEF longer
<1>3. \A i \in 1..Len(longer) : longer[i] \in Completions => i \in 1..Len(q) /\ longer[i] = q[i]
  BY <1>1, <1>2
<1>4. "handshake failed" \in Completions
  BY DEF Completions
<1>5. Single(q) => Single(longer)
  BY <1>3 DEF Single
<1>6. Pending(longer) => Pending(q)
  BY <1>3 DEF Pending
<1>7. Failed(longer) => Failed(q)
  BY <1>3, <1>4 DEF Failed
<1>8. QED
  BY <1>1, <1>5, <1>6, <1>7 DEF longer

\* The handshake's completion is the only one and the last entry.
LEMMA QueueCompletion ==
    ASSUME NEW q \in Seq(Entries), ~Pending(q), NEW result \in Completions
    PROVE  /\ Append(q, result) \in Seq(Entries)
           /\ Single(Append(q, result))
           /\ FailedLast(Append(q, result))
<1> DEFINE longer == Append(q, result)
<1>1. /\ longer \in Seq(Entries) /\ Len(longer) = Len(q) + 1
      /\ \A i \in 1..Len(q) : longer[i] = q[i]
  BY AppendProperties DEF Entries
<1>2. Len(q) \in Nat
  BY LenProperties
<1> HIDE DEF longer
<1>3. \A i \in 1..Len(longer) : longer[i] \in Completions => i = Len(longer)
  BY <1>1, <1>2 DEF Pending
<1>4. "handshake failed" \in Completions
  BY DEF Completions
<1>5. Single(longer) /\ FailedLast(longer)
  BY <1>3, <1>4 DEF Single, FailedLast
<1>6. QED
  BY <1>1, <1>5 DEF longer
-----------------------------------------------------------------------------
(* The inductive invariant *)

\* The typing, without what it says of allocated handlers.
Shape ==
    /\ sets_ \subseteq Handlers /\ alive \subseteq Handlers /\ risky \subseteq Handlers
    /\ is_valid_ \in [Handlers -> BOOLEAN]
    /\ is_authentication_pass_ \in [Handlers -> BOOLEAN]
    /\ heard \in [Handlers -> {"fresh", "stale"}]
    /\ socket_ \in [Handlers -> {"open", "closed"}]
    /\ handshake \in [Handlers -> BOOLEAN]
    /\ reading \in [Handlers -> {"none", "header", "body"}]
    /\ queue \in [Handlers -> Seq(Tasks \cup Completions)]
    /\ writing \in [Handlers -> Nat]
    /\ closes \in [Handlers -> Nat]
    /\ crashed \in BOOLEAN

\* The first is what ClosedOnce says. A handler goes from its handshake to the one
\* queued completion and from there to its reads or to its end. Outside the risky
\* cases the failed completion is the last thing that waits for the handler.
HandlerInv(h) ==
    /\ closes[h] = IF is_valid_[h] THEN 0 ELSE 1
    /\ h \in sets_ => h \in alive /\ is_valid_[h]
    /\ Single(queue[h])
    /\ handshake[h] => h \in alive /\ reading[h] = "none"
    /\ reading[h] # "none" => h \in alive
    /\ Pending(queue[h]) => h \in alive /\ ~handshake[h] /\ reading[h] = "none"
    /\ h \notin risky =>
         /\ h \notin alive => queue[h] = <<>> /\ writing[h] = 0
         /\ Failed(queue[h]) => FailedLast(queue[h]) /\ writing[h] = 0

SslInv == Shape /\ \A h \in Handlers : HandlerInv(h)

\* What a step does not do to other handlers.
Same(h) ==
    /\ closes'[h] = closes[h] /\ is_valid_'[h] = is_valid_[h]
    /\ handshake'[h] = handshake[h] /\ reading'[h] = reading[h]
    /\ queue'[h] = queue[h] /\ writing'[h] = writing[h]
    /\ h \in sets_' => h \in sets_
    /\ h \in alive' <=> h \in alive
    /\ h \in risky => h \in risky'

LEMMA SameKeeps ==
    ASSUME NEW h \in Handlers, HandlerInv(h), Same(h)
    PROVE  HandlerInv(h)'
BY DEF HandlerInv, Same

\* A step of one handler.
LEMMA OneHandlerStep ==
    ASSUME SslInv, Shape', NEW h \in Handlers, HandlerInv(h)',
           \A g \in Handlers \ {h} : Same(g)
    PROVE  SslInv'
BY SameKeeps DEF SslInv

LEMMA SslInvInit == Init => SslInv
<1> SUFFICES ASSUME Init PROVE SslInv
  OBVIOUS
<1>1. <<>> \in Seq(Tasks \cup Completions)
  OBVIOUS
<1>2. Shape
  BY <1>1 DEF Init, Shape
<1>3. ASSUME NEW h \in Handlers PROVE HandlerInv(h)
  <2>1. queue[h] = <<>> /\ writing[h] = 0
    BY DEF Init
  <2>2. Single(queue[h]) /\ ~Pending(queue[h]) /\ ~Failed(queue[h])
    BY <2>1, EmptyQueue
  <2>3. QED
    BY <2>1, <2>2 DEF Init, HandlerInv
<1>4. QED
  BY <1>2, <1>3 DEF SslInv

LEMMA SslInvImplies == SslInv => TypeOK /\ ClosedOnce /\ DanglingOnlyIfRisky
<1> SUFFICES ASSUME SslInv PROVE TypeOK /\ ClosedOnce /\ DanglingOnlyIfRisky
  OBVIOUS
<1>1. TypeOK
  BY DEF SslInv, Shape, HandlerInv, TypeOK
<1>2. ClosedOnce
  BY DEF SslInv, HandlerInv, ClosedOnce
<1>3. DanglingOnlyIfRisky
  BY DEF SslInv, HandlerInv, DanglingOnlyIfRisky, Dangling
<1>4. QED
  BY <1>1, <1>2, <1>3

LEMMA DoomedIsFailed ==
    ASSUME Shape, NEW h \in Handlers
    PROVE  Doomed(h) <=> Failed(queue[h])
<1>1. queue[h] \in Seq(Entries)
  BY DEF Shape, Entries
<1>2. DOMAIN queue[h] = 1..Len(queue[h])
  BY <1>1, LenProperties
<1>3. QED
  BY <1>2 DEF Doomed, Failed

-----------------------------------------------------------------------------
(* Posting *)

\* A task is posted to the handlers of S, each of them allocated.
LEMMA PostStep ==
    ASSUME SslInv, NEW S \in SUBSET alive, NEW task \in Tasks, Post(S, task),
           UNCHANGED <<closeVars, alive, handshake, reading, writing>>
    PROVE  /\ queue' \in [Handlers -> Seq(Tasks \cup Completions)]
           /\ risky' \subseteq Handlers
           /\ \A h \in Handlers : HandlerInv(h)'
<1>1. S \subseteq Handlers /\ Shape
  BY DEF SslInv, Shape
<1>2. ASSUME NEW h \in Handlers
      PROVE  queue[h] \in Seq(Entries) /\ Append(queue[h], task) \in Seq(Entries)
  BY <1>1, QueueTask DEF Shape, Entries
<1>3. queue' \in [Handlers -> Seq(Tasks \cup Completions)]
  BY <1>2 DEF Post, Entries
<1>4. risky' \subseteq Handlers
  BY <1>1 DEF Post, Shape
<1>5. ASSUME NEW h \in Handlers PROVE HandlerInv(h)'
  <2>0. HandlerInv(h)
    BY DEF SslInv
  <2>1. CASE h \notin S
    <3>1. Same(h)
      BY <2>1 DEF Post, Same, closeVars
    <3>2. QED
      BY <2>0, <3>1, SameKeeps
  <2>2. CASE h \in S
    <3>1. queue'[h] = Append(queue[h], task) /\ h \in alive
      BY <2>2 DEF Post
    <3>2. /\ Single(queue[h]) => Single(queue'[h])
          /\ Pending(queue'[h]) => Pending(queue[h])
          /\ Failed(queue'[h]) => Failed(queue[h])
      BY <1>2, <3>1, QueueTask
    <3>3. /\ h \in risky => h \in risky'
          /\ h \notin risky' => ~Failed(queue[h])
      BY <1>1, <2>2, DoomedIsFailed DEF Post
    <3>4. QED
      BY <2>0, <3>1, <3>2, <3>3 DEF HandlerInv, closeVars
  <2>3. QED
    BY <2>1, <2>2
<1>6. QED
  BY <1>3, <1>4, <1>5

LEMMA LookStep ==
    ASSUME SslInv, NEW S \in SUBSET sets_, LookAt(S)
    PROVE  SslInv'
<1>1. S \subseteq alive
  BY DEF SslInv, HandlerInv, Shape
<1>2. PICK T \in SUBSET S : Post(T, "close")
  <2>1. PICK late \in SUBSET {h \in S : heard[h] = "fresh"} :
            Post({h \in late \cup {g \in S : heard[g] = "stale"} : Len(queue[h]) + 1 < MaxPosted},
                 "close")
    BY DEF LookAt
  <2>2. QED
    BY <2>1
<1>3. /\ queue' \in [Handlers -> Seq(Tasks \cup Completions)]
      /\ risky' \subseteq Handlers
      /\ \A h \in Handlers : HandlerInv(h)'
  <2>1. T \in SUBSET alive /\ "close" \in Tasks
    BY <1>1 DEF Tasks
  <2>2. UNCHANGED <<closeVars, alive, handshake, reading, writing>>
    BY DEF LookAt
  <2>3. QED
    BY <1>2, <2>1, <2>2, PostStep
<1>4. heard' \in [Handlers -> {"fresh", "stale"}]
  BY DEF LookAt, SslInv, Shape
<1>5. Shape'
  BY <1>3, <1>4 DEF LookAt, SslInv, Shape, closeVars
<1>6. QED
  BY <1>3, <1>5 DEF SslInv

LEMMA SendStep ==
    ASSUME SslInv, NEW h \in Handlers, NEW task \in Tasks, SendInThread(h, task)
    PROVE  SslInv'
<1>1. {h} \in SUBSET alive /\ Post({h}, task)
  BY DEF SendInThread, SslInv, HandlerInv
<1>2. UNCHANGED <<closeVars, timeVars, alive, socket_, handshake, reading, writing, crashed>>
  BY DEF SendInThread
<1>3. /\ queue' \in [Handlers -> Seq(Tasks \cup Completions)]
      /\ risky' \subseteq Handlers
      /\ \A g \in Handlers : HandlerInv(g)'
  BY <1>1, <1>2, PostStep
<1>4. Shape'
  BY <1>2, <1>3 DEF SslInv, Shape, closeVars, timeVars
<1>5. QED
  BY <1>3, <1>4 DEF SslInv

-----------------------------------------------------------------------------
(* The life of one handler *)

LEMMA AcceptStep ==
    ASSUME SslInv, NEW h \in Handlers, Accept(h) \/ AcceptRefused(h)
    PROVE  SslInv'
<1>1. /\ queue[h] = <<>> /\ writing[h] = 0 /\ h \notin alive
  BY DEF Accept, AcceptRefused, Dangling, SslInv, Shape
<1>2. reading[h] = "none" /\ ~handshake[h] /\ h \notin sets_
  BY <1>1 DEF SslInv, HandlerInv
<1>3. Shape'
  <2>1. CASE Accept(h)
    BY <2>1 DEF Accept, SslInv, Shape
  <2>2. CASE AcceptRefused(h)
    BY <2>2 DEF AcceptRefused, SslInv, Shape, timeVars
  <2>3. QED
    BY <2>1, <2>2
<1>4. \A g \in Handlers \ {h} : Same(g)
  BY DEF Accept, AcceptRefused, SslInv, Shape, Same, closeVars, timeVars
<1>5. UNCHANGED <<queue, writing, reading>>
  BY DEF Accept, AcceptRefused
<1>6. /\ Single(queue'[h]) /\ ~Pending(queue'[h]) /\ ~Failed(queue'[h])
      /\ reading'[h] = "none" /\ h \in alive' /\ is_valid_'[h] = TRUE /\ closes'[h] = 0
  BY <1>1, <1>2, <1>5, EmptyQueue DEF Accept, AcceptRefused, SslInv, Shape
<1>7. HandlerInv(h)'
  BY <1>6 DEF HandlerInv
<1>8. QED
  BY <1>3, <1>4, <1>7, OneHandlerStep

\* The completion of the handshake is queued; a write in progress makes it risky.
LEMMA HandshakeEndsStep ==
    ASSUME SslInv, NEW h \in Handlers, HandshakeEnds(h)
    PROVE  SslInv'
<1>1. /\ h \in alive /\ reading[h] = "none" /\ ~Pending(queue[h])
      /\ HandlerInv(h)
  BY DEF HandshakeEnds, SslInv, HandlerInv
<1>2. PICK result \in Completions : queue' = [queue EXCEPT ![h] = Append(@, result)]
  BY DEF HandshakeEnds
<1>3. queue[h] \in Seq(Entries)
  BY DEF SslInv, Shape, Entries
<1>4. /\ Append(queue[h], result) \in Seq(Entries)
      /\ Single(Append(queue[h], result)) /\ FailedLast(Append(queue[h], result))
  BY <1>1, <1>3, QueueCompletion
<1>5. /\ queue' \in [Handlers -> Seq(Tasks \cup Completions)]
      /\ Single(queue'[h]) /\ FailedLast(queue'[h])
  BY <1>2, <1>4 DEF SslInv, Shape, Entries
<1>6. /\ handshake'[h] = FALSE
      /\ h \notin risky' => writing[h] = 0
      /\ risky' \subseteq Handlers
      /\ handshake' \in [Handlers -> BOOLEAN]
      /\ UNCHANGED <<closeVars, timeVars, alive, socket_, reading, writing, crashed>>
  BY DEF HandshakeEnds, SslInv, Shape
<1>7. Shape'
  BY <1>5, <1>6 DEF SslInv, Shape, closeVars, timeVars
<1>8. \A g \in Handlers \ {h} : Same(g)
  BY <1>2, <1>6 DEF HandshakeEnds, SslInv, Shape, Same, closeVars
<1>9. HandlerInv(h)'
  BY <1>1, <1>5, <1>6 DEF HandlerInv, closeVars
<1>10. QED
  BY <1>7, <1>8, <1>9, OneHandlerStep

\* The head of the queue of h is taken away; nothing else of the handlers changes.
LEMMA RunHead ==
    ASSUME SslInv, NEW h \in Handlers, queue[h] # <<>>,
           queue' = [queue EXCEPT ![h] = Tail(@)]
    PROVE  /\ queue' \in [Handlers -> Seq(Tasks \cup Completions)]
           /\ \A g \in Handlers \ {h} : queue'[g] = queue[g]
           /\ queue'[h] = Tail(queue[h])
           /\ Single(queue'[h])
           /\ Pending(queue'[h]) => Pending(queue[h])
           /\ Failed(queue'[h]) => Failed(queue[h])
           /\ FailedLast(queue[h]) => FailedLast(queue'[h])
           /\ Head(queue[h]) \in Completions => Pending(queue[h]) /\ ~Pending(queue'[h])
           /\ Head(queue[h]) = "handshake failed" =>
                  /\ Failed(queue[h])
                  /\ FailedLast(queue[h]) => queue'[h] = <<>>
<1>1. queue[h] \in Seq(Entries) /\ Single(queue[h])
  BY DEF SslInv, Shape, Entries, HandlerInv
<1>2. /\ Tail(queue[h]) \in Seq(Entries)
      /\ queue'[h] = Tail(queue[h])
      /\ \A g \in Handlers \ {h} : queue'[g] = queue[g]
      /\ queue' \in [Handlers -> Seq(Tasks \cup Completions)]
  <2>1. Tail(queue[h]) \in Seq(Entries)
    BY <1>1, QueueTail
  <2>2. QED
    BY <2>1 DEF SslInv, Shape, Entries
<1>3. QED
  BY <1>1, <1>2, QueueTail

\* A queue without completion has no failed one.
LEMMA FailedIsPending == ASSUME NEW q PROVE Failed(q) => Pending(q)
BY DEF Failed, Pending, Completions

LEMMA HandshakeOkStep ==
    ASSUME SslInv, NEW h \in Handlers, HandshakeOk(h)
    PROVE  SslInv'
<1>1. /\ queue[h] # <<>> /\ h \in alive /\ Head(queue[h]) \in Completions
      /\ queue' = [queue EXCEPT ![h] = Tail(@)]
  BY DEF HandshakeOk, Run, Completions
<1>2. /\ queue' \in [Handlers -> Seq(Tasks \cup Completions)]
      /\ \A g \in Handlers \ {h} : queue'[g] = queue[g]
      /\ Single(queue'[h]) /\ Pending(queue[h]) /\ ~Pending(queue'[h])
  BY <1>1, RunHead
<1>3. ~Failed(queue'[h])
  BY <1>2, FailedIsPending
<1>4. /\ UNCHANGED <<closeVars, timeVars, alive, socket_, handshake, writing, risky, crashed>>
      /\ reading' \in [Handlers -> {"none", "header", "body"}]
      /\ \A g \in Handlers \ {h} : reading'[g] = reading[g]
  BY DEF HandshakeOk, SslInv, Shape
<1>5. Shape'
  BY <1>2, <1>4 DEF SslInv, Shape, closeVars, timeVars
<1>6. \A g \in Handlers \ {h} : Same(g)
  BY <1>2, <1>4 DEF Same, closeVars
<1>7. HandlerInv(h)'
  BY <1>1, <1>2, <1>3, <1>4 DEF SslInv, HandlerInv, closeVars
<1>8. QED
  BY <1>5, <1>6, <1>7, OneHandlerStep

\* CloseCompleted of a valid handler, or nothing of a closed one: it is closed once.
LEMMA CloseOnce ==
    ASSUME SslInv, NEW h \in Handlers,
           (is_valid_[h] /\ CloseCompleted(h)) \/ (~is_valid_[h] /\ UNCHANGED closeVars)
    PROVE  /\ closes'[h] = 1 /\ ~is_valid_'[h] /\ h \notin sets_'
           /\ sets_' \subseteq Handlers
           /\ is_valid_' \in [Handlers -> BOOLEAN] /\ closes' \in [Handlers -> Nat]
           /\ \A g \in Handlers \ {h} : /\ closes'[g] = closes[g]
                                        /\ is_valid_'[g] = is_valid_[g]
                                        /\ g \in sets_' => g \in sets_
<1>1. CASE is_valid_[h] /\ CloseCompleted(h)
  <2>1. closes[h] = 0
    BY <1>1 DEF SslInv, HandlerInv
  <2>2. QED
    BY <1>1, <2>1 DEF CloseCompleted, SslInv, Shape
<1>2. CASE ~is_valid_[h] /\ UNCHANGED closeVars
  <2>1. closes[h] = 1 /\ h \notin sets_
    BY <1>2 DEF SslInv, HandlerInv
  <2>2. QED
    BY <1>2, <2>1 DEF closeVars, SslInv, Shape
<1>3. QED
  BY <1>1, <1>2

\* The handler deletes itself: nothing waits for it, or it is risky.
LEMMA HandshakeFailedStep ==
    ASSUME SslInv, NEW h \in Handlers, HandshakeFailed(h)
    PROVE  SslInv'
<1>1. /\ queue[h] # <<>> /\ Head(queue[h]) = "handshake failed"
      /\ queue' = [queue EXCEPT ![h] = Tail(@)]
  BY DEF HandshakeFailed, Run
<1>2. Head(queue[h]) \in Completions
  BY <1>1 DEF Completions
<1>3. /\ queue' \in [Handlers -> Seq(Tasks \cup Completions)]
      /\ \A g \in Handlers \ {h} : queue'[g] = queue[g]
      /\ Single(queue'[h]) /\ Pending(queue[h]) /\ ~Pending(queue'[h])
      /\ Failed(queue[h])
      /\ FailedLast(queue[h]) => queue'[h] = <<>>
  BY <1>1, <1>2, RunHead
<1>4. ~Failed(queue'[h])
  BY <1>3, FailedIsPending
<1>5. (is_valid_[h] /\ CloseCompleted(h)) \/ (~is_valid_[h] /\ UNCHANGED closeVars)
  BY Zenon DEF HandshakeFailed
<1>6. /\ closes'[h] = 1 /\ ~is_valid_'[h] /\ h \notin sets_'
      /\ sets_' \subseteq Handlers
      /\ is_valid_' \in [Handlers -> BOOLEAN] /\ closes' \in [Handlers -> Nat]
      /\ \A g \in Handlers \ {h} : /\ closes'[g] = closes[g]
                                   /\ is_valid_'[g] = is_valid_[g]
                                   /\ g \in sets_' => g \in sets_
  BY <1>5, CloseOnce
<1>7. /\ UNCHANGED <<timeVars, handshake, reading, writing, risky, crashed>>
      /\ alive' = alive \ {h}
      /\ socket_' \in [Handlers -> {"open", "closed"}]
  BY DEF HandshakeFailed, SslInv, Shape
<1>8. Shape'
  BY <1>3, <1>6, <1>7 DEF SslInv, Shape, timeVars
<1>9. \A g \in Handlers \ {h} : Same(g)
  BY <1>3, <1>6, <1>7 DEF Same
<1>10. HandlerInv(h)'
  <2>1. ~handshake[h] /\ reading[h] = "none"
    BY <1>3 DEF SslInv, HandlerInv
  <2>2. h \notin risky => queue'[h] = <<>> /\ writing[h] = 0
    BY <1>3 DEF SslInv, HandlerInv
  <2>3. QED
    BY <1>3, <1>4, <1>6, <1>7, <2>1, <2>2 DEF HandlerInv
<1>11. QED
  BY <1>8, <1>9, <1>10, OneHandlerStep

\* A hook closes the socket: a handshake in progress fails, as in HandshakeEnds.
LEMMA CloseSocketStep ==
    ASSUME SslInv, NEW h \in Handlers, CloseSocket(h)
    PROVE  SslInv'
<1>1. /\ UNCHANGED <<closeVars, timeVars, alive, reading, writing, crashed>>
      /\ socket_' \in [Handlers -> {"open", "closed"}]
      /\ handshake' \in [Handlers -> BOOLEAN] /\ handshake'[h] = FALSE
      /\ \A g \in Handlers \ {h} : handshake'[g] = handshake[g]
      /\ queue[h] \in Seq(Entries) /\ HandlerInv(h)
  BY DEF CloseSocket, SslInv, Shape, Entries
<1>2. CASE handshake[h]
  <2>1. /\ h \in alive /\ reading[h] = "none" /\ ~Pending(queue[h])
        /\ "handshake failed" \in Completions
    BY <1>1, <1>2 DEF HandlerInv, Completions
  <2>2. queue' = [queue EXCEPT ![h] = Append(@, "handshake failed")]
    BY <1>2 DEF CloseSocket
  <2>3. /\ Append(queue[h], "handshake failed") \in Seq(Entries)
        /\ Single(Append(queue[h], "handshake failed"))
        /\ FailedLast(Append(queue[h], "handshake failed"))
    BY <1>1, <2>1, QueueCompletion
  <2>4. /\ queue' \in [Handlers -> Seq(Tasks \cup Completions)]
        /\ Single(queue'[h]) /\ FailedLast(queue'[h])
        /\ \A g \in Handlers \ {h} : queue'[g] = queue[g]
    BY <2>2, <2>3 DEF SslInv, Shape, Entries
  <2>5. risky' = IF writing[h] > 0 THEN risky \cup {h} ELSE risky
    BY <1>2 DEF CloseSocket
  <2>6. /\ h \notin risky' => writing[h] = 0
        /\ risky' \subseteq Handlers /\ risky \subseteq risky'
    BY <2>5 DEF SslInv, Shape
  <2>7. Shape'
    BY <1>1, <2>4, <2>6 DEF SslInv, Shape, closeVars, timeVars
  <2>8. \A g \in Handlers \ {h} : Same(g)
    BY <1>1, <2>4, <2>6 DEF Same, closeVars
  <2>9. HandlerInv(h)'
    BY <1>1, <2>1, <2>4, <2>6 DEF HandlerInv, closeVars
  <2>10. QED
    BY <2>7, <2>8, <2>9, OneHandlerStep
<1>3. CASE ~handshake[h]
  <2>1. risky' = risky
    BY <1>3 DEF CloseSocket
  <2>2. queue' = queue
    <3>1. queue' = [queue EXCEPT ![h] = queue[h]]
      BY <1>3 DEF CloseSocket
    <3>2. QED
      BY <3>1 DEF SslInv, Shape
  <2>3. Shape'
    BY <1>1, <2>1, <2>2 DEF SslInv, Shape, closeVars, timeVars
  <2>4. \A g \in Handlers \ {h} : Same(g)
    BY <1>1, <2>1, <2>2 DEF Same, closeVars
  <2>5. HandlerInv(h)'
    BY <1>1, <1>3, <2>1, <2>2 DEF HandlerInv, closeVars
  <2>6. QED
    BY <2>3, <2>4, <2>5, OneHandlerStep
<1>4. QED
  BY <1>2, <1>3

\* A task that only leaves the queue, and perhaps starts a write.
LEMMA SendTaskStep ==
    ASSUME SslInv, NEW h \in Handlers, ActiveSendHeartjump(h) \/ ActiveSendData(h)
    PROVE  SslInv'
<1>1. /\ queue[h] # <<>> /\ h \in alive
      /\ queue' = [queue EXCEPT ![h] = Tail(@)]
      /\ UNCHANGED <<closeVars, timeVars, alive, socket_, handshake, reading, crashed>>
  BY DEF ActiveSendHeartjump, ActiveSendData, Run
<1>2. /\ queue' \in [Handlers -> Seq(Tasks \cup Completions)]
      /\ \A g \in Handlers \ {h} : queue'[g] = queue[g]
      /\ Single(queue'[h])
      /\ Pending(queue'[h]) => Pending(queue[h])
      /\ Failed(queue'[h]) => Failed(queue[h])
      /\ FailedLast(queue[h]) => FailedLast(queue'[h])
  BY <1>1, RunHead
<1>3. /\ writing' \in [Handlers -> Nat]
      /\ \A g \in Handlers \ {h} : writing'[g] = writing[g]
      /\ risky' \subseteq Handlers /\ risky \subseteq risky'
      /\ h \notin risky' => writing'[h] = writing[h] \/ ~Failed(queue[h])
  <2>1. CASE UNCHANGED <<writing, risky>>
    BY <2>1 DEF SslInv, Shape
  <2>2. CASE /\ writing' = [writing EXCEPT ![h] = @ + 1]
             /\ risky' = IF Doomed(h) THEN risky \cup {h} ELSE risky
    <3>1. Doomed(h) <=> Failed(queue[h])
      BY DoomedIsFailed DEF SslInv
    <3>2. QED
      BY <2>2, <3>1 DEF SslInv, Shape
  <2>3. QED
    BY <2>1, <2>2 DEF ActiveSendHeartjump, ActiveSendData
<1>4. Shape'
  BY <1>1, <1>2, <1>3 DEF SslInv, Shape, closeVars, timeVars
<1>5. \A g \in Handlers \ {h} : Same(g)
  BY <1>1, <1>2, <1>3 DEF Same, closeVars
<1>6. HandlerInv(h)'
  BY <1>1, <1>2, <1>3 DEF SslInv, HandlerInv, closeVars
<1>7. QED
  BY <1>4, <1>5, <1>6, OneHandlerStep

\* The close cancels a handshake, whose completion goes to the end of the queue.
LEMMA ActiveCloseStep ==
    ASSUME SslInv, NEW h \in Handlers, ActiveClose(h)
    PROVE  SslInv'
<1>1. /\ queue[h] # <<>> /\ h \in alive /\ queue[h] \in Seq(Entries) /\ HandlerInv(h)
      /\ UNCHANGED <<timeVars, alive, reading, writing, crashed>>
  BY DEF ActiveClose, Run, SslInv, Shape, Entries
<1>2. /\ (is_valid_[h] /\ CloseCompleted(h)) \/ (~is_valid_[h] /\ UNCHANGED closeVars)
      /\ is_valid_[h] => /\ socket_' = [socket_ EXCEPT ![h] = "closed"]
                         /\ handshake' = [handshake EXCEPT ![h] = FALSE]
                         /\ queue' = [queue EXCEPT ![h] = IF handshake[h]
                                         THEN Append(Tail(@), "handshake failed") ELSE Tail(@)]
                         /\ risky' = IF handshake[h] /\ writing[h] > 0 THEN risky \cup {h} ELSE risky
      /\ ~is_valid_[h] => /\ queue' = [queue EXCEPT ![h] = Tail(@)]
                          /\ UNCHANGED <<socket_, handshake, risky>>
  BY Zenon DEF ActiveClose
<1>3. /\ closes'[h] = 1 /\ ~is_valid_'[h] /\ h \notin sets_'
      /\ sets_' \subseteq Handlers
      /\ is_valid_' \in [Handlers -> BOOLEAN] /\ closes' \in [Handlers -> Nat]
      /\ \A g \in Handlers \ {h} : /\ closes'[g] = closes[g]
                                   /\ is_valid_'[g] = is_valid_[g]
                                   /\ g \in sets_' => g \in sets_
  BY <1>2, CloseOnce
<1>4. CASE is_valid_[h] /\ handshake[h]
  <2>1. /\ reading[h] = "none" /\ ~Pending(queue[h])
        /\ "handshake failed" \in Completions
    BY <1>1, <1>4 DEF HandlerInv, Completions
  <2>2. /\ Tail(queue[h]) \in Seq(Entries)
        /\ Pending(Tail(queue[h])) => Pending(queue[h])
    BY <1>1, QueueTail
  <2>3. /\ Append(Tail(queue[h]), "handshake failed") \in Seq(Entries)
        /\ Single(Append(Tail(queue[h]), "handshake failed"))
        /\ FailedLast(Append(Tail(queue[h]), "handshake failed"))
    BY <2>1, <2>2, QueueCompletion
  <2>4. queue' = [queue EXCEPT ![h] = Append(Tail(@), "handshake failed")]
    BY <1>2, <1>4
  <2>5. /\ queue' \in [Handlers -> Seq(Tasks \cup Completions)]
        /\ Single(queue'[h]) /\ FailedLast(queue'[h])
        /\ \A g \in Handlers \ {h} : queue'[g] = queue[g]
    BY <2>3, <2>4 DEF SslInv, Shape, Entries
  <2>6. risky' = IF writing[h] > 0 THEN risky \cup {h} ELSE risky
    BY <1>2, <1>4
  <2>7. /\ h \notin risky' => writing[h] = 0
        /\ risky' \subseteq Handlers /\ risky \subseteq risky'
    BY <2>6 DEF SslInv, Shape
  <2>8. /\ socket_' \in [Handlers -> {"open", "closed"}]
        /\ handshake' \in [Handlers -> BOOLEAN] /\ handshake'[h] = FALSE
        /\ \A g \in Handlers \ {h} : handshake'[g] = handshake[g]
    BY <1>2, <1>4 DEF SslInv, Shape
  <2>9. Shape'
    BY <1>1, <1>3, <2>5, <2>7, <2>8 DEF SslInv, Shape, timeVars
  <2>10. \A g \in Handlers \ {h} : Same(g)
    BY <1>1, <1>3, <2>5, <2>7, <2>8 DEF Same
  <2>11. HandlerInv(h)'
    BY <1>1, <1>3, <2>1, <2>5, <2>7, <2>8 DEF HandlerInv
  <2>12. QED
    BY <2>9, <2>10, <2>11, OneHandlerStep
<1>5. CASE ~(is_valid_[h] /\ handshake[h])
  <2>1. /\ queue' = [queue EXCEPT ![h] = Tail(@)]
        /\ risky' = risky
    BY <1>2, <1>5
  <2>2. /\ socket_' \in [Handlers -> {"open", "closed"}]
        /\ handshake' \in [Handlers -> BOOLEAN]
        /\ handshake'[h] => handshake[h]
        /\ \A g \in Handlers \ {h} : handshake'[g] = handshake[g]
    BY <1>2 DEF SslInv, Shape
  <2>3. /\ queue' \in [Handlers -> Seq(Tasks \cup Completions)]
        /\ \A g \in Handlers \ {h} : queue'[g] = queue[g]
        /\ Single(queue'[h])
        /\ Pending(queue'[h]) => Pending(queue[h])
        /\ Failed(queue'[h]) => Failed(queue[h])
        /\ FailedLast(queue[h]) => FailedLast(queue'[h])
    BY <1>1, <2>1, RunHead
  <2>4. Shape'
    BY <1>1, <1>3, <2>1, <2>2, <2>3 DEF SslInv, Shape, timeVars
  <2>5. \A g \in Handlers \ {h} : Same(g)
    BY <1>1, <1>3, <2>1, <2>2, <2>3 DEF Same
  <2>6. HandlerInv(h)'
    BY <1>1, <1>3, <2>1, <2>2, <2>3 DEF HandlerInv
  <2>7. QED
    BY <2>4, <2>5, <2>6, OneHandlerStep
<1>6. QED
  BY <1>4, <1>5

LEMMA ReadStep ==
    ASSUME SslInv, NEW h \in Handlers, ReadGoesOn(h) \/ ReadEnds(h)
    PROVE  SslInv'
<1>1. /\ UNCHANGED <<alive, handshake, queue, writing, risky, crashed>>
      /\ HandlerInv(h) /\ reading[h] # "none"
  BY DEF ReadGoesOn, ReadEnds, SslInv
<1>2. CASE ReadGoesOn(h)
  <2>1. UNCHANGED <<closeVars, socket_>>
    BY <1>2 DEF ReadGoesOn
  <2>2. /\ reading' \in [Handlers -> {"none", "header", "body"}]
        /\ \A g \in Handlers \ {h} : reading'[g] = reading[g]
    BY <1>2 DEF ReadGoesOn, SslInv, Shape
  <2>3. /\ is_authentication_pass_' \in [Handlers -> BOOLEAN]
        /\ heard' \in [Handlers -> {"fresh", "stale"}]
    <3>1. UNCHANGED timeVars \/ HookCalls(h)
      BY <1>2 DEF ReadGoesOn
    <3>2. QED
      BY <3>1 DEF HookCalls, SslInv, Shape, timeVars
  <2>4. Shape'
    BY <1>1, <2>1, <2>2, <2>3 DEF SslInv, Shape, closeVars
  <2>5. \A g \in Handlers \ {h} : Same(g)
    BY <1>1, <2>1, <2>2 DEF Same, closeVars
  <2>6. HandlerInv(h)'
    BY <1>1, <2>1 DEF HandlerInv, closeVars
  <2>7. QED
    BY <2>4, <2>5, <2>6, OneHandlerStep
<1>3. CASE ReadEnds(h)
  <2>1. (is_valid_[h] /\ CloseCompleted(h)) \/ (~is_valid_[h] /\ UNCHANGED closeVars)
    BY <1>3, Zenon DEF ReadEnds
  <2>2. /\ closes'[h] = 1 /\ ~is_valid_'[h] /\ h \notin sets_'
        /\ sets_' \subseteq Handlers
        /\ is_valid_' \in [Handlers -> BOOLEAN] /\ closes' \in [Handlers -> Nat]
        /\ \A g \in Handlers \ {h} : /\ closes'[g] = closes[g]
                                     /\ is_valid_'[g] = is_valid_[g]
                                     /\ g \in sets_' => g \in sets_
    BY <2>1, CloseOnce
  <2>3. /\ reading' \in [Handlers -> {"none", "header", "body"}] /\ reading'[h] = "none"
        /\ \A g \in Handlers \ {h} : reading'[g] = reading[g]
        /\ socket_' \in [Handlers -> {"open", "closed"}]
        /\ UNCHANGED timeVars
    BY <1>3 DEF ReadEnds, SslInv, Shape
  <2>4. Shape'
    BY <1>1, <2>2, <2>3 DEF SslInv, Shape, timeVars
  <2>5. \A g \in Handlers \ {h} : Same(g)
    BY <1>1, <2>2, <2>3 DEF Same
  <2>6. HandlerInv(h)'
    BY <1>1, <2>2, <2>3 DEF HandlerInv
  <2>7. QED
    BY <2>4, <2>5, <2>6, OneHandlerStep
<1>4. QED
  BY <1>2, <1>3

LEMMA WriteStep ==
    ASSUME SslInv, NEW h \in Handlers, WriteHandler(h)
    PROVE  SslInv'
<1>1. /\ UNCHANGED <<closeVars, timeVars, alive, socket_, handshake, reading, queue, risky, crashed>>
      /\ h \in alive /\ writing' = [writing EXCEPT ![h] = writing[h] - 1]
      /\ writing[h] \in Nat /\ writing[h] > 0
  BY DEF WriteHandler, SslInv, Shape
<1>2. writing[h] - 1 \in Nat
  BY <1>1
<1>3. /\ writing' \in [Handlers -> Nat]
      /\ \A g \in Handlers \ {h} : writing'[g] = writing[g]
  BY <1>1, <1>2 DEF SslInv, Shape
<1>4. Shape'
  BY <1>1, <1>3 DEF SslInv, Shape, closeVars, timeVars
<1>5. \A g \in Handlers \ {h} : Same(g)
  BY <1>1, <1>3 DEF Same, closeVars
<1>6. HandlerInv(h)'
  BY <1>1 DEF SslInv, HandlerInv, closeVars
<1>7. QED
  BY <1>4, <1>5, <1>6, OneHandlerStep

\* Only a risky handler is gone while something of it is left.
LEMMA StaleStep ==
    ASSUME SslInv, NEW h \in Handlers, RunStale(h)
    PROVE  SslInv'
<1>1. /\ UNCHANGED <<closeVars, timeVars, alive, socket_, handshake, reading, risky>>
      /\ crashed' \in BOOLEAN
      /\ h \notin alive /\ h \in risky /\ HandlerInv(h)
      /\ ~Pending(queue[h])
  BY DEF RunStale, Dangling, SslInv, HandlerInv
<1>2. CASE queue[h] # <<>> /\ queue' = [queue EXCEPT ![h] = Tail(@)] /\ UNCHANGED writing
  <2>1. /\ queue' \in [Handlers -> Seq(Tasks \cup Completions)]
        /\ \A g \in Handlers \ {h} : queue'[g] = queue[g]
        /\ Single(queue'[h])
        /\ Pending(queue'[h]) => Pending(queue[h])
    BY <1>2, RunHead
  <2>2. Shape'
    BY <1>1, <1>2, <2>1 DEF SslInv, Shape, closeVars, timeVars
  <2>3. \A g \in Handlers \ {h} : Same(g)
    BY <1>1, <1>2, <2>1 DEF Same, closeVars
  <2>4. HandlerInv(h)'
    BY <1>1, <2>1 DEF HandlerInv, closeVars
  <2>5. QED
    BY <2>2, <2>3, <2>4, OneHandlerStep
<1>3. CASE writing[h] > 0 /\ writing' = [writing EXCEPT ![h] = @ - 1] /\ UNCHANGED queue
  <2>1. writing[h] - 1 \in Nat
    BY <1>3 DEF SslInv, Shape
  <2>2. /\ writing' \in [Handlers -> Nat]
        /\ \A g \in Handlers \ {h} : writing'[g] = writing[g]
    BY <1>3, <2>1 DEF SslInv, Shape
  <2>3. Shape'
    BY <1>1, <1>3, <2>2 DEF SslInv, Shape, closeVars, timeVars
  <2>4. \A g \in Handlers \ {h} : Same(g)
    BY <1>1, <1>3, <2>2 DEF Same, closeVars
  <2>5. HandlerInv(h)'
    BY <1>1, <1>3 DEF HandlerInv, closeVars
  <2>6. QED
    BY <2>3, <2>4, <2>5, OneHandlerStep
<1>4. QED
  BY <1>2, <1>3 DEF RunStale

LEMMA SslInvStep == SslInv /\ [Next]_vars => SslInv'
<1> SUFFICES ASSUME SslInv, [Next]_vars PROVE SslInv'
  OBVIOUS
<1>1. CASE CheckAuthentication
  <2> DEFINE waiting == {h \in sets_ : ~is_authentication_pass_[h]}
  <2>1. waiting \in SUBSET sets_ /\ LookAt(waiting)
    BY <1>1 DEF CheckAuthentication
  <2> HIDE DEF waiting
  <2>2. QED
    BY <2>1, LookStep
<1>2. CASE CheckHeartjump
  <2> DEFINE authenticated == {h \in sets_ : is_authentication_pass_[h]}
  <2>1. authenticated \in SUBSET sets_ /\ LookAt(authenticated)
    BY <1>2 DEF CheckHeartjump
  <2> HIDE DEF authenticated
  <2>2. QED
    BY <2>1, LookStep
<1>3. ASSUME NEW h \in Handlers, NEW task \in Tasks, SendInThread(h, task)
      PROVE  SslInv'
  BY <1>3, SendStep
<1>4. ASSUME NEW h \in Handlers, Accept(h) \/ AcceptRefused(h)
      PROVE  SslInv'
  BY <1>4, AcceptStep
<1>5. ASSUME NEW h \in Handlers, HandshakeEnds(h)
      PROVE  SslInv'
  BY <1>5, HandshakeEndsStep
<1>6. ASSUME NEW h \in Handlers, CloseSocket(h)
      PROVE  SslInv'
  BY <1>6, CloseSocketStep
<1>7. ASSUME NEW h \in Handlers, RunTask(h)
      PROVE  SslInv'
  BY <1>7, HandshakeOkStep, HandshakeFailedStep, ActiveCloseStep, SendTaskStep DEF RunTask
<1>8. ASSUME NEW h \in Handlers, ReadGoesOn(h) \/ ReadEnds(h)
      PROVE  SslInv'
  BY <1>8, ReadStep
<1>9. ASSUME NEW h \in Handlers, WriteHandler(h) \/ RunStale(h)
      PROVE  SslInv'
  BY <1>9, WriteStep, StaleStep
<1>10. CASE UNCHANGED vars
  <2>1. Shape' /\ \A h \in Handlers : Same(h)
    BY <1>10 DEF vars, closeVars, timeVars, SslInv, Shape, Same
  <2>2. QED
    BY <2>1, SameKeeps DEF SslInv
<1>11. QED
  BY <1>1, <1>2, <1>3, <1>4, <1>5, <1>6, <1>7, <1>8, <1>9, <1>10 DEF Next, Step

-----------------------------------------------------------------------------
(* Theorems *)

LEMMA SslInvAlways == SafeSpec => []SslInv
BY SslInvInit, SslInvStep, PTL DEF SafeSpec

\* Every variable has its type; what handshakes and reads is allocated.
THEOREM TypeCorrect == SafeSpec => []TypeOK
<1>1. SslInv => TypeOK
  BY SslInvImplies
<1>2. QED
  BY <1>1, SslInvAlways, PTL

\* The end of a connection is reported once, and the manager never holds a
\* deleted handler.
THEOREM ReportedOnce == SafeSpec => []ClosedOnce
<1>1. SslInv => ClosedOnce
  BY SslInvImplies
<1>2. QED
  BY <1>1, SslInvAlways, PTL

\* A handler that deletes itself leaves a task or a write behind only if something
\* was posted behind its failed handshake or written during the handshake.
THEOREM DeletedCleanly == SafeSpec => []DanglingOnlyIfRisky
<1>1. SslInv => DanglingOnlyIfRisky
  BY SslInvImplies
<1>2. QED
  BY <1>1, SslInvAlways, PTL
=============================================================================
