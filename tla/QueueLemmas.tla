----------------------------- MODULE QueueLemmas -----------------------------
(***************************************************************************)
(* Facts about sequences that the proofs share: a queue kept beside the    *)
(* sequence of the items already popped from it, what a sequence holds, in *)
(* which order it holds it, and the least of a set of numbers.             *)
(***************************************************************************)
EXTENDS Integers, Sequences, SequencesExt, SequenceTheorems, WellFoundedInduction, TLAPS

\* Pushing to the queue appends to the whole history.
LEMMA PushAppends ==
    ASSUME NEW S, NEW popped \in Seq(S), NEW q \in Seq(S), NEW e \in S
    PROVE  popped \o Append(q, e) = Append(popped \o q, e)
<1>1. Append(q, e) = q \o <<e>>
  BY AppendIsConcat
<1>2. popped \o q \in Seq(S)
  BY ConcatProperties
<1>3. Append(popped \o q, e) = (popped \o q) \o <<e>>
  BY <1>2, AppendIsConcat
<1>4. <<e>> \in Seq(S)
  OBVIOUS
<1>5. QED
  BY <1>1, <1>3, <1>4, ConcatAssociative

\* Popping the head moves the border and leaves the whole history as it is.
LEMMA PopMoves ==
    ASSUME NEW S, NEW popped \in Seq(S), NEW q \in Seq(S), q # <<>>
    PROVE  /\ Head(q) \in S
           /\ Tail(q) \in Seq(S)
           /\ Append(popped, Head(q)) \o Tail(q) = popped \o q
           /\ Len(popped) < Len(popped \o q)
           /\ (popped \o q)[Len(popped) + 1] = Head(q)
<1>1. /\ Head(q) \in S /\ Tail(q) \in Seq(S) /\ Len(Tail(q)) = Len(q) - 1
      /\ \A k \in 1..Len(Tail(q)) : Tail(q)[k] = q[k + 1]
  BY HeadTailProperties
<1>2. Len(q) \in Nat \ {0} /\ Len(popped) \in Nat /\ Head(q) = q[1]
  BY EmptySeq, LenProperties
<1> DEFINE whole == popped \o q
           moved == Append(popped, Head(q)) \o Tail(q)
           front == Append(popped, Head(q))
<1>3. /\ whole \in Seq(S) /\ Len(whole) = Len(popped) + Len(q)
      /\ \A k \in 1..(Len(popped) + Len(q)) :
            whole[k] = IF k <= Len(popped) THEN popped[k] ELSE q[k - Len(popped)]
  BY ConcatProperties
<1>4. /\ front \in Seq(S) /\ Len(front) = Len(popped) + 1
      /\ \A k \in 1..Len(popped) : front[k] = popped[k]
      /\ front[Len(popped) + 1] = Head(q)
  BY <1>1, AppendProperties
<1>5. /\ moved \in Seq(S) /\ Len(moved) = Len(front) + Len(Tail(q))
      /\ \A k \in 1..(Len(front) + Len(Tail(q))) :
            moved[k] = IF k <= Len(front) THEN front[k] ELSE Tail(q)[k - Len(front)]
  BY <1>1, <1>4, ConcatProperties
<1>6. Len(moved) = Len(whole)
  BY <1>1, <1>2, <1>3, <1>4, <1>5
<1>7. ASSUME NEW k \in 1..Len(whole) PROVE moved[k] = whole[k]
  <2> HIDE DEF whole, moved, front
  <2>0. /\ k \in 1..(Len(popped) + Len(q)) /\ k \in 1..(Len(front) + Len(Tail(q)))
        /\ k \in Int /\ Len(front) \in Nat
    BY <1>1, <1>2, <1>3, <1>4
  <2>1. whole[k] = IF k <= Len(popped) THEN popped[k] ELSE q[k - Len(popped)]
    BY <2>0, <1>3
  <2>2. moved[k] = IF k <= Len(front) THEN front[k] ELSE Tail(q)[k - Len(front)]
    BY <2>0, <1>5
  <2>3. CASE k <= Len(popped)
    <3>1. k \in 1..Len(popped) /\ k <= Len(front)
      BY <2>0, <2>3, <1>2, <1>4
    <3>2. front[k] = popped[k]
      BY <3>1, <1>4
    <3>3. QED
      BY <2>1, <2>2, <2>3, <3>1, <3>2
  <2>4. CASE k = Len(popped) + 1
    <3>1. ~(k <= Len(popped)) /\ k <= Len(front) /\ k - Len(popped) = 1
      BY <2>4, <1>2, <1>4
    <3>2. front[k] = Head(q)
      BY <2>4, <1>4
    <3>3. QED
      BY <2>1, <2>2, <3>1, <3>2, <1>2
  <2>5. CASE k > Len(popped) + 1
    <3>1. ~(k <= Len(popped)) /\ ~(k <= Len(front))
      BY <2>0, <2>5, <1>2, <1>4
    <3>2. /\ k - Len(front) \in 1..Len(Tail(q))
          /\ k - Len(front) + 1 = k - Len(popped)
      BY <2>0, <2>5, <1>1, <1>2, <1>4
    <3>3. Tail(q)[k - Len(front)] = q[k - Len(popped)]
      BY <3>2, <1>1
    <3>4. QED
      BY <2>1, <2>2, <3>1, <3>3
  <2>6. QED
    BY <2>0, <2>3, <2>4, <2>5, <1>2
<1>8. moved = whole
  BY <1>3, <1>5, <1>6, <1>7, SeqEqual
<1>9. Len(popped) < Len(whole) /\ whole[Len(popped) + 1] = Head(q)
  BY <1>2, <1>3
<1>10. QED
  BY <1>1, <1>8, <1>9

-----------------------------------------------------------------------------
(* The elements of sequences *)

LEMMA ToSetAppend ==
    ASSUME NEW S, NEW s \in Seq(S), NEW x \in S
    PROVE  ToSet(Append(s, x)) = ToSet(s) \cup {x}
<1>1. /\ Len(Append(s, x)) = Len(s) + 1
      /\ \A i \in 1..Len(s) : Append(s, x)[i] = s[i]
      /\ Append(s, x)[Len(s) + 1] = x
      /\ Append(s, x) \in Seq(S)
  BY AppendProperties
<1>2. /\ DOMAIN Append(s, x) = 1..(Len(s) + 1)
      /\ DOMAIN s = 1..Len(s) /\ Len(s) \in Nat
  BY <1>1, LenProperties
<1>3. ASSUME NEW y \in ToSet(Append(s, x)) PROVE y \in ToSet(s) \cup {x}
  <2>1. PICK i \in 1..(Len(s) + 1) : y = Append(s, x)[i]
    BY <1>2, <1>3 DEF ToSet
  <2>2. CASE i = Len(s) + 1
    BY <1>1, <2>1, <2>2
  <2>3. CASE i \in 1..Len(s)
    BY <1>1, <1>2, <2>1, <2>3 DEF ToSet
  <2>4. QED
    BY <1>2, <2>2, <2>3
<1>4. ASSUME NEW y \in ToSet(s) PROVE y \in ToSet(Append(s, x))
  <2>1. PICK i \in 1..Len(s) : y = s[i]
    BY <1>2, <1>4 DEF ToSet
  <2>2. i \in 1..(Len(s) + 1) /\ y = Append(s, x)[i]
    BY <1>1, <1>2, <2>1
  <2>3. QED
    BY <1>2, <2>2 DEF ToSet
<1>5. x \in ToSet(Append(s, x))
  <2>1. Len(s) + 1 \in 1..(Len(s) + 1)
    BY <1>2
  <2>2. QED
    BY <1>1, <1>2, <2>1 DEF ToSet
<1>6. QED
  BY <1>3, <1>4, <1>5

LEMMA ToSetTail ==
    ASSUME NEW S, NEW s \in Seq(S), s # <<>>
    PROVE  /\ Head(s) \in S /\ Tail(s) \in Seq(S)
           /\ ToSet(s) = {Head(s)} \cup ToSet(Tail(s))
<1>1. /\ Head(s) \in S /\ Tail(s) \in Seq(S) /\ Len(Tail(s)) = Len(s) - 1
      /\ \A i \in 1..Len(Tail(s)) : Tail(s)[i] = s[i + 1]
  BY HeadTailProperties
<1>2. /\ DOMAIN s = 1..Len(s) /\ Len(s) \in Nat \ {0}
      /\ DOMAIN Tail(s) = 1..(Len(s) - 1) /\ Head(s) = s[1]
  BY <1>1, LenProperties, EmptySeq
<1>3. ASSUME NEW y \in ToSet(s) PROVE y \in {Head(s)} \cup ToSet(Tail(s))
  <2>1. PICK i \in 1..Len(s) : y = s[i]
    BY <1>2, <1>3 DEF ToSet
  <2>2. CASE i = 1
    BY <1>2, <2>1, <2>2
  <2>3. CASE i # 1
    <3>1. i - 1 \in 1..(Len(s) - 1) /\ (i - 1) + 1 = i
      BY <1>2, <2>3
    <3>2. y = Tail(s)[i - 1]
      BY <1>1, <2>1, <3>1
    <3>3. QED
      BY <1>2, <3>1, <3>2 DEF ToSet
  <2>4. QED
    BY <2>2, <2>3
<1>4. ASSUME NEW y \in ToSet(Tail(s)) PROVE y \in ToSet(s)
  <2>1. PICK i \in 1..(Len(s) - 1) : y = Tail(s)[i]
    BY <1>2, <1>4 DEF ToSet
  <2>2. i + 1 \in 1..Len(s) /\ y = s[i + 1]
    BY <1>1, <1>2, <2>1
  <2>3. QED
    BY <1>2, <2>2 DEF ToSet
<1>5. Head(s) \in ToSet(s)
  BY <1>2 DEF ToSet
<1>6. QED
  BY <1>1, <1>3, <1>4, <1>5

LEMMA ToSetConcat ==
    ASSUME NEW S, NEW s \in Seq(S), NEW t \in Seq(S)
    PROVE  s \o t \in Seq(S) /\ ToSet(s \o t) = ToSet(s) \cup ToSet(t)
<1>1. /\ s \o t \in Seq(S) /\ Len(s \o t) = Len(s) + Len(t)
      /\ \A i \in 1..(Len(s) + Len(t)) :
            (s \o t)[i] = IF i <= Len(s) THEN s[i] ELSE t[i - Len(s)]
  BY ConcatProperties
<1>2. /\ DOMAIN s = 1..Len(s) /\ Len(s) \in Nat
      /\ DOMAIN t = 1..Len(t) /\ Len(t) \in Nat
      /\ DOMAIN (s \o t) = 1..(Len(s) + Len(t))
  BY <1>1, LenProperties
<1>3. ASSUME NEW y \in ToSet(s \o t) PROVE y \in ToSet(s) \cup ToSet(t)
  <2>1. PICK i \in 1..(Len(s) + Len(t)) : y = (s \o t)[i]
    BY <1>2, <1>3 DEF ToSet
  <2>2. CASE i <= Len(s)
    BY <1>1, <1>2, <2>1, <2>2 DEF ToSet
  <2>3. CASE ~(i <= Len(s))
    <3>1. i - Len(s) \in 1..Len(t)
      BY <1>2, <2>3
    <3>2. y = t[i - Len(s)]
      BY <1>1, <2>1, <2>3
    <3>3. QED
      BY <1>2, <3>1, <3>2 DEF ToSet
  <2>4. QED
    BY <2>2, <2>3
<1>4. ASSUME NEW y \in ToSet(s) PROVE y \in ToSet(s \o t)
  <2>1. PICK i \in 1..Len(s) : y = s[i]
    BY <1>2, <1>4 DEF ToSet
  <2>2. i \in 1..(Len(s) + Len(t)) /\ y = (s \o t)[i]
    BY <1>1, <1>2, <2>1
  <2>3. QED
    BY <1>2, <2>2 DEF ToSet
<1>5. ASSUME NEW y \in ToSet(t) PROVE y \in ToSet(s \o t)
  <2>1. PICK i \in 1..Len(t) : y = t[i]
    BY <1>2, <1>5 DEF ToSet
  <2>2. /\ i + Len(s) \in 1..(Len(s) + Len(t))
        /\ ~(i + Len(s) <= Len(s)) /\ (i + Len(s)) - Len(s) = i
    BY <1>2
  <2>3. y = (s \o t)[i + Len(s)]
    BY <1>1, <2>1, <2>2
  <2>4. QED
    BY <1>2, <2>2, <2>3 DEF ToSet
<1>6. QED
  BY <1>1, <1>3, <1>4, <1>5

LEMMA ToSetOfSeq ==
    ASSUME NEW S, NEW s \in Seq(S)
    PROVE  /\ ToSet(s) \subseteq S
           /\ \A i \in 1..Len(s) : s[i] \in ToSet(s)
           /\ ToSet(s) = {s[i] : i \in 1..Len(s)}
<1>1. DOMAIN s = 1..Len(s) /\ \A i \in 1..Len(s) : s[i] \in S
  BY LenProperties, ElementOfSeq
<1>2. QED
  BY <1>1 DEF ToSet

LEMMA LastIsElement ==
    ASSUME NEW S, NEW h \in Seq(S), h # <<>>
    PROVE  Last(h) \in S /\ Last(h) \in ToSet(h)
<1>1. Len(h) \in 1..Len(h)
  BY EmptySeq, LenProperties
<1>2. QED
  BY <1>1, ElementOfSeq, ToSetOfSeq DEF Last

LEMMA LastOfAppend ==
    ASSUME NEW S, NEW h \in Seq(S), NEW x \in S
    PROVE  Last(Append(h, x)) = x /\ Append(h, x) # <<>> /\ Append(h, x) \in Seq(S)
<1>1. /\ Append(h, x) \in Seq(S) /\ Len(Append(h, x)) = Len(h) + 1
      /\ Append(h, x)[Len(h) + 1] = x
  BY AppendProperties
<1>2. QED
  BY <1>1, EmptySeq, LenProperties DEF Last

LEMMA FirstAndRest ==
    ASSUME NEW S, NEW x \in S, NEW q \in Seq(S)
    PROVE  /\ <<x>> \o q \in Seq(S) /\ <<x>> \o q # <<>>
           /\ Head(<<x>> \o q) = x /\ Tail(<<x>> \o q) = q
<1> DEFINE one == <<x>>
           whole == one \o q
<1>1. one \in Seq(S) /\ Len(one) = 1 /\ one[1] = x
  OBVIOUS
<1>2. Len(q) \in Nat
  BY LenProperties
<1> HIDE DEF one
<1>3. /\ whole \in Seq(S) /\ Len(whole) = Len(one) + Len(q)
      /\ \A i \in 1..(Len(one) + Len(q)) :
            whole[i] = IF i <= Len(one) THEN one[i] ELSE q[i - Len(one)]
  BY <1>1, ConcatProperties
<1> HIDE DEF whole
<1>4. /\ Len(whole) = Len(q) + 1 /\ whole[1] = x
      /\ \A i \in 1..Len(q) : whole[i + 1] = q[i]
  <2>1. Len(whole) = Len(q) + 1 /\ 1 \in 1..(Len(one) + Len(q)) /\ 1 <= Len(one)
    BY <1>1, <1>2, <1>3
  <2>2. whole[1] = x
    BY <1>1, <1>3, <2>1
  <2>3. ASSUME NEW i \in 1..Len(q) PROVE whole[i + 1] = q[i]
    <3>1. /\ i + 1 \in 1..(Len(one) + Len(q)) /\ ~(i + 1 <= Len(one))
          /\ (i + 1) - Len(one) = i
      BY <1>1, <1>2
    <3>2. QED
      BY <1>3, <3>1
  <2>4. QED
    BY <2>1, <2>2, <2>3
<1>5. whole # <<>> /\ Head(whole) = x
  <2>1. whole # <<>>
    BY <1>2, <1>3, <1>4, EmptySeq
  <2>2. QED
    BY <1>3, <1>4, <2>1
<1>6. Tail(whole) = q
  <2>1. /\ Tail(whole) \in Seq(S) /\ Len(Tail(whole)) = Len(whole) - 1
        /\ \A i \in 1..Len(Tail(whole)) : Tail(whole)[i] = whole[i + 1]
    BY <1>3, <1>5, HeadTailProperties
  <2>2. Len(Tail(whole)) = Len(q)
    BY <1>2, <1>4, <2>1
  <2>3. \A i \in 1..Len(q) : Tail(whole)[i] = q[i]
    BY <1>4, <2>1, <2>2
  <2>4. QED
    BY <2>1, <2>2, <2>3, SeqEqual
<1>7. QED
  BY <1>3, <1>5, <1>6 DEF one, whole

-----------------------------------------------------------------------------
(* The order in which a sequence holds its elements *)

\* Every two elements of s, the earlier one first, are a pair of R.
Sorted(s, R) == \A i, j \in 1..Len(s) : i < j => <<s[i], s[j]>> \in R

\* A sequence is sorted if its parts are and nothing of the second belongs before
\* something of the first.
LEMMA SortedConcat ==
    ASSUME NEW S, NEW R, NEW s \in Seq(S), NEW t \in Seq(S)
    PROVE  Sorted(s \o t, R) <=>
             /\ Sorted(s, R) /\ Sorted(t, R)
             /\ \A x \in ToSet(s), y \in ToSet(t) : <<x, y>> \in R
<1> DEFINE st == s \o t
<1>1. /\ Len(st) = Len(s) + Len(t)
      /\ \A i \in 1..(Len(s) + Len(t)) :
            st[i] = IF i <= Len(s) THEN s[i] ELSE t[i - Len(s)]
      /\ Len(s) \in Nat /\ Len(t) \in Nat
  BY ConcatProperties, LenProperties
<1> HIDE DEF st
<1>2. \A i \in 1..Len(s) : i \in 1..Len(st) /\ st[i] = s[i]
  BY <1>1
<1>3. \A j \in 1..Len(t) : Len(s) + j \in 1..Len(st) /\ st[Len(s) + j] = t[j]
  <2> TAKE j \in 1..Len(t)
  <2>1. /\ Len(s) + j \in 1..(Len(s) + Len(t)) /\ ~(Len(s) + j <= Len(s))
        /\ (Len(s) + j) - Len(s) = j
    BY <1>1
  <2>2. QED
    BY <1>1, <2>1
<1>4. ASSUME Sorted(st, R)
      PROVE  /\ Sorted(s, R) /\ Sorted(t, R)
             /\ \A x \in ToSet(s), y \in ToSet(t) : <<x, y>> \in R
  <2>1. Sorted(s, R)
    BY <1>2, <1>4 DEF Sorted
  <2>2. Sorted(t, R)
    <3>1. ASSUME NEW i \in 1..Len(t), NEW j \in 1..Len(t), i < j
          PROVE  <<t[i], t[j]>> \in R
      <4>1. Len(s) + i < Len(s) + j
        BY <1>1, <3>1
      <4>2. QED
        BY <1>3, <1>4, <3>1, <4>1 DEF Sorted
    <3>2. QED
      BY <3>1 DEF Sorted
  <2>3. ASSUME NEW x \in ToSet(s), NEW y \in ToSet(t)
        PROVE  <<x, y>> \in R
    <3>1. PICK i \in 1..Len(s), j \in 1..Len(t) : x = s[i] /\ y = t[j]
      BY ToSetOfSeq
    <3>2. i < Len(s) + j
      BY <1>1
    <3>3. QED
      BY <1>2, <1>3, <1>4, <3>1, <3>2 DEF Sorted
  <2>4. QED
    BY <2>1, <2>2, <2>3
<1>5. ASSUME Sorted(s, R), Sorted(t, R), \A x \in ToSet(s), y \in ToSet(t) : <<x, y>> \in R
      PROVE  Sorted(st, R)
  <2> SUFFICES ASSUME NEW i \in 1..Len(st), NEW j \in 1..Len(st), i < j
               PROVE  <<st[i], st[j]>> \in R
    BY DEF Sorted
  <2>1. \A k \in 1..Len(st) : \/ k \in 1..Len(s)
                              \/ k - Len(s) \in 1..Len(t) /\ k = Len(s) + (k - Len(s))
    BY <1>1
  <2>2. CASE j \in 1..Len(s)
    <3>1. i \in 1..Len(s)
      BY <1>1, <2>2
    <3>2. QED
      BY <1>2, <1>5, <2>2, <3>1 DEF Sorted
  <2>3. CASE j \notin 1..Len(s)
    <3>1. /\ j - Len(s) \in 1..Len(t)
          /\ st[j] = t[j - Len(s)]
      BY <1>3, <2>1, <2>3
    <3>2. CASE i \in 1..Len(s)
      BY <1>2, <1>5, <3>1, <3>2, ToSetOfSeq
    <3>3. CASE i \notin 1..Len(s)
      <4>1. /\ i - Len(s) \in 1..Len(t)
            /\ st[i] = t[i - Len(s)]
        BY <1>3, <2>1, <3>3
      <4>2. i - Len(s) < j - Len(s)
        BY <1>1
      <4>3. QED
        BY <1>5, <3>1, <4>1, <4>2 DEF Sorted
    <3>4. QED
      BY <3>2, <3>3
  <2>4. QED
    BY <2>2, <2>3
<1>6. QED
  BY <1>4, <1>5 DEF st

LEMMA SortedAppend ==
    ASSUME NEW S, NEW R, NEW s \in Seq(S), NEW x \in S, Sorted(s, R),
           \A y \in ToSet(s) : <<y, x>> \in R
    PROVE  Sorted(Append(s, x), R)
<1>1. Append(s, x) = s \o <<x>> /\ <<x>> \in Seq(S)
  BY AppendIsConcat
<1>2. Len(<<x>>) = 1 /\ <<x>>[1] = x
  OBVIOUS
<1>3. Sorted(<<x>>, R) /\ ToSet(<<x>>) = {x}
  <2> DEFINE one == <<x>>
  <2>1. one \in Seq(S) /\ Len(one) = 1 /\ one[1] = x
    BY <1>1
  <2> HIDE DEF one
  <2>2. ToSet(one) = {x}
    <3>1. ToSet(one) = {one[i] : i \in 1..Len(one)}
      BY <2>1, ToSetOfSeq
    <3>2. 1..1 = {1}
      OBVIOUS
    <3>3. QED
      BY <2>1, <3>1, <3>2
  <2>3. Sorted(one, R)
    BY <2>1 DEF Sorted
  <2>4. QED
    BY <2>2, <2>3 DEF one
<1>4. QED
  BY <1>1, <1>3, SortedConcat

LEMMA SortedTail ==
    ASSUME NEW S, NEW R, NEW s \in Seq(S), s # <<>>, Sorted(s, R)
    PROVE  /\ Sorted(Tail(s), R)
           /\ \A y \in ToSet(Tail(s)) : <<Head(s), y>> \in R
<1> DEFINE t == Tail(s)
<1>1. /\ t \in Seq(S) /\ Len(t) = Len(s) - 1
      /\ \A i \in 1..Len(t) : t[i] = s[i + 1]
  BY HeadTailProperties
<1>2. Len(s) \in Nat \ {0} /\ Head(s) = s[1]
  BY LenProperties, EmptySeq
<1> HIDE DEF t
<1>3. \A i \in 1..Len(t) : i + 1 \in 1..Len(s) /\ 1 < i + 1
  BY <1>1, <1>2
<1>4. Sorted(t, R)
  <2>1. ASSUME NEW i \in 1..Len(t), NEW j \in 1..Len(t), i < j
        PROVE  <<t[i], t[j]>> \in R
    <3>1. i + 1 < j + 1
      BY <2>1
    <3>2. QED
      BY <1>1, <1>3, <3>1 DEF Sorted
  <2>2. QED
    BY <2>1 DEF Sorted
<1>5. ASSUME NEW y \in ToSet(t) PROVE <<Head(s), y>> \in R
  <2>1. PICK i \in 1..Len(t) : y = t[i]
    BY <1>1, ToSetOfSeq
  <2>2. 1 \in 1..Len(s)
    BY <1>2
  <2>3. QED
    BY <1>1, <1>2, <1>3, <2>1, <2>2 DEF Sorted
<1>6. QED
  BY <1>4, <1>5 DEF t

-----------------------------------------------------------------------------
(* Natural numbers *)

\* A set of numbers that is not empty has a least one.
LEMMA LeastExists ==
    ASSUME NEW N \in SUBSET Nat, N # {}
    PROVE  \E m \in N : \A n \in N : m <= n
<1> DEFINE Less == {pair \in Nat \X Nat : pair[1] < pair[2]}
<1>1. IsWellFoundedOn(Less, Nat)
  BY NatLessThanWellFounded DEF OpToRel
<1>2. PICK m \in N : \A n \in N : <<n, m>> \notin Less
  <2> HIDE DEF Less
  <2> QED
    BY <1>1, WFMin
<1>3. ASSUME NEW n \in N PROVE m <= n
  <2>1. ~(n < m)
    BY <1>2
  <2>2. QED
    BY <2>1
<1>4. QED
  BY <1>3
=============================================================================
