------------------------------ MODULE TaskQueue ------------------------------
(***************************************************************************)
(* What the two task classes of src/bingo/thread promise to their callers, *)
(* whatever number of service threads stands behind put():                 *)
(*   - put() is accepted exactly as long as a service thread is active;    *)
(*   - messages are taken in the order in which put() accepted them, each  *)
(*     one once, none invented and none skipped;                           *)
(*   - every exit message that is taken retires one service thread.        *)
(* ManyToOne and ManyToMany are shown to implement it.                     *)
(***************************************************************************)
EXTENDS Naturals, Sequences

CONSTANTS
    Data,     \* messages of type THREAD_DATA_TYPE_DATA, disjoint from Exits
    Exits,    \* messages of type THREAD_DATA_TYPE_EXIT_THREAD
    Threads   \* number of service threads at the start, not zero

VARIABLES
    accepted,  \* the messages put() has accepted, oldest first
    taken,     \* the messages service threads have popped, oldest first
    active     \* service threads that have not been retired

vars == <<accepted, taken, active>>

Init ==
    /\ accepted = <<>>
    /\ taken = <<>>
    /\ active = Threads

Put(m) ==
    /\ active > 0
    /\ accepted' = Append(accepted, m)
    /\ UNCHANGED <<taken, active>>

Take ==
    /\ Len(taken) < Len(accepted)
    /\ LET m == accepted[Len(taken) + 1] IN
         /\ taken' = Append(taken, m)
         /\ active' = IF m \in Exits /\ active > 0 THEN active - 1 ELSE active
    /\ UNCHANGED accepted

Next == Take \/ \E m \in Data \cup Exits : Put(m)

\* As long as a thread is active the queue does not stand still.
Fairness == WF_vars(active > 0 /\ Take)

SafeSpec == Init /\ [][Next]_vars
Spec == SafeSpec /\ Fairness
=============================================================================
