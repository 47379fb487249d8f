----------------------------- MODULE ThreadMemory -----------------------------
(* The automatic scope that src/src/memory.c keeps for each thread: deferred  *)
(* functions wait in it where the compiler cannot run them by itself. It is   *)
(* made when first asked for, and the end of the thread or an exit handler    *)
(* run what waits before they delete it.                                      *)
EXTENDS Integers, Sequences

CONSTANTS
    Users,      \* threads
    MaxDefers   \* deferred functions in the program

ASSUME MaxDefersAssumption == MaxDefers \in Nat

VARIABLES
    defers,     \* the functions that wait in the automatic scope of each thread
    opened,     \* those that waited where each GP_DEFER_BEGIN of the thread was, the last one first
    deferred,   \* how many functions were deferred
    ran         \* how often each ran; more than twice count as twice

memoryVars == <<defers, opened, deferred, ran>>

MemoryInit ==
    /\ defers = [t \in Users |-> <<>>]
    /\ opened = [t \in Users |-> <<>>]
    /\ deferred = 0
    /\ ran = [k \in 1..MaxDefers |-> 0]

\* GP_DEFER_BEGIN with a number of functions
DeferBegin(t, n) ==
    /\ deferred + n <= MaxDefers
    /\ opened' = [opened EXCEPT ![t] = <<defers[t]>> \o @]
    /\ defers' = [defers EXCEPT ![t] = @ \o [k \in 1..n |-> deferred + k]]
    /\ deferred' = deferred + n
    /\ UNCHANGED ran

\* A turn of the loop of GP_DEFER_END: the function runs before it is forgotten.
DeferWaits(t) == Len(defers[t]) > Len(Head(opened[t]))

\* The slip runs the functions in the order they were deferred.
LastOf_First(t) == [function |-> Head(defers[t]), rest |-> Tail(defers[t])]

LastOf(t) == [function |-> defers[t][Len(defers[t])], rest |-> SubSeq(defers[t], 1, Len(defers[t]) - 1)]

RanOnceMore(k) == [ran EXCEPT ![k] = IF @ = 2 THEN 2 ELSE @ + 1]

\* The slip does not count down what waits.
RunLast_Kept(t) ==
    /\ ran' = RanOnceMore(LastOf(t).function)
    /\ UNCHANGED <<defers, opened, deferred>>

RunLast(t) ==
    /\ ran' = RanOnceMore(LastOf(t).function)
    /\ defers' = [defers EXCEPT ![t] = LastOf(t).rest]
    /\ UNCHANGED <<opened, deferred>>

CloseDefers(t) ==
    /\ opened' = [opened EXCEPT ![t] = Tail(@)]
    /\ UNCHANGED <<defers, deferred, ran>>

=============================================================================
