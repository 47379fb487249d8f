-------------------------- MODULE AbstractSequence --------------------------
(* What a GPArray or a GPString promises, whatever its header says: its      *)
(* contents after a call are those that were asked for, and only an array    *)
(* without an allocator may keep less, the longest prefix that fits.         *)
EXTENDS Integers, Sequences

VARIABLES
    content,  \* the elements
    limit,    \* most elements it can hold, Unlimited for one with an allocator
    lost,     \* what the last call returned: the number of elements that did not fit
    request   \* what it was asked for: to replace count elements at a position by others,
              \* or that there be room

vars == <<content, limit, lost, request>>

Unlimited == -1

Request(at, count, by) == [at |-> at, count |-> count, by |-> by, room |-> 0]

Room(n) == [at |-> 0, count |-> 0, by |-> <<>>, room |-> n]

Fresh == Room(-1)

Prefix(s, n) == SubSeq(s, 1, n)

\* s with the n elements from position p on replaced by t
Splice(s, p, n, t) == Prefix(s, p) \o t \o SubSeq(s, p + n + 1, Len(s))

Excess(n) == IF limit = Unlimited \/ n <= limit THEN 0 ELSE n - limit

Init == content = <<>> /\ limit \in Nat \cup {Unlimited} /\ lost = 0 /\ request = Fresh

\* Every function that changes the elements is a replacement of some of them.
Edit ==
    LET r     == request'
        whole == Splice(content, r.at, r.count, r.by)
    IN  /\ r = Request(r.at, r.count, r.by)
        /\ r.at + r.count <= Len(content)
        /\ lost' = Excess(Len(whole))
        /\ content' = Prefix(whole, Len(whole) - lost')
        /\ UNCHANGED limit

Reserve ==
    LET r == request'
    IN  /\ r.room >= 0 /\ r = Room(r.room)
        /\ lost' = Excess(r.room)
        /\ UNCHANGED <<content, limit>>

\* A full array without allocator takes no elements past its end.
Refuse ==
    LET r == request'
    IN  /\ r = Request(r.at, r.count, r.by)
        /\ Len(content) = limit /\ r.at >= limit
        /\ lost' \in 0..Len(r.by)
        /\ UNCHANGED <<content, limit>>

\* A string may be cut back on request, and tells by how much.
Cut ==
    LET r == request'
    IN  /\ r = Request(r.at, Len(content) - r.at, <<>>)
        /\ content' = Prefix(content, r.at)
        /\ lost' = r.count
        /\ UNCHANGED limit

\* Only the client says how much an array without allocator can hold.
Renew == content' = <<>> /\ limit' \in Nat \cup {Unlimited} /\ lost' = 0 /\ request' = Fresh

Next == Edit \/ Reserve \/ Refuse \/ Cut \/ Renew

Spec == Init /\ [][Next]_vars

=============================================================================
