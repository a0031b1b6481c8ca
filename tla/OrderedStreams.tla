--------------------------- MODULE OrderedStreams ---------------------------
(***************************************************************************)
(* What the host promises each display connection: a stream of the packets *)
(* accepted for it, in order and without a gap, of which a break may cut   *)
(* off the end but nothing in the middle.  There are no writers, queues,   *)
(* descriptor numbers or deadlines here.  AsyncWriter implements it.       *)
(***************************************************************************)
EXTENDS Naturals, Sequences

CONSTANTS Conns, Lengths

VARIABLES
    accepted,   \* connection -> lengths of the packets accepted for it
    carried,    \* connection -> what it carried, <<number of packet, bytes>> each
    broken      \* connections that carry nothing any more

streams == <<accepted, carried, broken>>

Init == /\ accepted = [c \in Conns |-> <<>>]
        /\ carried = [c \in Conns |-> <<>>]
        /\ broken = {}

Accept(c, n) == /\ accepted' = [accepted EXCEPT ![c] = Append(@, n)]
                /\ UNCHANGED <<carried, broken>>

Last(c) == carried[c][Len(carried[c])]
Complete(c) == carried[c] = <<>> \/ Last(c)[2] = accepted[c][Len(carried[c])]

(* The next packet begins when the one before it is complete... *)
Begin(c) ==
    /\ c \notin broken /\ Complete(c) /\ Len(carried[c]) < Len(accepted[c])
    /\ \E n \in 1..accepted[c][Len(carried[c]) + 1] :
         carried' = [carried EXCEPT ![c] = Append(@, <<Len(@) + 1, n>>)]
    /\ UNCHANGED <<accepted, broken>>

(* ... and goes on from where it was. *)
Continue(c) ==
    /\ c \notin broken /\ ~Complete(c)
    /\ \E n \in Last(c)[2] + 1..accepted[c][Len(carried[c])] :
         carried' = [carried EXCEPT ![c][Len(carried[c])] = <<Len(carried[c]), n>>]
    /\ UNCHANGED <<accepted, broken>>

Break(c) == broken' = broken \cup {c} /\ UNCHANGED <<accepted, carried>>

Next == \E c \in Conns : \/ Begin(c) \/ Continue(c) \/ Break(c)
                         \/ \E n \in Lengths : Accept(c, n)

Spec == Init /\ [][Next]_streams
=============================================================================
