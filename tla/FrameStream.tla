---------------------------- MODULE FrameStream ----------------------------
(***************************************************************************)
(* What a 1 to N transcoding promises, without surfaces, buffers or locks:  *)
(* one producer makes the frames 1, 2, 3, ..., and every consumer takes     *)
(* each of them once and in order, until it is closed.  The producer is     *)
(* never more than Capacity frames ahead of a consumer that is open; it may *)
(* be any number of frames ahead of one that is closed.                    *)
(***************************************************************************)
EXTENDS Integers

CONSTANTS Consumers, Capacity

VARIABLES
    made,   \* the last frame that was made
    got,    \* the last frame that each consumer has taken
    open

vars == <<made, got, open>>

Init ==
    /\ made = 0
    /\ got = [c \in Consumers |-> 0]
    /\ open = [c \in Consumers |-> TRUE]

Make ==
    /\ \A c \in Consumers : open[c] => made - got[c] < Capacity
    /\ made' = made + 1
    /\ UNCHANGED <<got, open>>

Take(c) ==
    /\ open[c] /\ got[c] < made
    /\ got' = [got EXCEPT ![c] = @ + 1]
    /\ UNCHANGED <<made, open>>

Close(c) ==
    /\ open[c]
    /\ open' = [open EXCEPT ![c] = FALSE]
    /\ UNCHANGED <<made, got>>

Next == Make \/ \E c \in Consumers : Take(c) \/ Close(c)

Spec == Init /\ [][Next]_vars
=============================================================================
