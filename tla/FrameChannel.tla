---------------------------- MODULE FrameChannel ----------------------------
(***************************************************************************)
(* What the touch driver promises to the input subsystem, without work     *)
(* items, interrupts or transfers: a channel from the controller that      *)
(* holds at most Capacity frames nobody reported yet, delivers every frame *)
(* in order and capped to Limit contacts, and repeats the frame delivered  *)
(* last only once for each acknowledgement that was lost.                  *)
(***************************************************************************)
EXTENDS Integers, Sequences

CONSTANTS Frames, Limit, Capacity

VARIABLES
    sent,        \* every frame the controller handed over
    delivered,   \* the frames reported, each with its number in sent
    spare        \* lost acknowledgements not yet spent on a repetition

vars == <<sent, delivered, spare>>

Last == IF delivered = <<>> THEN 0 ELSE delivered[Len(delivered)].frame

Capped(f) == SubSeq(f, 1, IF Len(f) <= Limit THEN Len(f) ELSE Limit)

Delivery(n) == Append(delivered, [frame |-> n, contacts |-> Capped(sent[n])])

Init == sent = <<>> /\ delivered = <<>> /\ spare = 0

Send ==
    /\ Len(sent) - Last < Capacity
    /\ \E f \in Frames : sent' = Append(sent, f)
    /\ UNCHANGED <<delivered, spare>>

Deliver ==
    /\ Last < Len(sent)
    /\ delivered' = Delivery(Last + 1)
    /\ UNCHANGED <<sent, spare>>

LoseAck == spare' = spare + 1 /\ UNCHANGED <<sent, delivered>>

Repeat ==
    /\ Last > 0 /\ spare > 0
    /\ delivered' = Delivery(Last)
    /\ spare' = spare - 1
    /\ UNCHANGED sent

Next == Send \/ Deliver \/ LoseAck \/ Repeat

Spec == Init /\ [][Next]_vars
=============================================================================
