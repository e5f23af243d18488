------------------------------ MODULE Snapshots ------------------------------
(***************************************************************************)
(* What a phone is promised about the state of its room, whatever the      *)
(* link does: it always shows one whole state the room was in, and it      *)
(* never goes back to an earlier one.  How late it is, and which states it *)
(* skips, is left open.  StateDelivery implements this promise.            *)
(***************************************************************************)
EXTENDS Naturals, Sequences

CONSTANT First   \* the state of a fresh room, which a phone shows at first

VARIABLES
    history,   \* the states the room has been in, the last one being current
    shown      \* the state the phone shows

Init == history = <<First>> /\ shown = First

\* The room moves on.
Change ==
    /\ Len(history') = Len(history) + 1
    /\ SubSeq(history', 1, Len(history)) = history
    /\ UNCHANGED shown

\* The phone moves on, to the latest state or to one the room has left.
Show ==
    /\ \E now, next \in DOMAIN history :
        now < next /\ history[now] = shown /\ history[next] = shown'
    /\ UNCHANGED history

Spec == Init /\ [][Change \/ Show]_<<history, shown>>
=============================================================================
