--------------------------- MODULE PacketDelivery ---------------------------
(***************************************************************************)
(* What the packet pipeline promises: a packet that has arrived, from the  *)
(* client or from an addon, waits until it is delivered or blocked.  It is *)
(* never lost, never handled twice, and never made up.                     *)
(***************************************************************************)
EXTENDS Naturals

VARIABLES
    arrived,    \* the packets there have been
    waiting,    \* those that are neither delivered nor blocked yet
    delivered,  \* those written to an output buffer
    blocked     \* those an interpreter blocked

vars == <<arrived, waiting, delivered, blocked>>

Init ==
    /\ arrived = {}
    /\ waiting = {}
    /\ delivered = {}
    /\ blocked = {}

Arrive ==
    /\ arrived \subseteq arrived'
    /\ waiting' = waiting \cup (arrived' \ arrived)
    /\ UNCHANGED <<delivered, blocked>>

Deliver ==
    \E packet \in waiting :
        /\ waiting' = waiting \ {packet}
        /\ delivered' = delivered \cup {packet}
        /\ UNCHANGED <<arrived, blocked>>

Block ==
    \E packet \in waiting :
        /\ waiting' = waiting \ {packet}
        /\ blocked' = blocked \cup {packet}
        /\ UNCHANGED <<arrived, delivered>>

Next == Arrive \/ Deliver \/ Block

Spec == Init /\ [][Next]_vars
=============================================================================
