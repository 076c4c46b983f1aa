--------------------------- MODULE ReliableStream ---------------------------
(***************************************************************************)
(* What the two ends of a slay2 line promise each other once they are in   *)
(* step: in each direction the frames arrive in the order they were        *)
(* composed, each of them once, and a frame counts as acknowledged only    *)
(* after it has been handed to the application.  At most Window frames are *)
(* unacknowledged.                                                         *)
(***************************************************************************)
EXTENDS Integers, Sequences

CONSTANTS Station, Payload, Window

VARIABLES
  sent,        \* sent[e]: the frames station e has composed
  delivered,   \* delivered[e]: those of them the other station has handed over
  confirmed    \* confirmed[e]: how many of them e has seen acknowledged

vars == <<sent, delivered, confirmed>>

Init ==
  /\ sent = [e \in Station |-> <<>>]
  /\ delivered = [e \in Station |-> <<>>]
  /\ confirmed = [e \in Station |-> 0]

Submit(e, payload) ==
  /\ Len(sent[e]) < confirmed[e] + Window
  /\ sent' = [sent EXCEPT ![e] = Append(@, payload)]
  /\ UNCHANGED <<delivered, confirmed>>

Deliver(e) ==
  /\ Len(delivered[e]) < Len(sent[e])
  /\ delivered' = [delivered EXCEPT ![e] = Append(@, sent[e][Len(delivered[e]) + 1])]
  /\ UNCHANGED <<sent, confirmed>>

Confirm(e) ==
  /\ confirmed[e] < Len(delivered[e])
  /\ confirmed' = [confirmed EXCEPT ![e] = @ + 1]
  /\ UNCHANGED <<sent, delivered>>

Next == \E e \in Station :
  (\E payload \in Payload : Submit(e, payload)) \/ Deliver(e) \/ Confirm(e)

Spec == Init /\ [][Next]_vars
=============================================================================
