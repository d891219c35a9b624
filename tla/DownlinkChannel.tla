--------------------------- MODULE DownlinkChannel ---------------------------
(***************************************************************************)
(* What lora-gateway-bridge promises about downlinks: an unbounded FIFO    *)
(* channel from the broker to the packet forwarder.                        *)
(***************************************************************************)
EXTENDS Naturals, Sequences

CONSTANT Payloads

VARIABLES waiting, delivered

Init == waiting = <<>> /\ delivered = <<>>

\* One message of the broker may add several downlinks behind those that wait.
Accept ==
  /\ waiting' \in Seq(Payloads)
  /\ Len(waiting') >= Len(waiting)
  /\ SubSeq(waiting', 1, Len(waiting)) = waiting
  /\ UNCHANGED delivered

Deliver ==
  /\ waiting # <<>>
  /\ delivered' = Append(delivered, Head(waiting))
  /\ waiting' = Tail(waiting)

Next == Accept \/ Deliver

Spec == Init /\ [][Next]_<<waiting, delivered>>
=============================================================================
