--------------------------- MODULE MCStreamTransfer ---------------------------
(* StreamTransfer on small instances. *)
EXTENDS StreamTransfer

(* Packets of no and of two bytes. *)
SmallPackets == {<<>>, <<1, 2>>}
=============================================================================
