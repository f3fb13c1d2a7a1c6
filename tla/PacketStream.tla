----------------------------- MODULE PacketStream -----------------------------
(***************************************************************************)
(* What a QUIC stream of a flow promises, in packets: the peer's flow gets *)
(* the packets in the order they were written, none left out and none      *)
(* twice.  Only the last one may be cut short, when the stream was closed  *)
(* with part of its frame unwritten.  Nothing follows a packet that was    *)
(* cut.                                                                    *)
(***************************************************************************)
EXTENDS Naturals, Sequences

CONSTANT Packets

VARIABLES
  sent,      \* packets framed for the stream, in order
  received,  \* packets pushed to the peer's flow, in order
  stream     \* the sending side: "open", "closed" or "cancelled"

vars == <<sent, received, stream>>

Init == sent = <<>> /\ received = <<>> /\ stream = "open"

Send ==
  /\ \E p \in Packets : sent' = Append(sent, p)
  /\ UNCHANGED <<received, stream>>

(* Everything delivered so far is whole, and sent[Len(received) + 1] is next. *)
HasNext ==
  /\ Len(received) < Len(sent)
  /\ received = SubSeq(sent, 1, Len(received))

Deliver ==
  /\ HasNext
  /\ received' = Append(received, sent[Len(received) + 1])
  /\ UNCHANGED <<sent, stream>>

DeliverCut ==
  /\ HasNext /\ stream = "closed"
  /\ LET p == sent[Len(received) + 1]
     IN  \E n \in 0..(Len(p) - 1) : received' = Append(received, SubSeq(p, 1, n))
  /\ UNCHANGED <<sent, stream>>

Stop ==
  /\ \/ stream = "open" /\ stream' = "closed"
     \/ stream # "cancelled" /\ stream' = "cancelled"
  /\ UNCHANGED <<sent, received>>

Next == Send \/ Deliver \/ DeliverCut \/ Stop

Spec == Init /\ [][Next]_vars
=============================================================================
