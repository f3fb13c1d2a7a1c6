----------------------------- MODULE MCReceiveFlow -----------------------------
(* ReceiveFlow on small instances. *)
EXTENDS ReceiveFlow, TLC

(* Buffers are interchangeable: the pool hands out any of them. *)
BufferSymmetry == Permutations(Buffers)
=============================================================================
