------------------------------- MODULE MCInterop -------------------------------
(* Interop on small instances. *)
EXTENDS Interop

(* None, a full buffer early, one option overriding another, and lists that *)
(* are refused.                                                             *)
SomeOptions ==
  {<<>>,
   <<WithReceiveBufferSize(1)>>,
   <<WithReceiveBufferSize(1), WithReceiveBufferSize(2), WithQlogPacketData(0)>>,
   <<WithLogger(TRUE), WithUnknownFlowBufferSize(1), WithReceiveBufferSize(1)>>,
   <<WithReceiveBufferSize(0)>>,
   <<WithUnknownFlowBufferSize(0), WithReceiveBufferSize(1)>>,
   <<WithQlogTrace(TRUE), WithQlogPacketData(-1)>>,
   <<WithLogger(FALSE)>>,
   <<WithReceiveBufferSize(2), NilOption>>}
=============================================================================
