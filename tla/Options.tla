------------------------------- MODULE Options -------------------------------
(***************************************************************************)
(* The options of NewSession (options.go).  An option is a record of the   *)
(* setting it is for and the value it was given; NilOption and NilLogger   *)
(* are the nil values the code rejects.                                    *)
(***************************************************************************)
EXTENDS Integers, Sequences

NilOption == [kind |-> "nil", value |-> 0]
WithReceiveBufferSize(packets) == [kind |-> "receiveBufferSize", value |-> packets]
WithUnknownFlowBufferSize(flows) == [kind |-> "unknownFlowBufferSize", value |-> flows]
WithQlogPacketData(maxBytes) == [kind |-> "qlogPacketDataLimit", value |-> maxBytes]
WithLogger(nonNil) == [kind |-> "logger", value |-> nonNil]
WithQlogTrace(trace) == [kind |-> "qlogTrace", value |-> trace]

(* The options an application can write. *)
Option ==
  [kind : {"receiveBufferSize", "unknownFlowBufferSize", "qlogPacketDataLimit"}, value : Int]
    \cup [kind : {"logger", "qlogTrace"}, value : BOOLEAN] \cup {NilOption}

(* What each option checks before it sets anything. *)
Accepts_Zero(opt) ==
  CASE opt.kind \in {"receiveBufferSize", "unknownFlowBufferSize"} -> opt.value >= 0
    [] opt.kind = "qlogPacketDataLimit" -> opt.value >= 0
    [] opt.kind = "logger" -> opt.value
    [] opt.kind = "qlogTrace" -> TRUE
    [] opt.kind = "nil" -> FALSE
Accepts(opt) ==
  CASE opt.kind \in {"receiveBufferSize", "unknownFlowBufferSize"} -> opt.value > 0
    [] opt.kind = "qlogPacketDataLimit" -> opt.value >= 0
    [] opt.kind = "logger" -> opt.value
    [] opt.kind = "qlogTrace" -> TRUE
    [] opt.kind = "nil" -> FALSE

DefaultConfig ==
  [receiveBufferSize |-> 1024, unknownFlowBufferSize |-> 16, logger |-> TRUE,
   qlogTrace |-> FALSE, qlogPacketData |-> FALSE, qlogPacketDataLimit |-> 0]

Apply(c, opt) ==
  IF opt.kind = "qlogPacketDataLimit"
  THEN [c EXCEPT !.qlogPacketData = TRUE, !.qlogPacketDataLimit = opt.value]
  ELSE [c EXCEPT ![opt.kind] = opt.value]

(* newSessionConfig applies the options in order on top of the defaults and *)
(* fails on the first that is refused; a later option overrides an earlier. *)
NoConfig == [receiveBufferSize |-> 0]
newSessionConfig(opts) ==
  LET c[i \in 0..Len(opts)] ==
        IF i = 0 THEN DefaultConfig
        ELSE IF c[i - 1] = NoConfig \/ ~Accepts(opts[i]) THEN NoConfig
        ELSE Apply(c[i - 1], opts[i])
  IN  c[Len(opts)]
=============================================================================
