------------------------------ MODULE InteropProofs ------------------------------
(***************************************************************************)
(* The invariants of Interop, for any number of frames and packets, all    *)
(* modes, windows and lists of options.                                    *)
(***************************************************************************)
EXTENDS Interop, SequenceTheorems, WellFoundedInduction, TLAPS

-----------------------------------------------------------------------------
(* The state of send.  A frame's packets are numbered up to                 *)
(* frame * PerFrame, and a stream is opened before it is written.           *)
SenderInv ==
  /\ mode \in {"datagram", "frame", "single"}
  /\ spc \in {"flow", "open", "read", "write", "close", "sleep", "done", "exited"}
  /\ flow \in {"none", "open", "closed"} /\ conn \in {"up", "down"}
  /\ frame \in 0..Frames /\ next \in Nat /\ next >= 1 /\ next <= frame * PerFrame + 1
  /\ opened \subseteq StreamIDs /\ closed \subseteq opened
  /\ spc = "open" => mode # "datagram"
  /\ spc = "close" => mode = "frame"
  /\ spc = "write" \/ (spc = "open" /\ mode = "frame") =>
       frame >= 1 /\ next <= frame * PerFrame
  /\ spc \in {"write", "close"} /\ mode = "frame" => frame \in opened
  /\ spc = "flow" \/ (spc = "open" /\ mode = "single") => opened = {}

(* What is on the way: packets numbered below next, each on one stream or   *)
(* in one datagram, and on a stream in the order they were numbered.        *)
NetInv ==
  /\ written \in [StreamIDs -> Seq(Nat)] /\ taken \in [StreamIDs -> Nat]
  /\ \A s \in StreamIDs : taken[s] <= Len(written[s])
  /\ \A s \in StreamIDs : \A k \in 1..Len(written[s]) :
       written[s][k] >= 1 /\ written[s][k] < next
  /\ \A s \in StreamIDs : \A k, l \in 1..Len(written[s]) :
       k < l => written[s][k] < written[s][l]
  /\ \A s, t \in StreamIDs : \A k \in 1..Len(written[s]) : \A l \in 1..Len(written[t]) :
       written[s][k] = written[t][l] => s = t
  /\ net \subseteq [num : Nat, width : IDWidths]
  /\ \A d \in net : d.num >= 1 /\ d.num < next
  /\ \A d, e \in net : d.num = e.num => d = e
  /\ mode = "datagram" => \A s \in StreamIDs : written[s] = <<>>
  /\ mode # "datagram" => net = {}

(* The receiver has a packet in its hand exactly when it is about to write  *)
(* it, and the flow is closed only behind its back.                         *)
ReceiverInv ==
  /\ rflow \in {"none", "unknown", "open", "closed"}
  /\ rpc \in {"new", "read", "write", "close", "done"}
  /\ queue \in Seq(Packet) /\ output \in Seq(Packet) /\ hand \in Packet \cup {NoPacket}
  /\ hand # NoPacket <=> rpc = "write"
  /\ rflow = "closed" => rpc \in {"close", "done"}
  /\ \A n \in dropped : n \in Nat /\ n >= 1 /\ n < next

(* A configuration that newSessionConfig lets through. *)
Config ==
  [receiveBufferSize : Nat \ {0}, unknownFlowBufferSize : Nat \ {0}, logger : {TRUE},
   qlogTrace : BOOLEAN, qlogPacketData : BOOLEAN, qlogPacketDataLimit : Nat]

ConfigInv ==
  /\ config \in Config \cup {NoConfig}
  /\ Len(queue) <= config.receiveBufferSize

-----------------------------------------------------------------------------
(* The packets I inside the receiver: numbered below nx, none twice. *)
Sound(I, nx) ==
  /\ I \in Seq(Packet)
  /\ \A i \in 1..Len(I) : I[i].num >= 1 /\ I[i].num < nx
  /\ \A i, j \in 1..Len(I) : I[i].num = I[j].num => i = j

Holds(I, n) == \E i \in 1..Len(I) : I[i].num = n

(* They stand in the order in which their stream carries them. *)
Ordered(I, w, k, l, i, j) == I[i].num = w[k] /\ I[j].num = w[l] /\ i < j => k < l
InOrder(I, wr) ==
  \A s \in StreamIDs : \A k, l \in 1..Len(wr[s]) : \A i, j \in 1..Len(I) :
    Ordered(I, wr[s], k, l, i, j)

(* They are what the streams' readers took, but for the dropped ones. *)
Accounted(I, wr, tk, dr) ==
  \A s \in StreamIDs : \A k \in 1..Len(wr[s]) :
    Holds(I, wr[s][k]) <=> k <= tk[s] /\ wr[s][k] \notin dr

(* What is still on the way has been neither taken in nor dropped. *)
OnTheWay(I, wr, tk, nt, dr) ==
  /\ \A s \in StreamIDs : \A k \in 1..Len(wr[s]) : k > tk[s] => wr[s][k] \notin dr
  /\ \A d \in nt : d.num \notin dr /\ ~Holds(I, d.num)

PacketInv ==
  /\ Sound(Inside, next) /\ InOrder(Inside, written)
  /\ rflow # "closed" => Accounted(Inside, written, taken, dropped)
  /\ OnTheWay(Inside, written, taken, net, dropped)

IInv == SenderInv /\ NetInv /\ ReceiverInv /\ PacketInv /\ SendLeavesNoStreamOpen

-----------------------------------------------------------------------------
(* newSessionConfig.  Induction is over the set of the numbers of options   *)
(* for which the claim holds.                                               *)

(* A non-empty set of naturals has a least element. *)
LEMMA Least ==
  ASSUME NEW T, T \subseteq Nat, T # {}
  PROVE  \E x \in T : \A y \in T : x <= y
<1>1. PICK x \in T : \A y \in T : ~ (<<y, x>> \in OpToRel(<, Nat))
  BY NatLessThanWellFounded, WFMin, Zenon
<1>2. ASSUME NEW y \in T PROVE x <= y
  <2>1. x \in Nat /\ y \in Nat
    OBVIOUS
  <2>2. y < x => <<y, x>> \in OpToRel(<, Nat)
    BY <2>1, SMT DEF OpToRel
  <2>3. ~(y < x)
    BY <1>1, <2>2, Zenon
  <2>4. QED
    BY <2>1, <2>3, SMT
<1>3. QED
  BY <1>2, Zenon

(* Induction, over the set S of the numbers that have the property. *)
LEMMA Inductive ==
  ASSUME NEW S, 0 \in S, \A n \in Nat : n \in S => n + 1 \in S
  PROVE  Nat \subseteq S
<1> SUFFICES ASSUME NEW m \in Nat, m \notin S PROVE FALSE
  OBVIOUS
<1>1. PICK x \in Nat \ S : \A y \in Nat \ S : x <= y
  BY Least, Zenon
<1>2. x # 0 /\ x - 1 \in Nat /\ (x - 1) + 1 = x /\ ~(x <= x - 1)
  BY <1>1
<1>3. x - 1 \in S
  BY <1>1, <1>2, Zenon
<1>4. QED
  BY <1>1, <1>2, <1>3, Zenon

(* One round of the loop of newSessionConfig. *)
OptionStep(c, opt) ==
  IF c = NoConfig \/ ~Accepts(opt) THEN NoConfig ELSE Apply(c, opt)

(* An accepted option keeps a configuration valid. *)
LEMMA AppliedConfig ==
  ASSUME NEW c \in Config, NEW opt \in Option, Accepts(opt)
  PROVE  Apply(c, opt) \in Config
<1>1. CASE opt.kind = "receiveBufferSize"
  <2>1. opt.value \in Nat \ {0}
    <3>1. opt.value \in Int
       BY <1>1 DEF Option, NilOption
    <3> QED BY <3>1, <1>1 DEF Accepts
  <2>2. Apply(c, opt) = [c EXCEPT !.receiveBufferSize = opt.value]
    BY <1>1, Zenon DEF Apply
  <2>3. QED
    BY <2>1, <2>2 DEF Config
<1>2. CASE opt.kind = "unknownFlowBufferSize"
  <2>1. opt.value \in Nat \ {0}
    <3>1. opt.value \in Int
       BY <1>2 DEF Option, NilOption
    <3> QED BY <3>1, <1>2 DEF Accepts
  <2>2. Apply(c, opt) = [c EXCEPT !.unknownFlowBufferSize = opt.value]
    BY <1>2, Zenon DEF Apply
  <2>3. QED
    BY <2>1, <2>2 DEF Config
<1>3. CASE opt.kind = "qlogPacketDataLimit"
  <2>1. opt.value \in Nat
    <3>1. opt.value \in Int
       BY <1>3 DEF Option, NilOption
    <3> QED BY <3>1, <1>3 DEF Accepts
  <2>2. Apply(c, opt) = [c EXCEPT !.qlogPacketData = TRUE, !.qlogPacketDataLimit = opt.value]
    BY <1>3, Zenon DEF Apply
  <2>3. QED
    BY <2>1, <2>2 DEF Config
<1>4. CASE opt.kind = "logger"
  <2>1. opt.value = TRUE
    <3>1. opt.value \in BOOLEAN
       BY <1>4 DEF Option, NilOption
    <3>2. opt.value
       BY <1>4 DEF Accepts
    <3> QED BY <3>1, <3>2, Zenon
  <2>2. Apply(c, opt) = [c EXCEPT !.logger = opt.value]
    BY <1>4, Zenon DEF Apply
  <2>3. QED
    BY <2>1, <2>2 DEF Config
<1>5. CASE opt.kind = "qlogTrace"
  <2>1. opt.value \in BOOLEAN
    BY <1>5 DEF Option, NilOption
  <2>2. Apply(c, opt) = [c EXCEPT !.qlogTrace = opt.value]
    BY <1>5, Zenon DEF Apply
  <2>3. QED
    BY <2>1, <2>2 DEF Config
<1>6. CASE opt.kind = "nil"
  BY <1>6 DEF Accepts
<1>7. QED
  BY <1>1, <1>2, <1>3, <1>4, <1>5, <1>6 DEF Option, NilOption

(* So does every option that is given, if NoConfig stands for an error. *)
LEMMA OptionStepType ==
  ASSUME NEW c \in Config \cup {NoConfig}, NEW opt \in Option
  PROVE  OptionStep(c, opt) \in Config \cup {NoConfig}
BY AppliedConfig, Zenon DEF OptionStep

(* The configurations after the first n options. *)
OptionSteps(f, opts, n) ==
  /\ f \in [0..n -> Config \cup {NoConfig}]
  /\ f[0] = DefaultConfig
  /\ \A i \in 1..n : f[i] = OptionStep(f[i - 1], opts[i])

(* They exist for every list of options. *)
LEMMA OptionStepsExist ==
  ASSUME NEW opts \in Seq(Option)
  PROVE  \E f : OptionSteps(f, opts, Len(opts))
<1> DEFINE S == {n \in Nat : n <= Len(opts) => \E f : OptionSteps(f, opts, n)}
<1>1. 0 \in S
  <2> DEFINE g == [i \in 0..0 |-> DefaultConfig]
  <2>1. DefaultConfig \in Config
    BY DEF DefaultConfig, Config
  <2>2. OptionSteps(g, opts, 0)
    BY <2>1 DEF OptionSteps
  <2>3. QED
    BY <2>2
<1>2. ASSUME NEW n \in Nat, n \in S PROVE n + 1 \in S
  <2> SUFFICES ASSUME n + 1 <= Len(opts) PROVE \E f : OptionSteps(f, opts, n + 1)
    OBVIOUS
  <2>1. n <= Len(opts) /\ n + 1 \in 1..Len(opts) /\ opts[n + 1] \in Option
    OBVIOUS
  <2>2. PICK f : OptionSteps(f, opts, n)
    BY <1>2, <2>1, Zenon
  <2> DEFINE x == OptionStep(f[n], opts[n + 1])
             g == [i \in 0..(n + 1) |-> IF i = n + 1 THEN x ELSE f[i]]
  <2>3. f[n] \in Config \cup {NoConfig}
    BY <2>2 DEF OptionSteps
  <2>4. x \in Config \cup {NoConfig}
    BY <2>1, <2>3, OptionStepType, Zenon
  <2> HIDE DEF x
  <2>5. \A i \in 0..n : f[i] \in Config \cup {NoConfig}
    BY <2>2, Zenon DEF OptionSteps
  <2>6. g \in [0..(n + 1) -> Config \cup {NoConfig}]
    BY <2>4, <2>5
  <2>7. g[n + 1] = x /\ \A i \in 0..n : g[i] = f[i]
    OBVIOUS
  <2>8. \A i \in 1..n : i \in 0..n /\ i - 1 \in 0..n
    OBVIOUS
  <2>9. \A i \in 1..(n + 1) : i \in 1..n \/ i = n + 1
    OBVIOUS
  <2>10. (n + 1) - 1 = n /\ n \in 0..n /\ 0 \in 0..n
    OBVIOUS
  <2> HIDE DEF g
  <2>11. ASSUME NEW i \in 1..(n + 1) PROVE g[i] = OptionStep(g[i - 1], opts[i])
    <3>1. CASE i \in 1..n
      BY <2>2, <2>7, <2>8, <3>1, Zenon DEF OptionSteps
    <3>2. CASE i = n + 1
      BY <2>7, <2>10, <3>2, Zenon DEF x
    <3>3. QED
      BY <2>9, <3>1, <3>2, Zenon
  <2>12. g[0] = DefaultConfig
    BY <2>2, <2>7, <2>10, Zenon DEF OptionSteps
  <2>13. QED
    BY <2>6, <2>11, <2>12, Zenon DEF OptionSteps
<1>3. Nat \subseteq S
  <2> HIDE DEF S
  <2> QED BY <1>1, <1>2, Inductive, Zenon
<1>4. Len(opts) \in Nat /\ Len(opts) <= Len(opts)
  OBVIOUS
<1>5. QED
  BY <1>3, <1>4, Zenon

(* The settings an option can be for. *)
Kinds == {"receiveBufferSize", "unknownFlowBufferSize", "logger", "qlogTrace",
          "qlogPacketDataLimit"}

(* An option changes its own setting and no other. *)
LEMMA ApplySets ==
  ASSUME NEW c \in Config, NEW opt \in Option, Accepts(opt), NEW k \in Kinds
  PROVE  Apply(c, opt)[k] = IF opt.kind = k THEN opt.value ELSE c[k]
<1>1. opt.kind \in Kinds
  <2>1. opt.kind \in Kinds \cup {"nil"}
    BY DEF Option, NilOption, Kinds
  <2>2. opt.kind # "nil"
    BY DEF Accepts
  <2>3. QED
    BY <2>1, <2>2, Zenon
<1>2. DOMAIN c = Kinds \cup {"qlogPacketData"}
  BY DEF Config, Kinds
<1>3. CASE opt.kind = "qlogPacketDataLimit"
  <2>1. Apply(c, opt) = [[c EXCEPT !["qlogPacketData"] = TRUE]
                            EXCEPT !["qlogPacketDataLimit"] = opt.value]
    BY <1>3 DEF Apply
  <2>2. QED
    BY <1>2, <1>3, <2>1 DEF Kinds
<1>4. CASE opt.kind # "qlogPacketDataLimit"
  <2>1. Apply(c, opt) = [c EXCEPT ![opt.kind] = opt.value]
    BY <1>4, Zenon DEF Apply
  <2>2. k \in DOMAIN c /\ opt.kind \in DOMAIN c
    BY <1>1, <1>2
  <2>3. QED
    BY <2>1, <2>2, Zenon
<1>5. QED
  BY <1>3, <1>4

(* c is the outcome of the first n options: refused when one of them is,    *)
(* and otherwise a setting has the value of the last option that is for it. *)
Outcome(c, opts, n) ==
  /\ c \in Config \cup {NoConfig}
  /\ c = NoConfig <=> \E i \in 1..n : ~Accepts(opts[i])
  /\ c # NoConfig =>
       \A k \in Kinds :
         /\ \A j \in 1..n : opts[j].kind = k /\ (\A i \in 1..n : j < i => opts[i].kind # k) =>
              c[k] = opts[j].value
         /\ (\A i \in 1..n : opts[i].kind # k) => c[k] = DefaultConfig[k]

(* One more option. *)
LEMMA OutcomeStep ==
  ASSUME NEW opts \in Seq(Option), NEW n \in Nat, n + 1 <= Len(opts), NEW c,
         Outcome(c, opts, n)
  PROVE  Outcome(OptionStep(c, opts[n + 1]), opts, n + 1)
<1> DEFINE m == n + 1
           opt == opts[m]
           d == OptionStep(c, opt)
<1>1. opt \in Option
  OBVIOUS
<1>2. \A i \in 1..m : i \in 1..n \/ i = m
  OBVIOUS
<1>3. m \in 1..m /\ ~(m < m) /\ \A i \in 1..n : i \in 1..m /\ i < m
  OBVIOUS
<1> HIDE DEF m, opt
<1>4. NoConfig \notin Config
  BY DEF NoConfig, Config
<1>5. d \in Config \cup {NoConfig}
  BY <1>1, OptionStepType, Zenon DEF Outcome
<1>6. CASE c = NoConfig \/ ~Accepts(opt)
  <2>1. d = NoConfig
    BY <1>6, Zenon DEF OptionStep
  <2>2. \E i \in 1..m : ~Accepts(opts[i])
    BY <1>3, <1>6, Zenon DEF Outcome, opt
  <2>3. QED
    BY <1>5, <2>1, <2>2, Zenon DEF Outcome, m, opt
<1>7. CASE c # NoConfig /\ Accepts(opt)
  <2>1. d = Apply(c, opt) /\ c \in Config
    BY <1>7, Zenon DEF OptionStep, Outcome
  <2>2. d # NoConfig
    <3>1. Apply(c, opt) \in Config
      BY <1>1, <1>7, <2>1, AppliedConfig, Zenon
    <3>2. QED
      BY <1>4, <2>1, <3>1, Zenon
  <2>3. ~ \E i \in 1..m : ~Accepts(opts[i])
    BY <1>2, <1>7, Zenon DEF Outcome, opt
  <2>4. ASSUME NEW k \in Kinds PROVE d[k] = IF opt.kind = k THEN opt.value ELSE c[k]
    <3>1. Apply(c, opt)[k] = IF opt.kind = k THEN opt.value ELSE c[k]
      BY <1>1, <1>7, <2>1, ApplySets
    <3>2. QED
      BY <2>1, <3>1
  <2> HIDE DEF d
  <2>5. ASSUME NEW k \in Kinds, NEW j \in 1..m, opts[j].kind = k,
               \A i \in 1..m : j < i => opts[i].kind # k
        PROVE  d[k] = opts[j].value
    <3>1. CASE j = m
      BY <2>4, <2>5, <3>1, Zenon DEF opt
    <3>2. CASE j \in 1..n
      <4>1. opt.kind # k
        BY <1>3, <2>5, <3>2, Zenon DEF opt
      <4>2. \A i \in 1..n : j < i => opts[i].kind # k
        BY <1>3, <2>5, Zenon
      <4>3. c[k] = opts[j].value
        BY <1>7, <2>5, <3>2, <4>2, Zenon DEF Outcome
      <4>4. QED
        BY <2>4, <4>1, <4>3, Zenon
    <3>3. QED
      BY <1>2, <3>1, <3>2, Zenon
  <2>6. ASSUME NEW k \in Kinds, \A i \in 1..m : opts[i].kind # k
        PROVE  d[k] = DefaultConfig[k]
    <3>1. opt.kind # k /\ \A i \in 1..n : opts[i].kind # k
      BY <1>3, <2>6, Zenon DEF opt
    <3>2. QED
      BY <1>7, <2>4, <3>1, Zenon DEF Outcome
  <2>7. Outcome(d, opts, m)
    BY <1>5, <2>2, <2>3, <2>5, <2>6, Zenon DEF Outcome
  <2>8. QED
    BY <2>7, Zenon DEF d, m, opt
<1>8. QED
  BY <1>6, <1>7, Zenon

(* newSessionConfig, for every list of options: it fails exactly when one   *)
(* of them is refused, wherever it stands in the list; otherwise every size *)
(* is positive, the logger is not nil, and each setting has the value of    *)
(* the last option for it, or its default.                                  *)
THEOREM OptionsAreChecked ==
  ASSUME NEW opts \in Seq(Option)
  PROVE  Outcome(newSessionConfig(opts), opts, Len(opts))
<1> DEFINE N == Len(opts)
           F(f) == [i \in 0..N |->
                      IF i = 0 THEN DefaultConfig
                      ELSE IF f[i - 1] = NoConfig \/ ~Accepts(opts[i]) THEN NoConfig
                      ELSE Apply(f[i - 1], opts[i])]
           c == CHOOSE f : f = F(f)
<1>1. PICK f : OptionSteps(f, opts, N)
  BY OptionStepsExist, Zenon
<1>2. f = F(f)
  <2>1. N \in Nat
    OBVIOUS
  <2>2. \A i \in 0..N : i = 0 \/ i \in 1..N
    BY <2>1
  <2>3. \A i \in 0..N : f[i] = F(f)[i]
    BY <1>1, <2>2, Zenon DEF OptionSteps, OptionStep
  <2>4. f = [i \in 0..N |-> f[i]]
    BY <1>1, Zenon DEF OptionSteps
  <2>5. F(f) = [i \in 0..N |-> F(f)[i]]
    BY Zenon
  <2>6. QED
    BY <2>3, <2>4, <2>5, Zenon
<1>3. c = F(c)
  <2> HIDE DEF F
  <2> QED BY <1>2, Zenon
<1>4. newSessionConfig(opts) = c[N]
  BY Zenon DEF newSessionConfig
<1>5. N \in Nat
  OBVIOUS
<1> HIDE DEF c
<1>6. c[0] = DefaultConfig /\ \A i \in 1..N : c[i] = OptionStep(c[i - 1], opts[i])
  <2>1. 0 \in 0..N /\ \A i \in 1..N : i \in 0..N /\ i # 0
    BY <1>5
  <2>2. \A i \in 0..N : c[i] = F(c)[i]
    BY <1>3, Zenon
  <2>3. QED
    BY <2>1, <2>2, Zenon DEF OptionStep
<1> HIDE DEF F
<1> DEFINE S == {n \in Nat : n <= N => Outcome(c[n], opts, n)}
<1>7. 0 \in S
  <2>1. DefaultConfig \in Config /\ DefaultConfig # NoConfig
    BY DEF DefaultConfig, Config, NoConfig
  <2>2. 1..0 = {}
    OBVIOUS
  <2>3. Outcome(DefaultConfig, opts, 0)
    BY <2>1, <2>2, Zenon DEF Outcome
  <2>4. QED
    BY <1>6, <2>3
<1>8. ASSUME NEW n \in Nat, n \in S PROVE n + 1 \in S
  <2> SUFFICES ASSUME n + 1 <= N PROVE Outcome(c[n + 1], opts, n + 1)
    OBVIOUS
  <2>1. n <= N /\ n + 1 \in 1..N /\ (n + 1) - 1 = n
    BY <1>5
  <2>2. Outcome(c[n], opts, n)
    BY <1>8, <2>1, Zenon
  <2>3. c[n + 1] = OptionStep(c[n], opts[n + 1])
    BY <1>6, <2>1, Zenon
  <2>4. QED
    BY <2>2, <2>3, OutcomeStep, Zenon
<1>9. Nat \subseteq S
  <2> HIDE DEF S
  <2> QED BY <1>7, <1>8, Inductive, Zenon
<1>10. N <= N
  BY <1>5
<1>11. QED
  BY <1>4, <1>5, <1>9, <1>10, Zenon

-----------------------------------------------------------------------------
(* The sender.                                                              *)

(* Multiplication by PerFrame is monotone and steps by PerFrame. *)
LEMMA PacketsOfFrames ==
  ASSUME NEW f \in 0..Frames
  PROVE  /\ f * PerFrame \in Nat /\ f * PerFrame <= Frames * PerFrame
         /\ (f + 1) * PerFrame = f * PerFrame + PerFrame
         /\ Frames * PerFrame \in Nat
<1>1. PerFrame \in Nat /\ Frames \in Nat /\ f \in Nat /\ f <= Frames
  BY InteropAssumption
<1>2. \A a, b \in Nat : a * b \in Nat /\ (a + 1) * b = a * b + b
  BY SMT
<1>3. \A a, b, c \in Nat : a <= c => a * b <= c * b
  BY SMT
<1>4. QED
  BY <1>1, <1>2, <1>3, Zenon

(* send returns with the flow closed, and with it every stream. *)
LEMMA ReturnStep ==
  ASSUME SenderInv, NEW failed \in BOOLEAN, Return(failed), conn' = conn
  PROVE  SenderInv' /\ SendLeavesNoStreamOpen' /\ next' = next /\ mode' = mode
<1>1. /\ spc' \in {"exited", "sleep"} /\ flow' = "closed" /\ closed' = closed \cup opened
      /\ mode' = mode /\ frame' = frame /\ next' = next /\ opened' = opened
  BY Zenon DEF Return
<1>2. closed' = opened'
  BY <1>1, Zenon DEF SenderInv
<1>3. SenderInv'
  BY <1>1, <1>2 DEF SenderInv, StreamIDs
<1>4. QED
  BY <1>1, <1>2, <1>3, Zenon DEF SendLeavesNoStreamOpen

(* One more packet of the frame is written. *)
LEMMA PacketWrittenStep ==
  ASSUME SenderInv, spc = "write", PacketWritten, conn' = conn
  PROVE  SenderInv' /\ SendLeavesNoStreamOpen' /\ next' = next + 1 /\ mode' = mode
<1> DEFINE P == frame * PerFrame
<1>1. /\ next' = next + 1 /\ mode' = mode /\ frame' = frame /\ flow' = flow
      /\ opened' = opened /\ closed' = closed
      /\ spc' = IF next < P THEN "write" ELSE IF mode = "frame" THEN "close" ELSE "read"
  BY Zenon DEF PacketWritten, GoTo
<1>2. /\ P \in Nat /\ next \in Nat /\ next >= 1 /\ next <= P /\ frame >= 1
      /\ mode = "frame" => frame \in opened
  BY PacketsOfFrames DEF SenderInv
<1>3. (frame * PerFrame)' = P
  BY <1>1, Zenon
<1> HIDE DEF P
<1>4. next' \in Nat /\ next' >= 1 /\ next' <= P + 1 /\ (next < P => next' <= P)
  BY <1>1, <1>2
<1>5. /\ spc' \in {"write", "close", "read"} /\ (spc' = "close" => mode = "frame")
      /\ (spc' = "write" => next' <= P)
  BY <1>1, <1>4
<1>6. SenderInv'
  BY <1>1, <1>2, <1>3, <1>4, <1>5 DEF SenderInv, StreamIDs
<1>7. QED
  BY <1>1, <1>5, <1>6 DEF SendLeavesNoStreamOpen

(* The steps of send that write no packet. *)
LEMMA SenderStep ==
  ASSUME SenderInv, SendLeavesNoStreamOpen,
         NewSendFlow \/ NewSendStream \/ ReadFrame \/ CloseStream \/ CloseSender
  PROVE  SenderInv' /\ SendLeavesNoStreamOpen' /\ next' = next /\ mode' = mode
<1>0. Frames \in Nat \ {0} /\ PerFrame \in Nat \ {0} /\ 1 \in StreamIDs
  BY InteropAssumption DEF StreamIDs
<1>1. CASE NewSendFlow
  BY <1>1 DEF NewSendFlow, GoTo, SenderInv, SendLeavesNoStreamOpen, StreamIDs
<1>2. CASE NewSendStream
  <2>1. CASE Return(TRUE)
    BY <1>2, <2>1, ReturnStep, Zenon DEF NewSendStream
  <2>2. CASE conn = "down" /\ mode = "single" /\ ~Return(TRUE)
    BY <1>2, <2>2 DEF NewSendStream, GoTo, SenderInv, SendLeavesNoStreamOpen, StreamIDs
  <2>3. CASE conn = "up" /\ mode = "single" /\ ~Return(TRUE)
    BY <1>0, <1>2, <2>3 DEF NewSendStream, GoTo, SenderInv, SendLeavesNoStreamOpen
  <2>4. CASE conn = "up" /\ mode = "frame" /\ ~Return(TRUE)
    <3>1. frame \in StreamIDs
      BY <1>2, <2>4 DEF NewSendStream, SenderInv, StreamIDs
    <3>2. QED
      BY <1>2, <2>4, <3>1 DEF NewSendStream, GoTo, SenderInv, SendLeavesNoStreamOpen
  <2>5. QED
    BY <1>2, <2>1, <2>2, <2>3, <2>4 DEF NewSendStream, SenderInv
<1>3. CASE ReadFrame
  <2>1. CASE \E failed \in BOOLEAN : Return(failed)
    BY <1>3, <2>1, ReturnStep, Zenon DEF ReadFrame
  <2>2. CASE /\ frame < Frames /\ frame' = frame + 1
             /\ spc' = (IF mode = "frame" THEN "open" ELSE "write")
             /\ UNCHANGED <<mode, next, flow, opened, closed, conn>>
    <3>1. frame' \in 0..Frames /\ frame' >= 1
      BY <1>0, <2>2 DEF SenderInv
    <3>2. next' <= frame' * PerFrame /\ next' <= frame' * PerFrame + 1
      <4>1. frame' * PerFrame = frame * PerFrame + PerFrame /\ frame * PerFrame \in Nat
        BY <2>2, PacketsOfFrames, Zenon DEF SenderInv
      <4>2. next' = next /\ next \in Nat /\ next <= frame * PerFrame + 1
        BY <2>2, Zenon DEF SenderInv
      <4>3. \A a, b, c, d \in Nat : a = b + c /\ c # 0 /\ d <= b + 1 => d <= a /\ d <= a + 1
        OBVIOUS
      <4>4. frame' * PerFrame \in Nat
        BY <3>1, PacketsOfFrames, Zenon
      <4>5. QED
        BY <1>0, <4>1, <4>2, <4>3, <4>4, Zenon
    <3>3. QED
      BY <1>3, <2>2, <3>1, <3>2 DEF SenderInv, SendLeavesNoStreamOpen, ReadFrame
  <2>3. QED
    BY <1>3, <2>1, <2>2, Zenon DEF ReadFrame, GoTo
<1>4. CASE CloseStream
  <2>1. CASE Return(TRUE)
    BY <1>4, <2>1, ReturnStep, Zenon DEF CloseStream
  <2>2. CASE ~Return(TRUE)
    BY <1>4, <2>2 DEF CloseStream, GoTo, SenderInv, SendLeavesNoStreamOpen, StreamIDs
  <2>3. QED
    BY <2>1, <2>2
<1>5. CASE CloseSender
  BY <1>5 DEF CloseSender, GoTo, SenderInv, SendLeavesNoStreamOpen, StreamIDs
<1>6. QED
  BY <1>1, <1>2, <1>3, <1>4, <1>5

-----------------------------------------------------------------------------
(* Packets inside the receiver.                                             *)

(* A packet with a new number may be added at the end. *)
LEMMA AppendSound ==
  ASSUME NEW nx \in Nat, NEW I, Sound(I, nx), NEW q \in Packet,
         q.num >= 1, q.num < nx, ~Holds(I, q.num)
  PROVE  /\ Sound(Append(I, q), nx)
         /\ \A n : Holds(Append(I, q), n) <=> Holds(I, n) \/ n = q.num
<1> DEFINE J == Append(I, q)
<1>1. /\ J \in Seq(Packet) /\ Len(J) = Len(I) + 1 /\ Len(I) \in Nat
      /\ J[Len(I) + 1] = q /\ \A i \in 1..Len(I) : J[i] = I[i]
  BY DEF Sound
<1>2. \A i \in 1..Len(J) : i \in 1..Len(I) \/ i = Len(I) + 1
  BY <1>1
<1>3. \A i \in 1..Len(I) : I[i].num # q.num
  BY Zenon DEF Holds
<1>4. Len(I) + 1 \in 1..Len(J) /\ \A i \in 1..Len(I) : i \in 1..Len(J)
  BY <1>1
<1> HIDE DEF J
<1>5. \A i \in 1..Len(J) : J[i].num >= 1 /\ J[i].num < nx
  BY <1>1, <1>2, Zenon DEF Sound
<1>6. \A i, j \in 1..Len(J) : J[i].num = J[j].num => i = j
  BY <1>1, <1>2, <1>3, Zenon DEF Sound
<1>7. ASSUME NEW n PROVE Holds(J, n) <=> Holds(I, n) \/ n = q.num
  BY <1>1, <1>2, <1>4, Zenon DEF Holds
<1>8. QED
  BY <1>1, <1>5, <1>6, <1>7, Zenon DEF Sound, J

(* A prefix of the packets is sound, in order and holds no others. *)
LEMMA PrefixSound ==
  ASSUME NEW nx \in Nat, NEW I, Sound(I, nx), NEW J \in Seq(Packet), NEW wr, InOrder(I, wr),
         Len(J) <= Len(I), \A i \in 1..Len(J) : J[i] = I[i]
  PROVE  /\ Sound(J, nx) /\ InOrder(J, wr)
         /\ \A n : Holds(J, n) => Holds(I, n)
<1>1. \A i \in 1..Len(J) : i \in 1..Len(I)
  BY DEF Sound
<1>2. Sound(J, nx)
  BY <1>1, Zenon DEF Sound
<1>3. InOrder(J, wr)
  <2> SUFFICES ASSUME NEW s \in StreamIDs, NEW k \in 1..Len(wr[s]), NEW l \in 1..Len(wr[s]),
                      NEW i \in 1..Len(J), NEW j \in 1..Len(J)
               PROVE  Ordered(J, wr[s], k, l, i, j)
    BY Zenon DEF InOrder
  <2> SUFFICES ASSUME J[i].num = wr[s][k], J[j].num = wr[s][l], i < j
               PROVE  k < l
    BY Zenon DEF Ordered
  <2>1. /\ i \in 1..Len(I) /\ j \in 1..Len(I)
        /\ I[i].num = wr[s][k] /\ I[j].num = wr[s][l]
    BY <1>1, Zenon
  <2>2. QED
    BY <2>1, Zenon DEF InOrder, Ordered
<1>4. ASSUME NEW n, Holds(J, n) PROVE Holds(I, n)
  BY <1>1, <1>4, Zenon DEF Holds
<1>5. QED
  BY <1>2, <1>3, <1>4, Zenon

(* A higher number does not hurt. *)
LEMMA SoundGrows ==
  ASSUME NEW nx \in Nat, NEW I, Sound(I, nx)
  PROVE  Sound(I, nx + 1)
<1>1. \A i \in 1..Len(I) : I[i] \in Packet
  BY DEF Sound
<1>2. \A i \in 1..Len(I) : I[i].num \in Nat
  BY <1>1, Zenon DEF Packet
<1>3. \A i \in 1..Len(I) : I[i].num < nx + 1
  BY <1>2 DEF Sound
<1>4. QED
  BY <1>3, Zenon DEF Sound

-----------------------------------------------------------------------------
(* How the steps of the receiver move packets along Inside.                 *)

(* Inside is a sequence of packets. *)
LEMMA InsideSeq ==
  ASSUME ReceiverInv
  PROVE  Inside \in Seq(Packet)
BY DEF ReceiverInv, Inside

(* push puts its packet at the end. *)
LEMMA PushInside ==
  ASSUME ReceiverInv, NEW q \in Packet, queue' = Append(queue, q), UNCHANGED copyVars
  PROVE  Inside' = Append(Inside, q)
<1> DEFINE A == output \o (IF hand = NoPacket THEN <<>> ELSE <<hand>>)
<1>1. A \in Seq(Packet) /\ queue \in Seq(Packet)
  BY DEF ReceiverInv
<1>2. Inside = A \o queue /\ Inside' = A \o Append(queue, q)
  BY Zenon DEF Inside, copyVars
<1> HIDE DEF A
<1>3. A \o Append(queue, q) = Append(A \o queue, q)
  BY <1>1
<1>4. QED
  BY <1>2, <1>3, Zenon

(* Read moves a packet from the buffer into the hand. *)
LEMMA ReadInside ==
  ASSUME ReceiverInv, Read
  PROVE  Inside' = Inside
<1>1. /\ queue \in Seq(Packet) /\ output \in Seq(Packet) /\ queue # <<>> /\ hand = NoPacket
      /\ hand' = Head(queue) /\ queue' = Tail(queue) /\ output' = output
  BY DEF ReceiverInv, Read
<1>2. Head(queue) \in Packet /\ Tail(queue) \in Seq(Packet)
  BY <1>1
<1>3. hand' # NoPacket
  BY <1>1, <1>2, InteropAssumption, Zenon
<1>4. Inside = output \o <<>> \o queue /\ Inside' = output \o <<Head(queue)>> \o Tail(queue)
  BY <1>1, <1>3, Zenon DEF Inside
<1>5. output \o <<>> = output
  BY <1>1
<1>6. output \o queue = output \o <<Head(queue)>> \o Tail(queue)
  BY <1>1, <1>2
<1>7. QED
  BY <1>4, <1>5, <1>6, Zenon

(* Write moves it on to the writer, or it and the buffer are given up. *)
LEMMA WriteInside ==
  ASSUME ReceiverInv, Write
  PROVE  \/ Inside' = Inside /\ rflow' = rflow
         \/ /\ rflow' = "closed" /\ Inside' = output
            /\ Len(output) <= Len(Inside) /\ \A i \in 1..Len(output) : output[i] = Inside[i]
<1>1. /\ queue \in Seq(Packet) /\ output \in Seq(Packet) /\ hand \in Packet /\ hand # NoPacket
      /\ hand' = NoPacket
  BY DEF ReceiverInv, Write
<1>2. Inside = output \o <<hand>> \o queue
  BY <1>1, Zenon DEF Inside
<1>3. CASE output' = Append(output, hand) /\ UNCHANGED <<rflow, queue>>
  <2>1. Inside' = Append(output, hand) \o <<>> \o queue
    BY <1>1, <1>3, Zenon DEF Inside
  <2>2. Append(output, hand) = output \o <<hand>> /\ Append(output, hand) \in Seq(Packet)
    BY <1>1
  <2>3. Append(output, hand) \o <<>> = Append(output, hand)
    BY <2>2
  <2>4. QED
    BY <1>2, <1>3, <2>1, <2>2, <2>3, Zenon
<1>4. CASE rflow' = "closed" /\ queue' = <<>> /\ output' = output
  <2>1. Inside' = output \o <<>> \o <<>>
    BY <1>1, <1>4, Zenon DEF Inside
  <2>2. output \o <<>> = output
    BY <1>1
  <2>3. /\ Len(output) <= Len(output \o <<hand>> \o queue)
        /\ \A i \in 1..Len(output) : output[i] = (output \o <<hand>> \o queue)[i]
    BY <1>1
  <2>4. QED
    BY <1>2, <1>4, <2>1, <2>2, <2>3, Zenon
<1>5. QED
  BY <1>3, <1>4, Zenon DEF Write

-----------------------------------------------------------------------------
(* A number is in one place of one stream. *)
LEMMA OnePlace ==
  ASSUME NetInv, NEW s \in StreamIDs, NEW t \in StreamIDs,
         NEW k \in 1..Len(written[s]), NEW l \in 1..Len(written[t]),
         written[s][k] = written[t][l]
  PROVE  s = t /\ k = l
<1>1. s = t
  BY Zenon DEF NetInv
<1>2. l \in 1..Len(written[s]) /\ written[s][k] = written[s][l]
  BY <1>1, Zenon
<1>3. written[s] \in Seq(Nat)
  BY DEF NetInv
<1>4. written[s][k] \in Nat
  BY <1>3
<1>5. ~(k < l) /\ ~(l < k)
  <2>1. \A n \in Nat : ~(n < n)
    OBVIOUS
  <2>2. (k < l => written[s][k] < written[s][l]) /\ (l < k => written[s][l] < written[s][k])
    BY <1>2, Zenon DEF NetInv
  <2>3. QED
    BY <1>2, <1>4, <2>1, <2>2, Zenon
<1>6. k \in Int /\ l \in Int
  OBVIOUS
<1>7. k = l
  BY <1>5, <1>6
<1>8. QED
  BY <1>1, <1>7

(* Nothing is written to a stream: what holds of it stays true as more      *)
(* packets are numbered and datagrams leave.                                *)
LEMMA NetKept ==
  ASSUME SenderInv, NetInv, UNCHANGED <<written, taken, mode>>,
         next' = next \/ next' = next + 1, net' \subseteq net
  PROVE  NetInv'
<1>1. next \in Nat
  BY DEF SenderInv
<1>2. \A s \in StreamIDs : \A k \in 1..Len(written[s]) : written[s][k] \in Nat
  BY DEF NetInv
<1>3. \A n \in Nat : n < next => n < next'
  BY <1>1
<1>4. \A d \in net : d.num \in Nat
  BY Zenon DEF NetInv
<1>5. /\ \A s \in StreamIDs : \A k \in 1..Len(written[s]) :
           written[s][k] >= 1 /\ written[s][k] < next'
      /\ \A d \in net' : d.num >= 1 /\ d.num < next'
  BY <1>2, <1>3, <1>4, Zenon DEF NetInv
<1>6. /\ net' \subseteq [num : Nat, width : IDWidths]
      /\ \A d, e \in net' : d.num = e.num => d = e
      /\ mode' # "datagram" => net' = {}
  BY Zenon DEF NetInv
<1>7. QED
  BY <1>5, <1>6, Zenon DEF NetInv

(* What the receiver has stays in bounds as more packets are numbered. *)
LEMMA ReceiverKept ==
  ASSUME SenderInv, ReceiverInv, UNCHANGED <<rflow, queue, dropped, copyVars>>,
         next' = next \/ next' = next + 1
  PROVE  ReceiverInv' /\ Inside' = Inside
<1>1. \A n \in dropped : n < next'
  BY DEF SenderInv, ReceiverInv
<1>2. QED
  BY <1>1, Zenon DEF ReceiverInv, Inside, copyVars

(* A number that is not yet given is nowhere. *)
LEMMA NextIsNew ==
  ASSUME SenderInv, NetInv, ReceiverInv, PacketInv
  PROVE  /\ next \notin dropped /\ ~Holds(Inside, next) /\ \A d \in net : d.num # next
         /\ \A s \in StreamIDs : \A k \in 1..Len(written[s]) : written[s][k] # next
<1>1. \A n \in Nat : ~(n < n)
  OBVIOUS
<1>2. next \in Nat
  BY DEF SenderInv
<1>3. \A n : n < next => n # next
  BY <1>1, <1>2, Zenon
<1>4. next \notin dropped
  BY <1>3, Zenon DEF ReceiverInv
<1>5. ~Holds(Inside, next)
  BY <1>3, Zenon DEF PacketInv, Sound, Holds
<1>6. QED
  BY <1>3, <1>4, <1>5, Zenon DEF NetInv

(* The steps that leave every packet where it is, but may number one more   *)
(* or lose a datagram.                                                      *)
LEMMA PacketsKept ==
  ASSUME SenderInv, NetInv, ReceiverInv, PacketInv,
         UNCHANGED <<written, taken, mode, rflow, queue, dropped, copyVars>>,
         next' = next \/ next' = next + 1, net' \subseteq net
  PROVE  NetInv' /\ ReceiverInv' /\ PacketInv'
<1>1. NetInv' /\ ReceiverInv' /\ Inside' = Inside
  BY NetKept, ReceiverKept, Zenon
<1>2. Sound(Inside, next')
  BY SoundGrows, Zenon DEF SenderInv, PacketInv
<1>3. OnTheWay(Inside, written, taken, net', dropped)
  BY Zenon DEF PacketInv, OnTheWay
<1>4. PacketInv'
  BY <1>1, <1>2, <1>3, Zenon DEF PacketInv
<1>5. QED
  BY <1>1, <1>4

(* A datagram is sent. *)
LEMMA DatagramSent ==
  ASSUME SenderInv, NetInv, ReceiverInv, PacketInv, mode = "datagram",
         NEW w \in IDWidths, net' = net \cup {[num |-> next, width |-> w]},
         UNCHANGED <<written, taken, mode, rflow, queue, dropped, copyVars>>,
         next' = next + 1
  PROVE  NetInv' /\ ReceiverInv' /\ PacketInv'
<1> DEFINE new == [num |-> next, width |-> w]
<1>1. ReceiverInv' /\ Inside' = Inside
  BY ReceiverKept, Zenon
<1>2. /\ next \in Nat /\ next >= 1 /\ next < next' /\ \A n \in Nat : n < next => n < next'
  BY DEF SenderInv
<1>3. new \in [num : Nat, width : IDWidths] /\ new.num = next
  BY <1>2
<1> HIDE DEF new
<1>4. net' = net \cup {new}
  BY DEF new
<1>5. \A d \in net : d.num \in Nat
  BY Zenon DEF NetInv
<1>6. /\ net' \subseteq [num : Nat, width : IDWidths]
      /\ \A d \in net' : d.num >= 1 /\ d.num < next'
      /\ \A d, e \in net' : d.num = e.num => d = e
  BY <1>2, <1>3, <1>4, <1>5, NextIsNew, Zenon DEF NetInv
<1>7. \A s \in StreamIDs : \A k \in 1..Len(written[s]) : written[s][k] < next'
  <2>1. \A s \in StreamIDs : \A k \in 1..Len(written[s]) : written[s][k] \in Nat
    BY DEF NetInv
  <2>2. QED
    BY <1>2, <2>1, Zenon DEF NetInv
<1>8. NetInv'
  BY <1>6, <1>7, Zenon DEF NetInv
<1>9. OnTheWay(Inside, written, taken, net', dropped)
  BY <1>3, <1>4, NextIsNew, Zenon DEF PacketInv, OnTheWay
<1>10. Sound(Inside, next')
  BY SoundGrows, Zenon DEF SenderInv, PacketInv
<1>11. PacketInv'
  BY <1>1, <1>9, <1>10, Zenon DEF PacketInv
<1>12. QED
  BY <1>1, <1>8, <1>11

(* A packet is written on a stream. *)
LEMMA PacketOnStream ==
  ASSUME SenderInv, NetInv, ReceiverInv, PacketInv, mode # "datagram",
         NEW s0 \in StreamIDs, written' = [written EXCEPT ![s0] = Append(@, next)],
         UNCHANGED <<net, taken, mode, rflow, queue, dropped, copyVars>>,
         next' = next + 1
  PROVE  NetInv' /\ ReceiverInv' /\ PacketInv'
<1> DEFINE N == Len(written[s0]) + 1
<1>1. ReceiverInv' /\ Inside' = Inside
  BY ReceiverKept, Zenon
<1>2. /\ next \in Nat /\ next >= 1 /\ next < next' /\ \A n \in Nat : n < next => n < next'
  BY DEF SenderInv
<1>3. written \in [StreamIDs -> Seq(Nat)] /\ taken \in [StreamIDs -> Nat]
  BY Zenon DEF NetInv
<1>4. written' \in [StreamIDs -> Seq(Nat)]
  BY <1>2, <1>3
<1>5. \A s \in StreamIDs : s # s0 => written'[s] = written[s]
  BY <1>3, Zenon
<1>6. /\ Len(written'[s0]) = N /\ written'[s0][N] = next
      /\ \A k \in 1..Len(written[s0]) : written'[s0][k] = written[s0][k]
      /\ Len(written[s0]) \in Nat
  BY <1>2, <1>3
<1>7. \A k \in 1..N : k \in 1..Len(written[s0]) \/ k = N
  BY <1>6
<1>8. \A k \in 1..Len(written[s0]) : k \in 1..N /\ k < N /\ ~(N < k)
  BY <1>6
<1>9. N \in 1..N /\ ~(N < N) /\ N > taken[s0] /\ taken[s0] <= N
  BY <1>3, <1>6 DEF NetInv
<1> HIDE DEF N
(* Every number is where it was, or it is the new one. *)
<1>10. ASSUME NEW s \in StreamIDs, NEW k \in 1..Len(written'[s])
       PROVE  \/ k \in 1..Len(written[s]) /\ written'[s][k] = written[s][k]
              \/ s = s0 /\ k = N /\ written'[s][k] = next
  BY <1>5, <1>6, <1>7, Zenon
<1>11. \A s \in StreamIDs : \A k \in 1..Len(written[s]) :
         written[s][k] \in Nat /\ written[s][k] >= 1 /\ written[s][k] < next
  BY <1>3 DEF NetInv
<1>12. \A s \in StreamIDs : \A k \in 1..Len(written'[s]) :
         written'[s][k] >= 1 /\ written'[s][k] < next'
  BY <1>2, <1>10, <1>11, Zenon
<1>13. \A s \in StreamIDs : \A k, l \in 1..Len(written'[s]) :
         k < l => written'[s][k] < written'[s][l]
  <2> SUFFICES ASSUME NEW s \in StreamIDs, NEW k \in 1..Len(written'[s]),
                      NEW l \in 1..Len(written'[s]), k < l
               PROVE  written'[s][k] < written'[s][l]
    BY Zenon
  <2>1. CASE k \in 1..Len(written[s]) /\ l \in 1..Len(written[s])
    <3>1. written'[s][k] = written[s][k] /\ written'[s][l] = written[s][l]
      BY <1>5, <1>6, <2>1, Zenon
    <3>2. QED
      BY <2>1, <3>1, Zenon DEF NetInv
  <2>2. CASE k \in 1..Len(written[s]) /\ s = s0 /\ l = N
    BY <1>6, <1>11, <2>2, Zenon
  <2>3. CASE s = s0 /\ k = N
    <3>1. FALSE
      BY <1>6, <1>7, <1>8, <1>9, <2>3, Zenon
    <3>2. QED
      BY <3>1
  <2>4. QED
    BY <1>10, <2>1, <2>2, <2>3, Zenon
<1>14. \A s, t \in StreamIDs : \A k \in 1..Len(written'[s]) : \A l \in 1..Len(written'[t]) :
         written'[s][k] = written'[t][l] => s = t
  <2> SUFFICES ASSUME NEW s \in StreamIDs, NEW t \in StreamIDs,
                      NEW k \in 1..Len(written'[s]), NEW l \in 1..Len(written'[t]),
                      written'[s][k] = written'[t][l]
               PROVE  s = t
    OBVIOUS
  <2>1. \A r \in StreamIDs : \A m \in 1..Len(written[r]) : written[r][m] # next
    BY NextIsNew, Zenon
  <2>2. CASE written'[s][k] = next
    <3>1. s = s0
      BY <1>10, <2>1, <2>2, Zenon
    <3>2. t = s0
      BY <1>10, <2>1, <2>2, Zenon
    <3>3. QED
      BY <3>1, <3>2, Zenon
  <2>3. CASE written'[s][k] # next
    <3>1. k \in 1..Len(written[s]) /\ written'[s][k] = written[s][k]
      BY <1>10, <2>3, Zenon
    <3>2. l \in 1..Len(written[t]) /\ written'[t][l] = written[t][l]
      BY <1>10, <2>3, Zenon
    <3>3. written[s][k] = written[t][l]
      BY <3>1, <3>2, Zenon
    <3>4. QED
      BY <3>1, <3>2, <3>3, OnePlace, Zenon
  <2>4. QED
    BY <2>2, <2>3, Zenon
<1>15. \A s \in StreamIDs : taken'[s] <= Len(written'[s])
  BY <1>5, <1>6, <1>9, Zenon DEF NetInv
<1>16. \A d \in net' : d.num >= 1 /\ d.num < next'
  BY <1>2, Zenon DEF NetInv
<1>17. NetInv'
  BY <1>3, <1>4, <1>12, <1>13, <1>14, <1>15, <1>16, Zenon DEF NetInv
<1>18. Sound(Inside, next')
  BY SoundGrows, Zenon DEF SenderInv, PacketInv
<1>19. InOrder(Inside, written')
  <2> SUFFICES ASSUME NEW s \in StreamIDs, NEW k \in 1..Len(written'[s]),
                      NEW l \in 1..Len(written'[s]), NEW i \in 1..Len(Inside),
                      NEW j \in 1..Len(Inside)
               PROVE  Ordered(Inside, written'[s], k, l, i, j)
    BY Zenon DEF InOrder
  <2> SUFFICES ASSUME Inside[i].num = written'[s][k], Inside[j].num = written'[s][l], i < j
               PROVE  k < l
    BY Zenon DEF Ordered
  <2>1. written'[s][k] # next /\ written'[s][l] # next
    BY NextIsNew, Zenon DEF Holds
  <2>2. /\ k \in 1..Len(written[s]) /\ written'[s][k] = written[s][k]
        /\ l \in 1..Len(written[s]) /\ written'[s][l] = written[s][l]
    BY <1>10, <2>1, Zenon
  <2>3. QED
    BY <2>2, Zenon DEF PacketInv, InOrder, Ordered
<1>20. rflow # "closed" => Accounted(Inside, written', taken, dropped)
  <2> SUFFICES ASSUME rflow # "closed", NEW s \in StreamIDs, NEW k \in 1..Len(written'[s])
               PROVE  Holds(Inside, written'[s][k]) <=>
                        k <= taken[s] /\ written'[s][k] \notin dropped
    BY Zenon DEF Accounted
  <2>1. CASE k \in 1..Len(written[s]) /\ written'[s][k] = written[s][k]
    BY <2>1, Zenon DEF PacketInv, Accounted
  <2>2. CASE s = s0 /\ k = N /\ written'[s][k] = next
    <3>1. ~(N <= taken[s0])
      BY <1>3, <1>6, <1>9 DEF N
    <3>2. QED
      BY <2>2, <3>1, NextIsNew, Zenon
  <2>3. QED
    BY <1>10, <2>1, <2>2, Zenon
<1>21. OnTheWay(Inside, written', taken, net, dropped)
  <2>1. \A s \in StreamIDs : \A k \in 1..Len(written'[s]) :
          k > taken[s] => written'[s][k] \notin dropped
    BY <1>10, NextIsNew, Zenon DEF PacketInv, OnTheWay
  <2>2. QED
    BY <2>1, Zenon DEF PacketInv, OnTheWay
<1>22. PacketInv'
  BY <1>1, <1>18, <1>19, <1>20, <1>21, Zenon DEF PacketInv
<1>23. QED
  BY <1>1, <1>17, <1>22

-----------------------------------------------------------------------------
(* push puts a packet at the end of Inside or drops it. *)
LEMMA PushStep ==
  ASSUME SenderInv, ReceiverInv, NEW q \in Packet, q.num >= 1, q.num < next, next' = next,
         Push(q), UNCHANGED copyVars, Sound(Inside, next), ~Holds(Inside, q.num)
  PROVE  /\ ReceiverInv' /\ Sound(Inside', next') /\ (rflow' = "closed" => rflow = "closed")
         /\ \/ /\ Inside' = Inside /\ dropped' = dropped \cup {q.num}
            \/ /\ Inside' = Append(Inside, q) /\ dropped' = dropped
<1>1. /\ rflow' = (IF rflow = "none" THEN "unknown" ELSE rflow)
      /\ \/ dropped' = dropped \cup {q.num} /\ queue' = queue
         \/ dropped' = dropped /\ queue' = Append(queue, q)
  BY Zenon DEF Push
<1>2. q.num \in Nat
  BY DEF Packet
<1>3. /\ rflow' \in {"none", "unknown", "open", "closed"} /\ rpc' = rpc
      /\ (rflow' = "closed" => rflow = "closed") /\ hand' = hand /\ output' = output
  BY <1>1 DEF ReceiverInv, copyVars
<1>4. CASE dropped' = dropped \cup {q.num} /\ queue' = queue
  <2>1. Inside' = Inside
    BY <1>4, Zenon DEF Inside, copyVars
  <2>2. \A n \in dropped' : n \in Nat /\ n >= 1 /\ n < next'
    BY <1>2, <1>4, Zenon DEF ReceiverInv
  <2>3. ReceiverInv'
    BY <1>3, <1>4, <2>2, Zenon DEF ReceiverInv
  <2>4. QED
    BY <1>3, <1>4, <2>1, <2>3, Zenon
<1>5. CASE dropped' = dropped /\ queue' = Append(queue, q)
  <2>1. Inside' = Append(Inside, q)
    BY <1>5, PushInside, Zenon
  <2>2. Sound(Append(Inside, q), next)
    BY AppendSound, Zenon DEF SenderInv
  <2>3. queue' \in Seq(Packet)
    BY <1>5 DEF ReceiverInv
  <2>4. ReceiverInv'
    BY <1>3, <1>5, <2>3, Zenon DEF ReceiverInv
  <2>5. QED
    BY <1>3, <1>5, <2>1, <2>2, <2>4, Zenon
<1>6. QED
  BY <1>1, <1>4, <1>5, Zenon

(* A datagram arrives.  In this mode no stream carries anything. *)
LEMMA DatagramArrives ==
  ASSUME SenderInv, NetInv, ReceiverInv, PacketInv, HandleDatagram
  PROVE  NetInv' /\ ReceiverInv' /\ PacketInv'
<1>1. PICK d \in net : /\ net' = net \ {d}
                       /\ Push([num |-> d.num, extra |-> d.width - VarintLen(FlowID)])
  BY Zenon DEF HandleDatagram
<1> DEFINE q == [num |-> d.num, extra |-> d.width - VarintLen(FlowID)]
<1>2. UNCHANGED <<mode, next, written, taken, copyVars>>
  BY Zenon DEF HandleDatagram, senderVars
<1>3. d \in [num : Nat, width : IDWidths] /\ d.num >= 1 /\ d.num < next
  BY Zenon DEF NetInv
<1>4. d.width \in Int /\ VarintLen(FlowID) \in Int
  <2>1. FlowID \in Nat /\ d.width \in Widths
    BY <1>3, InteropAssumption, Zenon
  <2>2. QED
    BY <2>1, SMT DEF Widths, VarintLen
<1>5. q \in Packet /\ q.num = d.num
  BY <1>3, <1>4 DEF Packet
<1>6. ~Holds(Inside, q.num)
  BY <1>5, Zenon DEF PacketInv, OnTheWay
<1>7. Push(q)
  BY <1>1
<1> HIDE DEF q
<1>8. /\ ReceiverInv' /\ Sound(Inside', next') /\ (rflow' = "closed" => rflow = "closed")
      /\ \/ Inside' = Inside /\ dropped' = dropped \cup {q.num}
         \/ Inside' = Append(Inside, q) /\ dropped' = dropped
  BY <1>2, <1>3, <1>5, <1>6, <1>7, PushStep, Zenon DEF PacketInv
<1>9. NetInv'
  <2>1. net' \subseteq net
    BY <1>1
  <2>2. QED
    BY <1>2, <2>1, NetKept, Zenon
<1>10. mode = "datagram" /\ \A s \in StreamIDs : written[s] = <<>>
  BY Zenon DEF NetInv
<1>11. \A s \in StreamIDs : 1..Len(written'[s]) = {}
  BY <1>2, <1>10
<1>12. InOrder(Inside', written') /\ Accounted(Inside', written', taken', dropped')
  BY <1>11, Zenon DEF InOrder, Accounted
<1>13. ASSUME NEW e \in net' PROVE e.num \notin dropped' /\ ~Holds(Inside', e.num)
  <2>1. e \in net /\ e # d
    BY <1>1, <1>13
  <2>2. e.num # d.num /\ e.num \notin dropped /\ ~Holds(Inside, e.num)
    BY <2>1, Zenon DEF NetInv, PacketInv, OnTheWay
  <2>3. CASE Inside' = Inside /\ dropped' = dropped \cup {q.num}
    BY <1>5, <2>2, <2>3
  <2>4. CASE Inside' = Append(Inside, q) /\ dropped' = dropped
    <3>1. Holds(Append(Inside, q), e.num) <=> Holds(Inside, e.num) \/ e.num = q.num
      BY <1>3, <1>5, <1>6, AppendSound, Zenon DEF PacketInv, SenderInv
    <3>2. QED
      BY <1>5, <2>2, <2>4, <3>1, Zenon
  <2>5. QED
    BY <1>8, <2>3, <2>4, Zenon
<1>14. OnTheWay(Inside', written', taken', net', dropped')
  BY <1>11, <1>13, Zenon DEF OnTheWay
<1>15. PacketInv'
  BY <1>8, <1>12, <1>14, Zenon DEF PacketInv
<1>16. QED
  BY <1>8, <1>9, <1>15

(* A stream's reader pushes its next packet. *)
LEMMA PacketArrives ==
  ASSUME SenderInv, NetInv, ReceiverInv, PacketInv, NEW s0 \in StreamIDs, ReadStream(s0)
  PROVE  NetInv' /\ ReceiverInv' /\ PacketInv'
<1> DEFINE N == taken[s0] + 1
           q == [num |-> written[s0][N], extra |-> 0]
<1>1. /\ rflow # "closed" /\ taken[s0] < Len(written[s0])
      /\ taken' = [taken EXCEPT ![s0] = @ + 1] /\ Push(q)
      /\ UNCHANGED <<mode, next, written, net, copyVars>>
  BY Zenon DEF ReadStream, senderVars, netVars
<1>2. written \in [StreamIDs -> Seq(Nat)] /\ taken \in [StreamIDs -> Nat]
  BY Zenon DEF NetInv
<1>3. N \in 1..Len(written[s0]) /\ taken[s0] \in Nat /\ written[s0] \in Seq(Nat)
  BY <1>1, <1>2
<1>4. written[s0][N] \in Nat /\ written[s0][N] >= 1 /\ written[s0][N] < next
  BY <1>3 DEF NetInv
<1>5. q \in Packet /\ q.num = written[s0][N]
  BY <1>4 DEF Packet
<1>6. ~(N <= taken[s0]) /\ N > taken[s0]
  BY <1>3
<1>7. /\ taken' \in [StreamIDs -> Nat] /\ taken'[s0] = N
      /\ \A s \in StreamIDs : s # s0 => taken'[s] = taken[s]
  BY <1>1, <1>2
<1>8. /\ \A k \in 1..Len(written[s0]) : k # N => (k <= taken'[s0] <=> k <= taken[s0])
      /\ \A k \in 1..Len(written[s0]) : k > taken'[s0] => k > taken[s0] /\ k # N
      /\ \A k \in 1..Len(written[s0]) : k <= taken[s0] => k < N
      /\ N <= taken'[s0] /\ N <= Len(written[s0])
  BY <1>3, <1>7
<1> HIDE DEF q, N
<1>9. ~Holds(Inside, q.num) /\ q.num \notin dropped
  BY <1>1, <1>3, <1>5, <1>6, Zenon DEF PacketInv, Accounted, OnTheWay
<1>10. /\ ReceiverInv' /\ Sound(Inside', next') /\ (rflow' = "closed" => rflow = "closed")
       /\ \/ Inside' = Inside /\ dropped' = dropped \cup {q.num}
          \/ Inside' = Append(Inside, q) /\ dropped' = dropped
  BY <1>1, <1>4, <1>5, <1>9, PushStep, Zenon DEF PacketInv
<1>11. net = {} /\ net' = {}
  <2>1. written[s0] # <<>>
    BY <1>3
  <2>2. QED
    BY <1>1, <2>1, Zenon DEF NetInv
<1>12. NetInv'
  <2>1. \A s \in StreamIDs : taken'[s] <= Len(written'[s])
    BY <1>1, <1>7, <1>8, Zenon DEF NetInv
  <2>2. QED
    BY <1>1, <1>7, <2>1 DEF NetInv
(* No other place of a stream has the packet's number. *)
<1>13. ASSUME NEW s \in StreamIDs, NEW k \in 1..Len(written[s]),
              written[s][k] = q.num
       PROVE  s = s0 /\ k = N
  <2>1. written[s][k] = written[s0][N]
    BY <1>5, <1>13, Zenon
  <2>2. N \in 1..Len(written[s0])
    BY <1>3, Zenon
  <2>3. QED
    BY <2>1, <2>2, OnePlace, Zenon
<1>14. Inside' = Append(Inside, q) =>
         \A n : Holds(Inside', n) <=> Holds(Inside, n) \/ n = q.num
  <2>1. q.num >= 1 /\ q.num < next
    BY <1>4, <1>5, Zenon
  <2>2. next \in Nat /\ Sound(Inside, next)
    BY Zenon DEF PacketInv, SenderInv
  <2>3. \A n : Holds(Append(Inside, q), n) <=> Holds(Inside, n) \/ n = q.num
    BY <1>5, <1>9, <2>1, <2>2, AppendSound, Zenon
  <2>4. QED
    BY <2>3, Zenon
<1>15. Accounted(Inside', written, taken', dropped')
  <2> SUFFICES ASSUME NEW s \in StreamIDs, NEW k \in 1..Len(written[s])
               PROVE  Holds(Inside', written[s][k]) <=>
                        k <= taken'[s] /\ written[s][k] \notin dropped'
    BY Zenon DEF Accounted
  <2>1. Holds(Inside, written[s][k]) <=> k <= taken[s] /\ written[s][k] \notin dropped
    BY <1>1, Zenon DEF PacketInv, Accounted
  <2>2. CASE written[s][k] = q.num
    <3>1. s = s0 /\ k = N
      BY <1>13, <2>2, Zenon
    <3>2. k <= taken'[s]
      BY <1>8, <3>1, Zenon
    <3>3. CASE Inside' = Inside /\ dropped' = dropped \cup {q.num}
      BY <1>9, <2>2, <3>3
    <3>4. CASE Inside' = Append(Inside, q) /\ dropped' = dropped
      BY <1>9, <1>14, <2>2, <3>2, <3>4, Zenon
    <3>5. QED
      BY <1>10, <3>3, <3>4, Zenon
  <2>3. CASE written[s][k] # q.num
    <3>1. k <= taken'[s] <=> k <= taken[s]
      BY <1>5, <1>7, <1>8, <2>3, Zenon
    <3>2. Holds(Inside', written[s][k]) <=> Holds(Inside, written[s][k])
      BY <1>10, <1>14, <2>3, Zenon
    <3>3. written[s][k] \notin dropped' <=> written[s][k] \notin dropped
      BY <1>10, <2>3
    <3>4. QED
      BY <2>1, <3>1, <3>2, <3>3, Zenon
  <2>4. QED
    BY <2>2, <2>3
<1>16. InOrder(Inside', written)
  <2>1. CASE Inside' = Inside
    BY <2>1, Zenon DEF PacketInv
  <2>2. CASE Inside' = Append(Inside, q)
    <3> SUFFICES ASSUME NEW s \in StreamIDs, NEW k \in 1..Len(written[s]),
                        NEW l \in 1..Len(written[s]), NEW i \in 1..Len(Inside'),
                        NEW j \in 1..Len(Inside')
                 PROVE  Ordered(Inside', written[s], k, l, i, j)
      BY Zenon DEF InOrder
    <3> SUFFICES ASSUME Inside'[i].num = written[s][k], Inside'[j].num = written[s][l], i < j
                 PROVE  k < l
      BY Zenon DEF Ordered
    <3>1. /\ Len(Inside') = Len(Inside) + 1 /\ Len(Inside) \in Nat /\ Inside'[Len(Inside')] = q
          /\ \A x \in 1..Len(Inside) : Inside'[x] = Inside[x]
      BY <1>5, <2>2, InsideSeq
    <3>2. i \in 1..Len(Inside) /\ (j \in 1..Len(Inside) \/ j = Len(Inside'))
      BY <3>1
    <3>3. CASE j \in 1..Len(Inside)
      <4>1. Inside[i].num = written[s][k] /\ Inside[j].num = written[s][l]
        BY <3>1, <3>2, <3>3, Zenon
      <4>2. QED
        BY <3>2, <3>3, <4>1, Zenon DEF PacketInv, InOrder, Ordered
    <3>4. CASE j = Len(Inside')
      <4>1. s = s0 /\ l = N
        BY <1>13, <3>1, <3>4, Zenon
      <4>2. Holds(Inside, written[s][k])
        BY <3>1, <3>2, Zenon DEF Holds
      <4>3. k <= taken[s]
        BY <1>1, <4>2, Zenon DEF PacketInv, Accounted
      <4>4. QED
        BY <1>8, <4>1, <4>3, Zenon
    <3>5. QED
      BY <3>2, <3>3, <3>4
  <2>3. QED
    BY <1>10, <2>1, <2>2, Zenon
<1>17. OnTheWay(Inside', written, taken', net', dropped')
  <2> SUFFICES ASSUME NEW s \in StreamIDs, NEW k \in 1..Len(written[s]), k > taken'[s]
               PROVE  written[s][k] \notin dropped'
    BY <1>11, Zenon DEF OnTheWay
  <2>1. k > taken[s] /\ ~(s = s0 /\ k = N)
    BY <1>7, <1>8, Zenon
  <2>2. written[s][k] # q.num /\ written[s][k] \notin dropped
    BY <1>13, <2>1, Zenon DEF PacketInv, OnTheWay
  <2>3. QED
    BY <1>10, <2>2
<1>18. PacketInv'
  BY <1>1, <1>10, <1>15, <1>16, <1>17, Zenon DEF PacketInv
<1>19. QED
  BY <1>10, <1>12, <1>18

(* The receiver moves a packet on, or closes the flow. *)
LEMMA ReceiverStep ==
  ASSUME SenderInv, NetInv, ReceiverInv, PacketInv,
         NewReceiveFlow \/ Read \/ Write \/ CloseReceiver
  PROVE  NetInv' /\ ReceiverInv' /\ PacketInv'
<1>1. UNCHANGED <<mode, next, written, net, taken, dropped>>
  BY Zenon DEF NewReceiveFlow, Read, Write, CloseReceiver, senderVars, netVars, receiveVars
<1>2. NetInv'
  BY <1>1, NetKept, Zenon
<1>3. ReceiverInv'
  <2>1. CASE NewReceiveFlow
    BY <1>1, <2>1 DEF NewReceiveFlow, ReceiverInv
  <2>2. CASE Read
    <3>1. /\ queue \in Seq(Packet) /\ queue # <<>> /\ rpc = "read" /\ rpc' = "write"
          /\ hand' = Head(queue) /\ queue' = Tail(queue)
          /\ UNCHANGED <<rflow, output>>
      BY <2>2, Zenon DEF Read, ReceiverInv
    <3>2. hand' \in Packet /\ queue' \in Seq(Packet)
      BY <3>1
    <3>3. hand' # NoPacket
      BY <3>2, InteropAssumption, Zenon
    <3>4. rflow # "closed"
      BY <3>1 DEF ReceiverInv
    <3>5. QED
      BY <1>1, <3>1, <3>2, <3>3, <3>4 DEF ReceiverInv
  <2>3. CASE Write
    <3>1. hand \in Packet /\ output \in Seq(Packet) /\ rflow # "closed"
      BY <2>3 DEF Write, ReceiverInv
    <3>2. Append(output, hand) \in Seq(Packet) /\ <<>> \in Seq(Packet)
      BY <3>1
    <3>3. QED
      BY <1>1, <2>3, <3>1, <3>2 DEF Write, ReceiverInv
  <2>4. CASE CloseReceiver
    BY <1>1, <2>4 DEF CloseReceiver, ReceiverInv, receiveVars
  <2>5. QED
    BY <2>1, <2>2, <2>3, <2>4
<1>4. CASE Inside' = Inside /\ (rflow' # "closed" => rflow # "closed")
  BY <1>1, <1>2, <1>3, <1>4, Zenon DEF PacketInv
<1>5. CASE /\ Write /\ rflow' = "closed" /\ Inside' = output
           /\ Len(output) <= Len(Inside) /\ \A i \in 1..Len(output) : output[i] = Inside[i]
  <2>1. /\ Sound(output, next) /\ InOrder(output, written)
        /\ \A n : Holds(output, n) => Holds(Inside, n)
    BY <1>5, PrefixSound, Zenon DEF ReceiverInv, SenderInv, PacketInv
  <2>2. OnTheWay(output, written, taken, net, dropped)
    BY <2>1, Zenon DEF PacketInv, OnTheWay
  <2>3. QED
    BY <1>1, <1>2, <1>3, <1>5, <2>1, <2>2, Zenon DEF PacketInv
<1>6. CASE NewReceiveFlow
  <2>1. Inside' = Inside
    BY <1>6, Zenon DEF NewReceiveFlow, Inside
  <2>2. rflow # "closed"
    BY <1>6 DEF NewReceiveFlow, ReceiverInv
  <2>3. QED
    BY <1>2, <1>3, <1>4, <2>1, <2>2, Zenon
<1>7. CASE Read
  BY <1>2, <1>3, <1>4, <1>7, ReadInside, Zenon DEF Read
<1>8. CASE CloseReceiver
  <2>1. Inside' = Inside /\ rflow' = rflow
    BY <1>8, Zenon DEF CloseReceiver, Inside, receiveVars
  <2>2. QED
    BY <1>2, <1>3, <1>4, <2>1, Zenon
<1>9. CASE Write
  BY <1>2, <1>3, <1>4, <1>5, <1>9, WriteInside, Zenon
<1>10. QED
  BY <1>6, <1>7, <1>8, <1>9

-----------------------------------------------------------------------------
(* The buffer never holds more than its configured size. *)
LEMMA BufferStep ==
  ASSUME ReceiverInv, ConfigInv, [Next]_vars
  PROVE  ConfigInv'
<1>1. config' = config
  BY Zenon DEF Next, vars, Sender, Receiver, NewSendFlow, NewSendStream, ReadFrame,
     SendDatagram, SendOnStream, CloseStream, CloseSender, LoseDatagram, ConnFails,
     HandleDatagram, ReadStream, NewReceiveFlow, Read, Write, CloseReceiver
<1>2. \/ queue' = queue
      \/ \E q : Push(q)
      \/ queue # <<>> /\ queue' = Tail(queue)
      \/ queue' = <<>>
  BY Zenon DEF Next, vars, receiveVars, Sender, Receiver, NewSendFlow, NewSendStream,
     ReadFrame, SendDatagram, SendOnStream, CloseStream, CloseSender, LoseDatagram,
     ConnFails, HandleDatagram, ReadStream, NewReceiveFlow, Read, Write, CloseReceiver
<1>3. config.receiveBufferSize \in Nat
  <2>1. \A c \in Config : c.receiveBufferSize \in Nat
    BY DEF Config
  <2>2. NoConfig.receiveBufferSize = 0
    BY DEF NoConfig
  <2>3. config \in Config \/ config = NoConfig
    BY Zenon DEF ConfigInv
  <2>4. QED
    BY <2>1, <2>2, <2>3
<1>4. queue \in Seq(Packet) /\ Len(queue) <= config.receiveBufferSize
  BY Zenon DEF ConfigInv, ReceiverInv
<1>5. Len(queue') <= config.receiveBufferSize
  <2>1. CASE queue' = queue
    BY <1>4, <2>1, Zenon
  <2>2. ASSUME NEW q, Push(q) PROVE Len(queue') <= config.receiveBufferSize
    <3>1. \/ queue' = queue
          \/ ~(Len(queue) >= config.receiveBufferSize) /\ queue' = Append(queue, q)
      BY <2>2, Zenon DEF Push
    <3>2. QED
      BY <1>3, <1>4, <3>1
  <2>3. CASE queue # <<>> /\ queue' = Tail(queue)
    BY <1>3, <1>4, <2>3
  <2>4. CASE queue' = <<>>
    BY <1>3, <2>4
  <2>5. QED
    BY <1>2, <2>1, <2>2, <2>3, <2>4, Zenon
<1>6. QED
  BY <1>1, <1>5, Zenon DEF ConfigInv

(* What a packet has in front of it does not change inside the receiver,    *)
(* and is nothing when the sender encodes flow IDs as this library does.    *)
LEMMA IntactStep ==
  ASSUME IDWidths = {VarintLen(FlowID)}, NetInv, ReceiverInv, PacketsAreIntact, [Next]_vars
  PROVE  PacketsAreIntact'
<1>1. Inside \in Seq(Packet) /\ \A i \in 1..Len(Inside) : Inside[i].extra = 0
  BY InsideSeq DEF PacketsAreIntact
<1>2. ASSUME NEW q \in Packet, q.extra = 0, Push(q), UNCHANGED copyVars
      PROVE  PacketsAreIntact'
  <2>1. queue' = queue \/ queue' = Append(queue, q)
    BY <1>2, Zenon DEF Push
  <2>2. CASE queue' = queue
    BY <1>2, <2>2, Zenon DEF PacketsAreIntact, Inside, copyVars
  <2>3. CASE queue' = Append(queue, q)
    <3>1. Inside' = Append(Inside, q)
      BY <1>2, <2>3, PushInside, Zenon
    <3>2. \A i \in DOMAIN Append(Inside, q) : Append(Inside, q)[i].extra = 0
      BY <1>1, <1>2
    <3>3. QED
      BY <3>1, <3>2, Zenon DEF PacketsAreIntact
  <2>4. QED
    BY <2>1, <2>2, <2>3
<1>3. CASE HandleDatagram
  <2>1. PICK d \in net : Push([num |-> d.num, extra |-> d.width - VarintLen(FlowID)])
    BY <1>3, Zenon DEF HandleDatagram
  <2>2. d.num \in Nat /\ d.width = VarintLen(FlowID)
    BY DEF NetInv
  <2>3. VarintLen(FlowID) \in Nat
    <3>1. FlowID \in Nat
      BY InteropAssumption, Zenon
    <3>2. QED
      BY <3>1, SMT DEF VarintLen
  <2> DEFINE q == [num |-> d.num, extra |-> d.width - VarintLen(FlowID)]
  <2>4. q \in Packet /\ q.extra = 0
    BY <2>2, <2>3 DEF Packet
  <2>5. UNCHANGED copyVars
    BY <1>3, Zenon DEF HandleDatagram
  <2> HIDE DEF q
  <2>6. QED
    BY <1>2, <2>1, <2>4, <2>5 DEF q
<1>4. ASSUME NEW s \in StreamIDs, ReadStream(s) PROVE PacketsAreIntact'
  <2> DEFINE q == [num |-> written[s][taken[s] + 1], extra |-> 0]
  <2>1. Push(q) /\ UNCHANGED copyVars
    BY <1>4, Zenon DEF ReadStream
  <2>2. taken[s] + 1 \in 1..Len(written[s]) /\ written[s] \in Seq(Nat)
    BY <1>4 DEF ReadStream, NetInv
  <2>3. q \in Packet /\ q.extra = 0
    BY <2>2 DEF Packet
  <2> HIDE DEF q
  <2>4. QED
    BY <1>2, <2>1, <2>3, Zenon
<1>5. CASE Read
  BY <1>5, ReadInside, Zenon DEF PacketsAreIntact
<1>6. CASE Write
  <2>1. CASE Inside' = Inside
    BY <2>1, Zenon DEF PacketsAreIntact
  <2>2. CASE /\ Inside' = output
             /\ Len(output) <= Len(Inside) /\ \A i \in 1..Len(output) : output[i] = Inside[i]
    <3>1. output \in Seq(Packet)
      BY Zenon DEF ReceiverInv
    <3>2. \A i \in DOMAIN output : output[i].extra = 0
      BY <1>1, <2>2, <3>1
    <3>3. QED
      BY <2>2, <3>2, Zenon DEF PacketsAreIntact
  <2>3. QED
    BY <1>6, <2>1, <2>2, WriteInside, Zenon
<1>7. CASE Inside' = Inside
  BY <1>7, Zenon DEF PacketsAreIntact
<1>8. Sender \/ LoseDatagram \/ ConnFails \/ NewReceiveFlow \/ CloseReceiver
        \/ UNCHANGED vars => Inside' = Inside
  BY Zenon DEF Inside, vars, receiveVars, copyVars, Sender, NewSendFlow, NewSendStream,
     ReadFrame, SendDatagram, SendOnStream, CloseStream, CloseSender, LoseDatagram,
     ConnFails, NewReceiveFlow, CloseReceiver
<1>9. QED
  BY <1>3, <1>4, <1>5, <1>6, <1>7, <1>8, Zenon DEF Next, Receiver

-----------------------------------------------------------------------------
(* The invariant holds when both programs start. *)
LEMMA Initially ==
  ASSUME Init
  PROVE  IInv /\ ConfigInv /\ PacketsAreIntact
<1>1. /\ mode \in Modes /\ spc = "flow" /\ frame = 0 /\ next = 1 /\ flow = "none"
      /\ opened = {} /\ closed = {} /\ written = [s \in StreamIDs |-> <<>>] /\ net = {}
      /\ conn = "up" /\ rflow = "none" /\ queue = <<>> /\ dropped = {}
      /\ taken = [s \in StreamIDs |-> 0] /\ hand = NoPacket /\ output = <<>>
      /\ rpc = (IF config = NoConfig THEN "done" ELSE "new")
  BY Zenon DEF Init
<1>2. Frames \in Nat /\ PerFrame \in Nat /\ Modes \subseteq {"datagram", "frame", "single"}
  BY InteropAssumption
<1>3. SenderInv /\ SendLeavesNoStreamOpen
  <2>1. 0 * PerFrame = 0
    BY <1>2
  <2>2. QED
    BY <1>1, <1>2, <2>1 DEF SenderInv, SendLeavesNoStreamOpen
<1>4. \A s \in StreamIDs : written[s] = <<>> /\ taken[s] = 0 /\ 1..Len(written[s]) = {}
  BY <1>1
<1>5. NetInv
  <2>1. written \in [StreamIDs -> Seq(Nat)] /\ taken \in [StreamIDs -> Nat]
    BY <1>1
  <2>2. \A s \in StreamIDs : taken[s] <= Len(written[s])
    BY <1>4
  <2>3. QED
    BY <1>1, <1>4, <2>1, <2>2, Zenon DEF NetInv
<1>6. rpc \in {"new", "done"}
  BY <1>1
<1>7. ReceiverInv
  BY <1>1, <1>6 DEF ReceiverInv
<1>8. Inside = <<>>
  <2>1. Inside = <<>> \o <<>> \o <<>>
    BY <1>1, Zenon DEF Inside
  <2>2. <<>> \o <<>> = <<>>
    OBVIOUS
  <2>3. QED
    BY <2>1, <2>2, Zenon
<1>9. Inside \in Seq(Packet) /\ 1..Len(Inside) = {} /\ DOMAIN Inside = {}
  BY <1>8
<1>10. PacketInv
  BY <1>1, <1>4, <1>9, Zenon DEF PacketInv, Sound, InOrder, Accounted, OnTheWay
<1>11. PacketsAreIntact
  BY <1>9, Zenon DEF PacketsAreIntact
<1>12. ConfigInv
  <2>1. PICK opts \in OptionLists : config = newSessionConfig(opts)
    BY Zenon DEF Init
  <2>2. opts \in Seq(Option)
    BY InteropAssumption, Zenon
  <2>3. config \in Config \cup {NoConfig}
    BY <2>1, <2>2, OptionsAreChecked, Zenon DEF Outcome
  <2>4. config.receiveBufferSize \in Nat
    <3>1. \A c \in Config : c.receiveBufferSize \in Nat
      BY DEF Config
    <3>2. NoConfig.receiveBufferSize = 0
      BY DEF NoConfig
    <3>3. QED
      BY <2>3, <3>1, <3>2
  <2>5. Len(queue) <= config.receiveBufferSize
    BY <1>1, <2>4
  <2>6. QED
    BY <2>3, <2>5, Zenon DEF ConfigInv
<1>13. QED
  BY <1>3, <1>5, <1>7, <1>10, <1>11, <1>12, Zenon DEF IInv

(* Every step keeps the invariant, one step of the proof per action. *)
LEMMA Invariance ==
  ASSUME IInv, [Next]_vars
  PROVE  IInv'
<1> USE DEF IInv
<1>0. SenderInv /\ NetInv /\ ReceiverInv /\ PacketInv /\ SendLeavesNoStreamOpen
  BY Zenon
<1>1. CASE NewSendFlow \/ NewSendStream \/ ReadFrame \/ CloseStream \/ CloseSender
  <2>1. SenderInv' /\ SendLeavesNoStreamOpen' /\ next' = next /\ mode' = mode
    BY <1>1, SenderStep, Zenon
  <2>2. UNCHANGED <<written, taken, rflow, queue, dropped, copyVars, net>>
    BY <1>1, Zenon DEF NewSendFlow, NewSendStream, ReadFrame, CloseStream, CloseSender,
       netVars, receiveVars
  <2>3. net' \subseteq net
    BY <2>2
  <2>4. QED
    BY <2>1, <2>2, <2>3, PacketsKept, Zenon
<1>2. CASE SendDatagram
  <2>1. /\ spc = "write" /\ mode = "datagram" /\ conn' = conn
        /\ UNCHANGED <<written, taken, rflow, queue, dropped, copyVars>>
    BY <1>2, Zenon DEF SendDatagram, receiveVars
  <2>2. CASE Return(TRUE) /\ UNCHANGED net
    <3>1. SenderInv' /\ SendLeavesNoStreamOpen' /\ next' = next /\ mode' = mode
      BY <2>1, <2>2, ReturnStep, Zenon
    <3>2. net' \subseteq net
      BY <2>2
    <3>3. QED
      BY <2>1, <3>1, <3>2, PacketsKept, Zenon
  <2>3. ASSUME NEW w \in IDWidths, net' = net \cup {[num |-> next, width |-> w]},
               PacketWritten
        PROVE  IInv'
    <3>1. SenderInv' /\ SendLeavesNoStreamOpen' /\ next' = next + 1 /\ mode' = mode
      BY <2>1, <2>3, PacketWrittenStep, Zenon
    <3>2. NetInv' /\ ReceiverInv' /\ PacketInv'
      BY <2>1, <2>3, <3>1, DatagramSent, Zenon
    <3>3. QED
      BY <3>1, <3>2, Zenon
  <2>4. QED
    BY <1>2, <2>2, <2>3, Zenon DEF SendDatagram
<1>3. CASE SendOnStream
  <2>1. /\ spc = "write" /\ mode # "datagram" /\ conn' = conn
        /\ UNCHANGED <<net, taken, rflow, queue, dropped, copyVars>>
    BY <1>3, Zenon DEF SendOnStream, receiveVars
  <2>2. CASE Return(TRUE) /\ UNCHANGED written
    <3>1. SenderInv' /\ SendLeavesNoStreamOpen' /\ next' = next /\ mode' = mode
      BY <2>1, <2>2, ReturnStep, Zenon
    <3>2. net' \subseteq net
      BY <2>1
    <3>3. QED
      BY <2>1, <2>2, <3>1, <3>2, PacketsKept, Zenon
  <2>3. CASE written' = [written EXCEPT ![Stream] = Append(@, next)] /\ PacketWritten
    <3>1. SenderInv' /\ SendLeavesNoStreamOpen' /\ next' = next + 1 /\ mode' = mode
      BY <2>1, <2>3, PacketWrittenStep, Zenon
    <3>2. Stream \in StreamIDs
      BY <2>1, InteropAssumption DEF Stream, StreamIDs, SenderInv
    <3>3. NetInv' /\ ReceiverInv' /\ PacketInv'
      BY <2>1, <2>3, <3>1, <3>2, PacketOnStream, Zenon
    <3>4. QED
      BY <3>1, <3>3, Zenon
  <2>4. QED
    BY <1>3, <2>2, <2>3, Zenon DEF SendOnStream
<1>4. CASE \/ LoseDatagram \/ ConnFails \/ UNCHANGED vars
  <2>1. /\ UNCHANGED <<senderVars, written, taken, rflow, queue, dropped, copyVars>>
        /\ conn' \in {conn, "down"} /\ (net' = net \/ \E d \in net : net' = net \ {d})
    BY <1>4, Zenon DEF LoseDatagram, ConnFails, vars, netVars, receiveVars
  <2>2. net' \subseteq net
    BY <2>1
  <2>3. UNCHANGED <<mode, next>>
    BY <2>1, Zenon DEF senderVars
  <2>4. NetInv' /\ ReceiverInv' /\ PacketInv'
    BY <2>1, <2>2, <2>3, PacketsKept, Zenon
  <2>5. SenderInv' /\ SendLeavesNoStreamOpen'
    BY <2>1 DEF SenderInv, SendLeavesNoStreamOpen, senderVars
  <2>6. QED
    BY <2>4, <2>5, Zenon
<1>5. CASE \/ HandleDatagram \/ (\E s \in StreamIDs : ReadStream(s))
           \/ NewReceiveFlow \/ Receiver
  <2>1. NetInv' /\ ReceiverInv' /\ PacketInv'
    BY <1>5, DatagramArrives, PacketArrives, ReceiverStep, Zenon DEF Receiver
  <2>2. UNCHANGED senderVars /\ conn' \in {conn, "down"}
    BY <1>5, Zenon DEF HandleDatagram, ReadStream, NewReceiveFlow, Receiver, Read, Write,
       CloseReceiver
  <2>3. SenderInv' /\ SendLeavesNoStreamOpen'
    BY <2>2 DEF SenderInv, SendLeavesNoStreamOpen, senderVars
  <2>4. QED
    BY <2>1, <2>3, Zenon
<1>6. QED
  BY <1>1, <1>2, <1>3, <1>4, <1>5, Zenon DEF Next, Sender

(* However send ends, flow.Close has reached every stream it opened. *)
THEOREM SendClosesItsStreams == Spec => []SendLeavesNoStreamOpen
<1>1. Init => IInv
  BY Initially, Zenon
<1>2. IInv /\ [Next]_vars => IInv'
  BY Invariance, Zenon
<1>3. IInv => SendLeavesNoStreamOpen
  BY Zenon DEF IInv
<1>4. QED
  BY <1>1, <1>2, <1>3, PTL DEF Spec

(* The sender numbers its packets within Numbers. *)
LEMMA NumbersBelow ==
  ASSUME IInv
  PROVE  /\ next \in 1..(Frames * PerFrame + 1)
         /\ \A n \in Nat : n >= 1 /\ n < next => n \in Numbers
<1> DEFINE M == Frames * PerFrame
<1>1. /\ frame * PerFrame \in Nat /\ frame * PerFrame <= M /\ M \in Nat
  BY PacketsOfFrames, Zenon DEF IInv, SenderInv
<1>2. next \in Nat /\ next >= 1 /\ next <= frame * PerFrame + 1
  BY Zenon DEF IInv, SenderInv
<1> HIDE DEF M
<1>3. \A a, b, c \in Nat : a <= b /\ c >= 1 /\ c <= a + 1 => c \in 1..(b + 1)
  OBVIOUS
<1>4. next \in 1..(M + 1)
  BY <1>1, <1>2, <1>3, Zenon
<1>5. \A n \in Nat : n >= 1 /\ n < next => n \in 1..M
  BY <1>1, <1>4
<1>6. QED
  BY <1>4, <1>5, Zenon DEF M, Numbers

(* What the readers of the streams have passed to push. *)
PushedType == pushed \in [StreamIDs -> Seq(Numbers)]

(* Every step passes on packets of the sender only. *)
LEMMA PushedTypeStep ==
  ASSUME IInv, PushedType, [Next]_vars
  PROVE  PushedType'
<1>1. UNCHANGED pushed \/ \E s \in StreamIDs : ReadStream(s)
  BY Zenon DEF Next, vars, receiveVars, Sender, Receiver, NewSendFlow, NewSendStream,
     ReadFrame, SendDatagram, SendOnStream, CloseStream, CloseSender, LoseDatagram, ConnFails,
     HandleDatagram, NewReceiveFlow, Read, Write, CloseReceiver
<1>2. ASSUME NEW s \in StreamIDs, ReadStream(s) PROVE PushedType'
  <2> DEFINE n == written[s][taken[s] + 1]
  <2>1. /\ taken[s] < Len(written[s])
        /\ pushed' = [pushed EXCEPT ![s] = Append(@, [num |-> n, extra |-> 0].num)]
    BY <1>2, Zenon DEF ReadStream
  <2>2. taken[s] \in Nat /\ written[s] \in Seq(Nat)
    BY Zenon DEF IInv, NetInv
  <2>3. taken[s] + 1 \in 1..Len(written[s]) /\ n \in Nat
    BY <2>1, <2>2
  <2>4. n >= 1 /\ n < next
    BY <2>3, Zenon DEF IInv, NetInv
  <2>5. n \in Numbers
    BY <2>3, <2>4, NumbersBelow, Zenon
  <2> HIDE DEF n
  <2>6. QED
    BY <2>1, <2>5 DEF PushedType
<1>3. QED
  BY <1>1, <1>2, Zenon DEF PushedType

(* Every variable has its type; a session that exists has a configuration   *)
(* newSessionConfig accepts, and the buffer of its flow stays within it.    *)
THEOREM InteropTypeCorrect == Spec => []InteropTypeOK
<1>1. Init => IInv /\ ConfigInv /\ PushedType
  <2>1. Init => PushedType
    BY DEF Init, PushedType
  <2>2. QED
    BY <2>1, Initially, Zenon
<1>2. IInv /\ [Next]_vars => IInv'
  BY Invariance, Zenon
<1>3. IInv /\ ConfigInv /\ [Next]_vars => ConfigInv'
  BY BufferStep, Zenon DEF IInv
<1>4. IInv /\ PushedType /\ [Next]_vars => PushedType'
  BY PushedTypeStep, Zenon
<1>5. ASSUME IInv, ConfigInv, PushedType PROVE InteropTypeOK
  <2>1. SenderInv /\ NetInv /\ ReceiverInv /\ PacketInv
    BY <1>5, Zenon DEF IInv
  <2>2. /\ next \in 1..(Frames * PerFrame + 1)
        /\ \A n \in Nat : n >= 1 /\ n < next => n \in Numbers
    BY <1>5, NumbersBelow, Zenon
  <2>4. \A s \in StreamIDs : taken[s] \in 0..Len(written[s]) /\ pushed[s] \in Seq(Numbers)
    BY <1>5, <2>1 DEF NetInv, PushedType
  <2>5. net \subseteq [num : Numbers, width : Widths]
    <3>1. ASSUME NEW d \in net PROVE d \in [num : Numbers, width : Widths]
      <4>1. d \in [num : Nat, width : IDWidths] /\ d.num >= 1 /\ d.num < next
        BY <2>1, Zenon DEF NetInv
      <4>2. d.num \in Numbers
        BY <2>2, <4>1, Zenon
      <4>3. IDWidths \subseteq Widths
        BY InteropAssumption, Zenon
      <4>4. QED
        BY <4>1, <4>2, <4>3
    <3>2. QED
      BY <3>1
  <2>6. config # NoConfig =>
          /\ config.receiveBufferSize > 0 /\ config.unknownFlowBufferSize > 0
          /\ config.logger /\ config.qlogPacketDataLimit >= 0
          /\ Len(queue) <= config.receiveBufferSize
    <3>1. \A c \in Config : /\ c.receiveBufferSize > 0 /\ c.unknownFlowBufferSize > 0
                            /\ c.qlogPacketDataLimit >= 0
      BY DEF Config
    <3>2. \A c \in Config : c.logger
      BY Zenon DEF Config
    <3>3. QED
      BY <1>5, <3>1, <3>2, Zenon DEF ConfigInv
  <2>7. dropped \subseteq Numbers
    BY <2>1, <2>2, Zenon DEF ReceiverInv
  <2>8. hand = NoPacket \/ hand.num \in Numbers
    <3>1. CASE hand # NoPacket
      <4>1. hand \in Packet /\ output \in Seq(Packet) /\ queue \in Seq(Packet)
        BY <2>1, <3>1, Zenon DEF ReceiverInv
      <4>2. Inside = output \o <<hand>> \o queue
        BY <3>1, Zenon DEF Inside
      <4>3. /\ Len(output) + 1 \in 1..Len(output \o <<hand>> \o queue)
            /\ (output \o <<hand>> \o queue)[Len(output) + 1] = hand
        BY <4>1
      <4>4. hand.num >= 1 /\ hand.num < next
        BY <2>1, <4>2, <4>3, Zenon DEF PacketInv, Sound
      <4>5. hand.num \in Nat
        BY <4>1 DEF Packet
      <4>6. QED
        BY <2>2, <4>4, <4>5, Zenon
    <3>2. QED
      BY <3>1
  <2>9. QED
    BY <2>1, <2>2, <2>4, <2>5, <2>6, <2>7, <2>8, Zenon DEF InteropTypeOK, SenderInv, ReceiverInv
<1>6. QED
  BY <1>1, <1>2, <1>3, <1>4, <1>5, PTL DEF Spec

(* The invariant says of Inside what EachArrivesOnce says of its numbers. *)
LEMMA InvariantMeans ==
  ASSUME IInv
  PROVE  EachArrivesOnce
<1> DEFINE got == Nums(Inside)
<1>1. SenderInv /\ NetInv /\ ReceiverInv /\ PacketInv
  BY Zenon DEF IInv
<1>2. Inside \in Seq(Packet)
  BY <1>1, InsideSeq, Zenon
<1>3. /\ DOMAIN got = 1..Len(Inside) /\ DOMAIN Inside = 1..Len(Inside)
      /\ \A i \in 1..Len(Inside) : got[i] = Inside[i].num /\ Inside[i].num \in Nat
  <2>1. DOMAIN Inside = 1..Len(Inside) /\ \A i \in 1..Len(Inside) : Inside[i] \in Packet
    BY <1>2
  <2>2. got = [i \in 1..Len(Inside) |-> Inside[i].num]
    BY <2>1, Zenon DEF Nums
  <2>3. \A i \in 1..Len(Inside) : Inside[i].num \in Nat
    BY <2>1, Zenon DEF Packet
  <2> HIDE DEF got
  <2>4. QED
    BY <2>1, <2>2, <2>3, Zenon
<1>4. \A s \in StreamIDs : DOMAIN written[s] = 1..Len(written[s])
  BY <1>1 DEF NetInv
<1> HIDE DEF got
<1>5. \A i \in DOMAIN got : got[i] \in 1..(next - 1)
  <2>1. \A n \in Nat : n >= 1 /\ n < next => n \in 1..(next - 1)
    BY <1>1 DEF SenderInv
  <2>2. QED
    BY <1>1, <1>3, <2>1, Zenon DEF PacketInv, Sound
<1>6. \A i, j \in DOMAIN got : i # j => got[i] # got[j]
  BY <1>1, <1>3, Zenon DEF PacketInv, Sound
<1>7. ASSUME NEW s \in StreamIDs, NEW k \in DOMAIN written[s], rflow # "closed"
      PROVE  (\E i \in DOMAIN got : got[i] = written[s][k]) <=>
               k <= taken[s] /\ written[s][k] \notin dropped
  <2>1. Holds(Inside, written[s][k]) <=> k <= taken[s] /\ written[s][k] \notin dropped
    BY <1>1, <1>4, <1>7, Zenon DEF PacketInv, Accounted
  <2>2. Holds(Inside, written[s][k]) <=> \E i \in DOMAIN got : got[i] = written[s][k]
    BY <1>3, Zenon DEF Holds
  <2>3. QED
    BY <2>1, <2>2, Zenon
<1>8. ASSUME NEW s \in StreamIDs, NEW k \in DOMAIN written[s], NEW l \in DOMAIN written[s],
             NEW i \in DOMAIN got, NEW j \in DOMAIN got,
             got[i] = written[s][k], got[j] = written[s][l], i < j
      PROVE  k < l
  <2>1. /\ i \in 1..Len(Inside) /\ j \in 1..Len(Inside)
        /\ Inside[i].num = written[s][k] /\ Inside[j].num = written[s][l]
        /\ k \in 1..Len(written[s]) /\ l \in 1..Len(written[s])
    BY <1>3, <1>4, <1>8, Zenon
  <2>2. QED
    BY <1>1, <1>8, <2>1, Zenon DEF PacketInv, InOrder, Ordered
<1>9. QED
  BY <1>5, <1>6, <1>7, <1>8, Zenon DEF EachArrivesOnce, got

(* In every mode, whatever the sender's encoding of flow IDs, each packet   *)
(* reaches the receiver's writer at most once, in the order of its stream,  *)
(* and none is lost inside the receiver while its flow is open.             *)
THEOREM ReceiverLosesNothing == Spec => []EachArrivesOnce
<1>1. Init => IInv
  BY Initially, Zenon
<1>2. IInv /\ [Next]_vars => IInv'
  BY Invariance, Zenon
<1>3. IInv => EachArrivesOnce
  BY InvariantMeans, Zenon
<1>4. QED
  BY <1>1, <1>2, <1>3, PTL DEF Spec

(* With a sender that writes flow IDs as this library does, in the shortest *)
(* encoding, packets also arrive with nothing in front of them.             *)
THEOREM LibraryInteroperatesWithItself ==
  ASSUME IDWidths = {VarintLen(FlowID)}
  PROVE  Spec => []ArrivesAsSent
<1>1. Init => IInv /\ PacketsAreIntact
  BY Initially, Zenon
<1>2. IInv /\ [Next]_vars => IInv'
  BY Invariance, Zenon
<1>3. IInv /\ PacketsAreIntact /\ [Next]_vars => PacketsAreIntact'
  BY IntactStep, Zenon DEF IInv
<1>4. IInv /\ PacketsAreIntact => ArrivesAsSent
  BY InvariantMeans, Zenon DEF ArrivesAsSent
<1>5. QED
  BY <1>1, <1>2, <1>3, <1>4, PTL DEF Spec

-----------------------------------------------------------------------------
(* Each stream of the sender, seen as a PacketStream of packet numbers.     *)
PS(s) == INSTANCE PacketStream
           WITH Packets <- Numbers, sent <- written[s],
                received <- pushed[s],
                stream <- IF s \in closed THEN "closed" ELSE "open"

(* Prefixes of a sequence that grows, and prefixes that grow. *)
LEMMA Prefixes ==
  ASSUME NEW w \in Seq(Nat), NEW t \in Nat, t <= Len(w), NEW x \in Nat
  PROVE  /\ SubSeq(w, 1, t) \in Seq(Nat) /\ Len(SubSeq(w, 1, t)) = t
         /\ SubSeq(Append(w, x), 1, t) = SubSeq(w, 1, t)
         /\ t < Len(w) => SubSeq(w, 1, t + 1) = Append(SubSeq(w, 1, t), w[t + 1])
<1>1. /\ SubSeq(w, 1, t) \in Seq(Nat) /\ Len(SubSeq(w, 1, t)) = t
      /\ \A i \in 1..t : SubSeq(w, 1, t)[i] = w[i]
  OBVIOUS
<1>2. /\ Append(w, x) \in Seq(Nat) /\ t <= Len(Append(w, x))
      /\ \A i \in 1..t : Append(w, x)[i] = w[i]
  OBVIOUS
<1>3. SubSeq(Append(w, x), 1, t) = SubSeq(w, 1, t)
  <2>1. /\ SubSeq(Append(w, x), 1, t) \in Seq(Nat) /\ Len(SubSeq(Append(w, x), 1, t)) = t
        /\ \A i \in 1..t : SubSeq(Append(w, x), 1, t)[i] = Append(w, x)[i]
    BY <1>2
  <2>2. QED
    BY <1>1, <1>2, <2>1, SeqEqual, Zenon
<1>4. ASSUME t < Len(w) PROVE SubSeq(w, 1, t + 1) = Append(SubSeq(w, 1, t), w[t + 1])
  <2> DEFINE a == SubSeq(w, 1, t)
             b == SubSeq(w, 1, t + 1)
  <2>1. /\ b \in Seq(Nat) /\ Len(b) = t + 1 /\ \A i \in 1..(t + 1) : b[i] = w[i]
    BY <1>4
  <2>2. w[t + 1] \in Nat
    BY <1>4
  <2>3. a \in Seq(Nat) /\ Len(a) = t /\ \A i \in 1..t : a[i] = w[i]
    BY <1>1
  <2> HIDE DEF a, b
  <2> DEFINE c == Append(a, w[t + 1])
  <2>4. c \in Seq(Nat) /\ Len(c) = t + 1 /\ \A i \in 1..(t + 1) : c[i] = w[i]
    BY <2>2, <2>3
  <2> HIDE DEF c
  <2>5. b = c
    BY <2>1, <2>4, SeqEqual, Zenon
  <2>6. QED
    BY <2>5 DEF a, b, c
<1>5. QED
  BY <1>1, <1>3, <1>4

(* What a step may do to one stream: nothing, one packet written, one       *)
(* packet read, or its end.                                                 *)
StreamMoves(s) ==
  \/ UNCHANGED <<written[s], taken[s], pushed[s], s \in closed>>
  \/ /\ next \in Numbers /\ written[s]' = Append(written[s], next)
     /\ UNCHANGED <<taken[s], pushed[s], s \in closed>>
  \/ /\ taken[s] < Len(written[s]) /\ taken[s]' = taken[s] + 1
     /\ pushed[s]' = Append(pushed[s], written[s][taken[s] + 1])
     /\ UNCHANGED <<written[s], s \in closed>>
  \/ /\ s \notin closed /\ s \in closed'
     /\ UNCHANGED <<written[s], taken[s], pushed[s]>>

(* Every step does one of these. *)
LEMMA StreamStep ==
  ASSUME IInv, PushedType, [Next]_vars, NEW s \in StreamIDs
  PROVE  StreamMoves(s)
<1>1. SenderInv /\ NetInv
  BY Zenon DEF IInv
<1>2. written \in [StreamIDs -> Seq(Nat)] /\ taken \in [StreamIDs -> Nat]
  BY <1>1, Zenon DEF NetInv
<1>3. CASE UNCHANGED <<written, taken, pushed>> /\ closed \subseteq closed'
  BY <1>3 DEF StreamMoves
<1>4. CASE SendOnStream /\ written' # written
  <2>1. /\ spc = "write" /\ written' = [written EXCEPT ![Stream] = Append(@, next)]
        /\ UNCHANGED <<taken, pushed, closed>>
    BY <1>4, Zenon DEF SendOnStream, PacketWritten, receiveVars
  <2>2. next \in Numbers
    <3>1. /\ frame * PerFrame \in Nat /\ frame * PerFrame <= Frames * PerFrame
          /\ Frames * PerFrame \in Nat
      BY <1>1, PacketsOfFrames, Zenon DEF SenderInv
    <3>2. next \in Nat /\ next >= 1 /\ next <= frame * PerFrame
      BY <1>1, <2>1, Zenon DEF SenderInv
    <3>3. \A a, b, c \in Nat : a <= b /\ c >= 1 /\ c <= a => c \in 1..b
      OBVIOUS
    <3>4. QED
      BY <3>1, <3>2, <3>3, Zenon DEF Numbers
  <2>3. CASE s = Stream
    <3>1. written'[s] = Append(written[s], next)
      BY <1>2, <2>1, <2>3, Zenon
    <3>2. QED
      BY <2>1, <2>2, <3>1, Zenon DEF StreamMoves
  <2>4. CASE s # Stream
    <3>1. written'[s] = written[s]
      BY <1>2, <2>1, <2>4, Zenon
    <3>2. QED
      BY <2>1, <3>1, Zenon DEF StreamMoves
  <2>5. QED
    BY <2>3, <2>4
<1>5. ASSUME NEW u \in StreamIDs, ReadStream(u) PROVE StreamMoves(s)
  <2>1. /\ taken[u] < Len(written[u]) /\ taken' = [taken EXCEPT ![u] = @ + 1]
        /\ pushed' = [pushed EXCEPT
                        ![u] = Append(@, [num |-> written[u][taken[u] + 1], extra |-> 0].num)]
        /\ UNCHANGED <<written, closed>>
    BY <1>5, Zenon DEF ReadStream, senderVars, netVars
  <2>2. CASE s = u
    <3>1. /\ taken'[s] = taken[s] + 1
          /\ pushed'[s] = Append(pushed[s], written[s][taken[s] + 1])
      BY <1>2, <2>1, <2>2 DEF PushedType
    <3>2. QED
      BY <2>1, <2>2, <3>1, Zenon DEF StreamMoves
  <2>3. CASE s # u
    <3>1. taken'[s] = taken[s] /\ pushed'[s] = pushed[s]
      BY <1>2, <2>1, <2>3, Zenon DEF PushedType
    <3>2. QED
      BY <2>1, <3>1, Zenon DEF StreamMoves
  <2>4. QED
    BY <2>2, <2>3
<1>6. \/ UNCHANGED <<written, taken, pushed>> /\ closed \subseteq closed'
      \/ SendOnStream /\ written' # written
      \/ \E u \in StreamIDs : ReadStream(u)
  BY Zenon DEF Next, vars, senderVars, netVars, receiveVars, Sender, Receiver, NewSendFlow,
     NewSendStream, ReadFrame, SendDatagram, SendOnStream, CloseStream, CloseSender,
     LoseDatagram, ConnFails, HandleDatagram, NewReceiveFlow, Read, Write, CloseReceiver,
     Return, PacketWritten
<1>7. QED
  BY <1>3, <1>4, <1>5, <1>6, Zenon

(* Every stream of the interop sender is a PacketStream: what its reader    *)
(* passed to push is what WriteRTPBytes was given, in that order, nothing   *)
(* left out, repeated or mistaken for another packet, as StreamTransfer     *)
(* shows of the bytes.                                                      *)
THEOREM StreamsArePacketStreams ==
  ASSUME NEW s \in StreamIDs
  PROVE  Spec => PS(s)!Spec
<1> DEFINE w == written[s]
           t == taken[s]
           d == pushed[s]
           Prefix == d = SubSeq(w, 1, t)
<1>1. Init => PS(s)!Init /\ PushedType /\ Prefix
  <2> SUFFICES ASSUME Init PROVE PS(s)!Init /\ PushedType /\ Prefix
    OBVIOUS
  <2>1. w = <<>> /\ t = 0 /\ d = <<>> /\ s \notin closed /\ PushedType
    BY DEF Init, PushedType
  <2>2. SubSeq(<<>>, 1, 0) = <<>>
    OBVIOUS
  <2>3. QED
    BY <2>1, <2>2 DEF PS!Init
<1>2. ASSUME IInv, PushedType, Prefix, [Next]_vars
      PROVE  [PS(s)!Next]_(PS(s)!vars) /\ Prefix'
  <2>1. w \in Seq(Nat) /\ t \in Nat /\ t <= Len(w)
    BY <1>2 DEF IInv, NetInv
  <2>2. StreamMoves(s)
    BY <1>2, StreamStep, Zenon
  <2>3. CASE UNCHANGED <<w, t, d, s \in closed>>
    BY <1>2, <2>3 DEF PS!vars
  <2>4. CASE /\ next \in Numbers /\ w' = Append(w, next) /\ t' = t /\ d' = d
             /\ UNCHANGED (s \in closed)
    <3>1. next \in Nat
      BY <1>2 DEF IInv, SenderInv
    <3>2. SubSeq(w', 1, t') = SubSeq(w, 1, t)
      BY <2>1, <2>4, <3>1, Prefixes
    <3>3. PS(s)!Send
      BY <2>4 DEF PS!Send
    <3>4. QED
      BY <1>2, <2>4, <3>2, <3>3 DEF PS!Next
  <2>5. CASE /\ t < Len(w) /\ t' = t + 1 /\ d' = Append(d, w[t + 1]) /\ w' = w
             /\ UNCHANGED (s \in closed)
    <3>1. Len(SubSeq(w, 1, t)) = t /\ SubSeq(w, 1, t + 1) = Append(SubSeq(w, 1, t), w[t + 1])
      BY <2>1, <2>5, Prefixes
    <3>2. PS(s)!HasNext
      BY <1>2, <2>5, <3>1 DEF PS!HasNext
    <3>3. PS(s)!Deliver
      BY <1>2, <2>5, <3>1, <3>2 DEF PS!Deliver
    <3>4. QED
      BY <1>2, <2>5, <3>1, <3>3 DEF PS!Next
  <2>6. CASE s \notin closed /\ s \in closed' /\ UNCHANGED <<w, t, d>>
    <3>1. PS(s)!Stop
      BY <2>6 DEF PS!Stop
    <3>2. QED
      BY <1>2, <2>6, <3>1 DEF PS!Next
  <2>7. QED
    BY <2>2, <2>3, <2>4, <2>5, <2>6 DEF StreamMoves
<1>3. Init => IInv
  BY Initially, Zenon
<1>4. IInv /\ [Next]_vars => IInv'
  BY Invariance, Zenon
<1>5. IInv /\ PushedType /\ [Next]_vars => PushedType'
  BY PushedTypeStep, Zenon
<1>6. QED
  BY <1>1, <1>2, <1>3, <1>4, <1>5, PTL DEF Spec, PS!Spec
=============================================================================
