--------------------------- MODULE FlowRoutingProofs ---------------------------
(***************************************************************************)
(* The invariants of FlowRouting, for every number of flow IDs, handlers,  *)
(* openers and closers and every size of the buffer.                       *)
(***************************************************************************)
EXTENDS FlowRouting, Integers, TLAPS

(* A flow that a map holds under an ID is one of that ID, and not evicted. *)
IsLive(f, id) == f \in 1..made /\ idOf[f] = id /\ f \notin evicted
StaysLive(f, id) == f \in 1..made' /\ idOf'[f] = id /\ f \notin evicted'

MapInv ==
  /\ evicted \subseteq 1..made
  /\ \A f \in 1..made : idOf[f] \in IDs
  /\ \A id \in IDs : receiveFlows[id] # 0 => IsLive(receiveFlows[id], id) /\ buffer[id] = 0
  /\ \A id \in IDs : buffer[id] # 0 => IsLive(buffer[id], id)

(* The queue is in the order of creation. *)
OrderInv ==
  \A i, j \in 1..Len(queue) : i < j => buffer[queue[i]] < buffer[queue[j]]

(* Between pop and set the opener's flow is in neither map. *)
OpenerInv ==
  \A o \in Openers :
    /\ opc[o] = "checked" => oid[o] \in IDs
    /\ opc[o] = "set" =>
         /\ receiveFlowsMutex = o /\ oid[o] \in IDs /\ IsLive(oflow[o], oid[o])
         /\ receiveFlows[oid[o]] = 0 /\ buffer[oid[o]] = 0

IInv == TypeOK /\ QueueListsBuffer /\ MapInv /\ OrderInv /\ OpenerInv /\ FlowsAreReachable

-----------------------------------------------------------------------------
(* Deleting from the queue. *)
LEMMA IndexIsUnique ==
  ASSUME NEW S, NEW q \in Seq(S), NEW k \in 1..Len(q),
         \A i, j \in 1..Len(q) : q[i] = q[j] => i = j
  PROVE  IndexOf(q, q[k]) = k
<1>1. \A j \in 1..(k - 1) : q[j] # q[k]
  OBVIOUS
<1>2. \A i \in 1..Len(q) : q[i] = q[k] /\ (\A j \in 1..(i - 1) : q[j] # q[k]) <=> i = k
  BY <1>1
<1> QED BY <1>2 DEF IndexOf

(* What is left of a sequence after one element is removed. *)
LEMMA DeleteElements ==
  ASSUME NEW S, NEW q \in Seq(S), NEW k \in 1..Len(q)
  PROVE  /\ Delete(q, k) \in Seq(S)
         /\ Len(Delete(q, k)) = Len(q) - 1
         /\ \A j \in 1..(Len(q) - 1) : Delete(q, k)[j] = IF j < k THEN q[j] ELSE q[j + 1]
<1>1. SubSeq(q, 1, k - 1) \in Seq(S) /\ Len(SubSeq(q, 1, k - 1)) = k - 1
  OBVIOUS
<1>2. SubSeq(q, k + 1, Len(q)) \in Seq(S) /\ Len(SubSeq(q, k + 1, Len(q))) = Len(q) - k
  OBVIOUS
<1>3. \A j \in 1..(k - 1) : SubSeq(q, 1, k - 1)[j] = q[j]
  OBVIOUS
<1>4. \A j \in 1..(Len(q) - k) : SubSeq(q, k + 1, Len(q))[j] = q[j + k]
  OBVIOUS
<1>5. ASSUME NEW a \in Seq(S), NEW b \in Seq(S)
      PROVE  /\ a \o b \in Seq(S) /\ Len(a \o b) = Len(a) + Len(b)
             /\ \A j \in 1..Len(a) : (a \o b)[j] = a[j]
             /\ \A j \in (Len(a) + 1)..(Len(a) + Len(b)) : (a \o b)[j] = b[j - Len(a)]
  OBVIOUS
<1> DEFINE a == SubSeq(q, 1, k - 1)
           b == SubSeq(q, k + 1, Len(q))
<1>6. /\ Delete(q, k) \in Seq(S) /\ Len(Delete(q, k)) = (k - 1) + (Len(q) - k)
      /\ \A j \in 1..(k - 1) : Delete(q, k)[j] = a[j]
      /\ \A j \in k..(Len(q) - 1) : Delete(q, k)[j] = b[j - (k - 1)]
  <2>1. Delete(q, k) = a \o b
    BY DEF Delete
  <2>2. /\ a \o b \in Seq(S) /\ Len(a \o b) = Len(a) + Len(b)
        /\ \A j \in 1..Len(a) : (a \o b)[j] = a[j]
        /\ \A j \in (Len(a) + 1)..(Len(a) + Len(b)) : (a \o b)[j] = b[j - Len(a)]
    BY <1>1, <1>2, <1>5
  <2> HIDE DEF a, b
  <2>3. Len(a) = k - 1 /\ Len(b) = Len(q) - k
    BY <1>1, <1>2 DEF a, b
  <2>4. /\ 1..Len(a) = 1..(k - 1)
        /\ (Len(a) + 1)..(Len(a) + Len(b)) = k..(Len(q) - 1)
    BY <2>3
  <2>5. /\ Delete(q, k) \in Seq(S) /\ Len(Delete(q, k)) = (k - 1) + (Len(q) - k)
        /\ \A j \in 1..(k - 1) : Delete(q, k)[j] = a[j]
    BY <2>1, <2>2, <2>3, <2>4
  <2>6. \A j \in k..(Len(q) - 1) : Delete(q, k)[j] = b[j - (k - 1)]
    BY <2>1, <2>2, <2>3, <2>4, Zenon
  <2> QED BY <2>5, <2>6, Zenon
<1> HIDE DEF a, b
<1>7. \A j \in 1..(k - 1) : a[j] = q[j]
  BY <1>3 DEF a
<1>8. ASSUME NEW j \in k..(Len(q) - 1)
      PROVE  b[j - (k - 1)] = q[j + 1]
  <2>1. j - (k - 1) \in 1..(Len(q) - k) /\ (j - (k - 1)) + k = j + 1
    OBVIOUS
  <2> QED BY <1>4, <2>1 DEF b
<1>9. ASSUME NEW j \in 1..(Len(q) - 1)
      PROVE  Delete(q, k)[j] = IF j < k THEN q[j] ELSE q[j + 1]
  <2>1. CASE j < k
    <3>1. j \in 1..(k - 1)
      BY <2>1
    <3> QED BY <1>6, <1>7, <2>1, <3>1, Zenon
  <2>2. CASE ~(j < k)
    <3>1. j \in k..(Len(q) - 1)
      BY <2>2
    <3> QED BY <1>6, <1>8, <2>2, <3>1, Zenon
  <2> QED BY <2>1, <2>2, Zenon
<1>10. (k - 1) + (Len(q) - k) = Len(q) - 1
  OBVIOUS
<1> QED BY <1>6, <1>9, <1>10, Zenon
(* What pop leaves of the queue: the other IDs, in the same order. *)
LEMMA PopQueue ==
  ASSUME queue \in Seq(IDs), NEW id \in IDs,
         \A i, j \in 1..Len(queue) : queue[i] = queue[j] => i = j
  PROVE  /\ Without(id) \in Seq(IDs) /\ Len(Without(id)) <= Len(queue)
         /\ \A i \in 1..Len(Without(id)) : Without(id)[i] # id
         /\ \A i \in 1..Len(queue) : queue[i] # id =>
              \E j \in 1..Len(Without(id)) : Without(id)[j] = queue[i]
         /\ \E at \in [1..Len(Without(id)) -> 1..Len(queue)] :
              /\ \A i \in 1..Len(Without(id)) : Without(id)[i] = queue[at[i]]
              /\ \A i, j \in 1..Len(Without(id)) : i < j => at[i] < at[j]
<1>1. CASE \E i \in 1..Len(queue) : queue[i] = id
  <2> PICK k \in 1..Len(queue) : queue[k] = id
    BY <1>1
  <2> DEFINE w == Without(id)
             at == [i \in 1..(Len(queue) - 1) |-> IF i < k THEN i ELSE i + 1]
  <2>1. w = Delete(queue, k)
    BY IndexIsUnique DEF Without
  <2>2. /\ w \in Seq(IDs) /\ Len(w) = Len(queue) - 1
        /\ \A j \in 1..(Len(queue) - 1) : w[j] = IF j < k THEN queue[j] ELSE queue[j + 1]
    <3> HIDE DEF w
    <3>1. /\ Delete(queue, k) \in Seq(IDs) /\ Len(Delete(queue, k)) = Len(queue) - 1
          /\ \A j \in 1..(Len(queue) - 1) :
               Delete(queue, k)[j] = IF j < k THEN queue[j] ELSE queue[j + 1]
      BY DeleteElements, Zenon
    <3> QED BY <2>1, <3>1, Zenon
  <2> HIDE DEF w
  <2>3. \A i \in 1..Len(w) : w[i] = queue[at[i]]
    BY <2>2
  <2>4. at \in [1..Len(w) -> 1..Len(queue)]
    BY <2>2
  <2>5. \A i \in 1..Len(w) : w[i] # id
    BY <2>2
  <2>6. ASSUME NEW i \in 1..Len(queue), queue[i] # id
        PROVE  \E j \in 1..Len(w) : w[j] = queue[i]
    <3>1. CASE i < k
      BY <2>2, <3>1
    <3>2. CASE i > k
      <4>1. i - 1 \in 1..Len(w) /\ w[i - 1] = queue[i]
        BY <2>2, <3>2
      <4> QED BY <4>1
    <3> QED BY <2>6, <3>1, <3>2
  <2>7. \A i, j \in 1..Len(w) : i < j => at[i] < at[j]
    BY <2>2
  <2>8. Len(w) <= Len(queue)
    BY <2>2
  <2> HIDE DEF at
  <2> QED BY <2>2, <2>3, <2>4, <2>5, <2>6, <2>7, <2>8, Zenon DEF w
<1>2. CASE ~\E i \in 1..Len(queue) : queue[i] = id
  <2>1. Without(id) = queue
    BY <1>2 DEF Without
  <2> DEFINE at == [i \in 1..Len(queue) |-> i]
  <2>2. /\ at \in [1..Len(queue) -> 1..Len(queue)]
        /\ \A i \in 1..Len(queue) : queue[i] = queue[at[i]]
        /\ \A i, j \in 1..Len(queue) : i < j => at[i] < at[j]
    OBVIOUS
  <2>3. Len(queue) <= Len(queue)
    OBVIOUS
  <2> HIDE DEF at
  <2> QED BY <1>2, <2>1, <2>2, <2>3, Zenon
<1> QED BY <1>1, <1>2

(* What getOrCreate makes of the queue: at most its first ID goes, the new  *)
(* one comes last.                                                          *)
Longer(id) == Append(SubSeq(queue, Excess + 1, Len(queue)), id)
(* What getOrCreate leaves in the queue: the survivors and the new ID. *)
LEMMA CreateQueue ==
  ASSUME queue \in Seq(IDs), Len(queue) <= MaxLen, NEW id \in IDs
  PROVE  /\ Excess \in {0, 1} /\ (Excess = 1 => Len(queue) > 0)
         /\ Longer(id) \in Seq(IDs) /\ Len(Longer(id)) <= MaxLen
         /\ Len(Longer(id)) = Len(queue) - Excess + 1
         /\ \A i \in 1..(Len(queue) - Excess) : Longer(id)[i] = queue[i + Excess]
         /\ Longer(id)[Len(queue) - Excess + 1] = id
<1>1. MaxLen \in Nat \ {0}
  BY FlowRoutingAssumption DEF FlowRoutingAssumption
<1>2. Excess \in {0, 1} /\ (Excess = 1 => Len(queue) = MaxLen) /\ (Excess = 0 => Len(queue) < MaxLen)
  BY <1>1 DEF Excess
<1> DEFINE s == SubSeq(queue, Excess + 1, Len(queue))
<1>3. /\ s \in Seq(IDs) /\ Len(s) = Len(queue) - Excess
      /\ \A i \in 1..(Len(queue) - Excess) : s[i] = queue[i + Excess]
  <2>1. CASE Excess = 0
    BY <2>1
  <2>2. CASE Excess = 1
    BY <1>1, <1>2, <2>2
  <2> QED BY <1>2, <2>1, <2>2
<1> HIDE DEF s
<1>4. Longer(id) = Append(s, id)
  BY DEF s, Longer
<1> QED BY <1>1, <1>2, <1>3, <1>4
-----------------------------------------------------------------------------
(* newSession establishes the invariant. *)
LEMMA InitInv == Init => IInv
<1> SUFFICES ASSUME Init PROVE IInv
  OBVIOUS
<1>1. MaxFlows \in Nat /\ MaxLen \in Nat
  BY FlowRoutingAssumption DEF FlowRoutingAssumption
<1>2. TypeOK
  <2>1. closedErr \in BOOLEAN
    BY DEF Init
  <2> QED BY <1>1, <2>1 DEF Init, TypeOK, Flows
<1>3. QueueListsBuffer /\ MapInv /\ OrderInv /\ OpenerInv /\ FlowsAreReachable
  BY DEF Init, QueueListsBuffer, MapInv, OrderInv, OpenerInv, FlowsAreReachable
<1> QED BY <1>2, <1>3 DEF IInv

(* Steps that leave the maps and the openers alone. *)
LEMMA Untouched ==
  ASSUME IInv, UNCHANGED <<routeVars, openerVars, receiveFlowsMutex>>
  PROVE  (QueueListsBuffer /\ MapInv /\ OrderInv /\ OpenerInv /\ FlowsAreReachable)'
BY DEF IInv, routeVars, openerVars, QueueListsBuffer, MapInv, OrderInv, OpenerInv,
       FlowsAreReachable, IsLive, HoldsFlow

(* A step that creates a flow: it has the next number and its ID. *)
LEMMA NewFlowStep ==
  ASSUME TypeOK, NEW id \in IDs, NewFlow(id)
  PROVE  /\ made' = made + 1 /\ made' \in 1..MaxFlows /\ made \in Nat
         /\ idOf' \in [Flows -> IDs \cup {NoID}] /\ idOf'[made'] = id
         /\ \A f \in 1..made : f \in 1..made' /\ f # made' /\ idOf'[f] = idOf[f]
         /\ \A f \in 1..made' : f # made' => f \in 1..made
<1>1. MaxFlows \in Nat
  BY FlowRoutingAssumption DEF FlowRoutingAssumption
<1>2. made \in 0..MaxFlows /\ idOf \in [Flows -> IDs \cup {NoID}]
  BY DEF TypeOK
<1>3. made < MaxFlows /\ made' = made + 1 /\ idOf' = [idOf EXCEPT ![made + 1] = id]
  BY DEF NewFlow
<1> QED BY <1>1, <1>2, <1>3 DEF Flows

(* receiveFlow creates a flow, and evicts one when the buffer is full. *)
LEMMA CreateStep ==
  ASSUME IInv, NEW h \in Handlers, NEW id \in IDs,
         receiveFlowsMutex = Nobody, receiveFlows[id] = 0, buffer[id] = 0,
         NewFlow(id),
         evicted' = evicted \cup ({buffer[v] : v \in Victims} \ {0}),
         queue' = Longer(id), buffer' = Buffered(id),
         UNCHANGED <<receiveFlows, closed, receiveFlowsMutex, openerVars, closeVars>>
  PROVE  /\ (QueueListsBuffer /\ MapInv /\ OrderInv /\ OpenerInv /\ FlowsAreReachable)'
         /\ queue' \in Seq(IDs) /\ Len(queue') <= MaxLen
         /\ buffer' \in [IDs -> 0..MaxFlows] /\ evicted' \subseteq Flows
         /\ \A f \in evicted' \ evicted : \A x \in IDs : buffer'[x] # 0 => f < buffer'[x]
         /\ made' \notin evicted'
<1>1. /\ made' = made + 1 /\ made' \in 1..MaxFlows /\ made \in Nat
      /\ idOf'[made'] = id
      /\ \A f \in 1..made : f \in 1..made' /\ f # made' /\ idOf'[f] = idOf[f]
      /\ \A f \in 1..made' : f # made' => f \in 1..made
  BY NewFlowStep DEF IInv
<1>2. /\ Excess \in {0, 1} /\ (Excess = 1 => Len(queue) > 0)
      /\ queue' \in Seq(IDs) /\ Len(queue') <= MaxLen
      /\ Len(queue') = Len(queue) - Excess + 1
      /\ \A i \in 1..(Len(queue) - Excess) : queue'[i] = queue[i + Excess]
      /\ queue'[Len(queue) - Excess + 1] = id
  BY CreateQueue DEF IInv, TypeOK
<1>3. queue \in Seq(IDs) /\ Len(queue) \in Nat /\ (\A i \in 1..Len(queue) : queue[i] \in IDs)
  BY DEF IInv, TypeOK
<1>4. /\ \A i, j \in 1..Len(queue) : queue[i] = queue[j] => i = j
      /\ \A x \in IDs : buffer[x] # 0 <=> \E i \in 1..Len(queue) : queue[i] = x
  BY DEF IInv, QueueListsBuffer
<1>5. \A i \in 1..Len(queue) : queue[i] # id
  BY <1>3, <1>4
<1>6. /\ Victims \subseteq IDs /\ id \notin Victims
      /\ \A v \in Victims : Excess = 1 /\ v = queue[1]
      /\ Excess = 1 => Victims = {queue[1]}
  BY <1>2, <1>3, <1>5 DEF Victims
<1>7. /\ buffer'[id] = made'
      /\ \A x \in IDs : x # id /\ x \notin Victims => buffer'[x] = buffer[x]
      /\ \A x \in Victims : buffer'[x] = 0
  BY <1>1, <1>6 DEF Buffered
<1>8. /\ \A f \in 1..made : idOf[f] \in IDs
      /\ \A x \in IDs : receiveFlows[x] # 0 => IsLive(receiveFlows[x], x) /\ buffer[x] = 0
      /\ \A x \in IDs : buffer[x] # 0 => IsLive(buffer[x], x)
      /\ evicted \subseteq 1..made
  BY DEF IInv, MapInv
<1>9. \A v \in Victims : buffer[v] # 0 /\ IsLive(buffer[v], v)
  BY <1>2, <1>3, <1>4, <1>6, <1>8
<1>10. evicted' = evicted \cup {buffer[v] : v \in Victims}
  BY <1>9
<1>11. evicted' \subseteq 1..made /\ made' \notin evicted'
  <2>1. \A v \in Victims : buffer[v] \in 1..made
    BY <1>9 DEF IsLive
  <2>2. made' \notin 1..made
    BY <1>1
  <2> QED BY <1>8, <1>10, <2>1, <2>2
<1>12. ASSUME NEW f, NEW x \in IDs \ Victims, IsLive(f, x)
       PROVE  StaysLive(f, x)
  <2>1. f \in 1..made /\ idOf[f] = x /\ f \notin evicted
    BY <1>12 DEF IsLive
  <2>2. \A v \in Victims : buffer[v] # f
    BY <1>9, <1>12, <2>1 DEF IsLive
  <2> QED BY <1>1, <1>10, <2>1, <2>2 DEF StaysLive
<1>13. StaysLive(made', id)
  BY <1>1, <1>11 DEF StaysLive
<1>14. QueueListsBuffer'
  <2>1. ASSUME NEW x \in IDs, buffer'[x] # 0
        PROVE  \E i \in 1..Len(queue') : queue'[i] = x
    <3>1. CASE x = id
      BY <1>2, <1>3, <3>1
    <3>2. CASE x # id
      <4>1. x \notin Victims /\ buffer[x] # 0
        BY <1>7, <2>1, <3>2
      <4>2. PICK i \in 1..Len(queue) : queue[i] = x
        BY <1>4, <4>1
      <4>3. Excess = 1 => i # 1
        BY <1>6, <4>1, <4>2
      <4>4. i - Excess \in 1..(Len(queue) - Excess) /\ (i - Excess) + Excess = i
        BY <1>2, <1>3, <4>3
      <4>5. queue'[i - Excess] = x /\ i - Excess \in 1..Len(queue')
        BY <1>2, <1>3, <4>2, <4>4
      <4> QED BY <4>5
    <3> QED BY <3>1, <3>2
  <2>2. ASSUME NEW i \in 1..Len(queue')
        PROVE  buffer'[queue'[i]] # 0
    <3>1. CASE i = Len(queue) - Excess + 1
      BY <1>1, <1>2, <1>7, <3>1
    <3>2. CASE i # Len(queue) - Excess + 1
      <4>1. i \in 1..(Len(queue) - Excess) /\ i + Excess \in 1..Len(queue)
            /\ (Excess = 1 => i + Excess # 1) /\ 1 \in 1..Len(queue)
        BY <1>2, <1>3, <3>2
      <4>2. queue'[i] = queue[i + Excess] /\ queue'[i] \in IDs /\ queue'[i] # id
        BY <1>2, <1>3, <1>5, <4>1
      <4>3. queue'[i] \notin Victims
        BY <1>4, <1>6, <4>1, <4>2
      <4>4. buffer[queue'[i]] # 0
        BY <1>4, <4>1, <4>2
      <4> QED BY <1>7, <4>2, <4>3, <4>4
    <3> QED BY <3>1, <3>2
  <2>3. \A i, j \in 1..Len(queue') : queue'[i] = queue'[j] => i = j
    <3> SUFFICES ASSUME NEW i \in 1..Len(queue'), NEW j \in 1..Len(queue'), i < j
                 PROVE  queue'[i] # queue'[j]
      BY <1>2
    <3>1. i \in 1..(Len(queue) - Excess) /\ i + Excess \in 1..Len(queue)
      BY <1>2, <1>3
    <3>2. CASE j \in 1..(Len(queue) - Excess)
      <4>1. j + Excess \in 1..Len(queue) /\ i + Excess # j + Excess
        BY <1>2, <1>3, <3>2
      <4> QED BY <1>2, <1>4, <3>1, <3>2, <4>1
    <3>3. CASE j \notin 1..(Len(queue) - Excess)
      <4>1. j = Len(queue) - Excess + 1
        <5>1. Len(queue') = Len(queue) - Excess + 1 /\ Len(queue) - Excess \in Int
          BY <1>2, <1>3
        <5> QED BY <3>3, <5>1
      <4> QED BY <1>2, <1>5, <3>1, <4>1
    <3> QED BY <3>2, <3>3
  <2> QED BY <1>2, <2>1, <2>2, <2>3 DEF QueueListsBuffer
<1>15. MapInv'
  <2>1. evicted' \subseteq 1..made'
    BY <1>1, <1>11
  <2>2. \A f \in 1..made' : idOf'[f] \in IDs
    BY <1>1, <1>8
  <2>3. ASSUME NEW x \in IDs, receiveFlows'[x] # 0
        PROVE  StaysLive(receiveFlows'[x], x) /\ buffer'[x] = 0
    <3>1. receiveFlows[x] # 0 /\ receiveFlows'[x] = receiveFlows[x] /\ x # id
      BY <2>3
    <3>2. IsLive(receiveFlows[x], x) /\ buffer[x] = 0 /\ x \notin Victims
      BY <1>8, <1>9, <3>1
    <3> QED BY <1>7, <1>12, <3>1, <3>2
  <2>4. ASSUME NEW x \in IDs, buffer'[x] # 0
        PROVE  StaysLive(buffer'[x], x)
    <3>1. CASE x = id
      BY <1>7, <1>13, <3>1
    <3>2. CASE x # id
      BY <1>7, <1>8, <1>12, <2>4, <3>2
    <3> QED BY <3>1, <3>2
  <2> QED BY <2>1, <2>2, <2>3, <2>4 DEF MapInv, IsLive, StaysLive
<1>16. ASSUME NEW i \in 1..(Len(queue) - Excess)
       PROVE  /\ i + Excess \in 1..Len(queue) /\ queue'[i] = queue[i + Excess]
              /\ buffer'[queue'[i]] = buffer[queue[i + Excess]]
              /\ buffer'[queue'[i]] \in 1..made
  <2>1. i + Excess \in 1..Len(queue) /\ (Excess = 1 => i + Excess # 1) /\ 1 \in 1..Len(queue)
    BY <1>2, <1>3
  <2>2. queue'[i] = queue[i + Excess] /\ queue'[i] \in IDs /\ queue'[i] # id
    BY <1>2, <1>3, <1>5, <2>1
  <2>3. queue'[i] \notin Victims
    BY <1>4, <1>6, <2>1, <2>2
  <2>4. buffer[queue'[i]] \in 1..made
    BY <1>4, <1>8, <2>1, <2>2 DEF IsLive
  <2> QED BY <1>7, <2>1, <2>2, <2>3, <2>4
<1>17. \A i, j \in 1..Len(queue) : i < j => buffer[queue[i]] < buffer[queue[j]]
  BY DEF IInv, OrderInv
<1>18. OrderInv'
  <2> SUFFICES ASSUME NEW i \in 1..Len(queue'), NEW j \in 1..Len(queue'), i < j
               PROVE  buffer'[queue'[i]] < buffer'[queue'[j]]
    BY DEF OrderInv
  <2>1. i \in 1..(Len(queue) - Excess)
    BY <1>2, <1>3
  <2>2. CASE j \in 1..(Len(queue) - Excess)
    <3>1. i + Excess < j + Excess
      BY <1>2
    <3> QED BY <1>16, <1>17, <2>1, <2>2, <3>1
  <2>3. CASE j \notin 1..(Len(queue) - Excess)
    <3>1. j = Len(queue) - Excess + 1
      <4>1. Len(queue') = Len(queue) - Excess + 1 /\ Len(queue) - Excess \in Int
        BY <1>2, <1>3
      <4> QED BY <2>3, <4>1
    <3>2. buffer'[queue'[j]] = made + 1
      BY <1>1, <1>2, <1>7, <3>1
    <3>3. buffer'[queue'[i]] \in 1..made
      BY <1>16, <2>1
    <3> QED BY <1>1, <3>2, <3>3
  <2> QED BY <2>2, <2>3
<1>19. OpenerInv'
  <2>1. Nobody \notin Openers
    BY FlowRoutingAssumption DEF FlowRoutingAssumption
  <2>2. \A o \in Openers : opc[o] # "set" /\ (opc[o] = "checked" => oid[o] \in IDs)
    BY <2>1 DEF IInv, OpenerInv
  <2> QED BY <2>2 DEF OpenerInv, openerVars
<1>20. FlowsAreReachable'
  <2>1. \A f \in (1..made) \ evicted : receiveFlows[idOf[f]] = f \/ buffer[idOf[f]] = f
    <3>1. Nobody \notin Openers
      BY FlowRoutingAssumption DEF FlowRoutingAssumption
    <3>2. \A o \in Openers : opc[o] # "set"
      BY <3>1 DEF IInv, OpenerInv
    <3> QED BY <3>2 DEF IInv, FlowsAreReachable, HoldsFlow
  <2> SUFFICES ASSUME NEW f \in (1..made') \ evicted'
               PROVE  receiveFlows'[idOf'[f]] = f \/ buffer'[idOf'[f]] = f
    BY DEF FlowsAreReachable
  <2>2. CASE f = made'
    BY <1>1, <1>7, <2>2
  <2>3. CASE f # made'
    <3>1. f \in (1..made) \ evicted /\ idOf'[f] = idOf[f] /\ idOf[f] \in IDs /\ f # 0
      BY <1>1, <1>8, <1>10, <2>3
    <3>2. CASE buffer[idOf[f]] = f
      <4>1. idOf[f] \notin Victims
        BY <1>10, <3>2
      <4>2. idOf[f] # id
        BY <3>1, <3>2
      <4> QED BY <1>7, <3>1, <3>2, <4>1, <4>2
    <3> QED BY <2>1, <3>1, <3>2
  <2> QED BY <2>2, <2>3
<1>21. buffer' \in [IDs -> 0..MaxFlows] /\ evicted' \subseteq Flows
  <2>1. buffer \in [IDs -> 0..MaxFlows] /\ made \in 0..MaxFlows /\ MaxFlows \in Nat
    BY FlowRoutingAssumption DEF IInv, TypeOK, FlowRoutingAssumption
  <2>2. made + 1 \in 0..MaxFlows /\ 0 \in 0..MaxFlows /\ 1..made \subseteq Flows
    BY <1>1, <2>1 DEF Flows
  <2> QED BY <1>11, <2>1, <2>2, Zenon DEF Buffered
<1>22. ASSUME NEW f \in evicted' \ evicted, NEW x \in IDs, buffer'[x] # 0
       PROVE  f < buffer'[x]
  <2>1. Excess = 1 /\ f = buffer[queue[1]] /\ 1 \in 1..Len(queue)
    BY <1>2, <1>3, <1>6, <1>10, <1>22
  <2>2. PICK i \in 1..Len(queue') : queue'[i] = x
    BY <1>14, <1>22 DEF QueueListsBuffer
  <2>3. CASE i \in 1..(Len(queue) - Excess)
    <3>1. 1 < i + Excess
      BY <2>1
    <3> QED BY <1>16, <1>17, <2>1, <2>2, <2>3, <3>1
  <2>4. CASE i \notin 1..(Len(queue) - Excess)
    <3>1. x = id
      BY <1>2, <1>3, <2>2, <2>4
    <3>2. f \in 1..made
      BY <1>4, <1>3, <1>8, <2>1 DEF IsLive
    <3> QED BY <1>1, <1>7, <3>1, <3>2
  <2> QED BY <2>3, <2>4
<1> QED BY <1>2, <1>11, <1>14, <1>15, <1>18, <1>19, <1>20, <1>21, <1>22
(* Only the opener in NewReceiveFlow holds the mutex, so nobody else's flow *)
(* is in neither map while Pop runs.                                        *)
LEMMA FreeMutex ==
  ASSUME IInv, receiveFlowsMutex = Nobody
  PROVE  /\ \A o \in Openers : opc[o] # "set"
         /\ \A f \in (1..made) \ evicted : receiveFlows[idOf[f]] = f \/ buffer[idOf[f]] = f
<1>1. Nobody \notin Openers
  BY FlowRoutingAssumption DEF FlowRoutingAssumption
<1>2. \A o \in Openers : opc[o] # "set"
  BY <1>1 DEF IInv, OpenerInv
<1> QED BY <1>2 DEF IInv, FlowsAreReachable, HoldsFlow

(* pop, or the creation of a flow nobody has buffered. *)
LEMMA PopStep ==
  ASSUME IInv, NEW o \in Openers, Pop(o)
  PROVE  (TypeOK /\ QueueListsBuffer /\ MapInv /\ OrderInv /\ OpenerInv /\ FlowsAreReachable)'
<1> DEFINE id == oid[o]
<1>1. /\ opc[o] = "checked" /\ receiveFlowsMutex = Nobody /\ receiveFlows[id] = 0
      /\ receiveFlowsMutex' = o /\ opc' = [opc EXCEPT ![o] = "set"]
      /\ queue' = Without(id) /\ buffer' = [buffer EXCEPT ![id] = 0] /\ PopFlow(o)
      /\ UNCHANGED <<receiveFlows, evicted, closed, hflow, oid, ores>>
      /\ UNCHANGED closeVars
  BY DEF Pop
<1>2. id \in IDs
  BY <1>1 DEF IInv, OpenerInv
<1>3. /\ queue \in Seq(IDs) /\ Len(queue) <= MaxLen /\ MaxLen \in Nat /\ Len(queue) \in Nat
      /\ buffer \in [IDs -> 0..MaxFlows] /\ opc \in [Openers -> {"idle", "checked", "set"}]
      /\ oflow \in [Openers -> 0..MaxFlows] /\ made \in 0..MaxFlows /\ MaxFlows \in Nat
  BY FlowRoutingAssumption DEF IInv, TypeOK, FlowRoutingAssumption
<1>4. /\ \A i, j \in 1..Len(queue) : queue[i] = queue[j] => i = j
      /\ \A x \in IDs : buffer[x] # 0 <=> \E i \in 1..Len(queue) : queue[i] = x
  BY DEF IInv, QueueListsBuffer
<1>5. /\ queue' \in Seq(IDs) /\ Len(queue') <= Len(queue)
      /\ \A i \in 1..Len(queue') : queue'[i] # id
      /\ \A i \in 1..Len(queue) : queue[i] # id => \E j \in 1..Len(queue') : queue'[j] = queue[i]
      /\ \E at \in [1..Len(queue') -> 1..Len(queue)] :
              /\ \A i \in 1..Len(queue') : queue'[i] = queue[at[i]]
              /\ \A i, j \in 1..Len(queue') : i < j => at[i] < at[j]
  <2> HIDE DEF id
  <2>1. /\ Without(id) \in Seq(IDs) /\ Len(Without(id)) <= Len(queue)
        /\ \A i \in 1..Len(Without(id)) : Without(id)[i] # id
        /\ \A i \in 1..Len(queue) : queue[i] # id =>
             \E j \in 1..Len(Without(id)) : Without(id)[j] = queue[i]
        /\ \E at \in [1..Len(Without(id)) -> 1..Len(queue)] :
             /\ \A i \in 1..Len(Without(id)) : Without(id)[i] = queue[at[i]]
             /\ \A i, j \in 1..Len(Without(id)) : i < j => at[i] < at[j]
    BY <1>2, <1>3, <1>4, PopQueue, Zenon
  <2>2. queue' = Without(id)
    BY <1>1
  <2> QED BY <2>1, <2>2, Zenon
<1>6. PICK at \in [1..Len(queue') -> 1..Len(queue)] :
        /\ \A i \in 1..Len(queue') : queue'[i] = queue[at[i]]
        /\ \A i, j \in 1..Len(queue') : i < j => at[i] < at[j]
  BY <1>5
<1>7. Len(queue') \in Nat /\ (\A i \in 1..Len(queue') : queue'[i] \in IDs /\ at[i] \in 1..Len(queue))
  <2>1. queue' \in Seq(IDs)
    BY <1>5, Zenon
  <2>2. Len(queue') \in Nat /\ \A i \in 1..Len(queue') : queue'[i] \in IDs
    BY <2>1
  <2>3. \A i \in 1..Len(queue') : at[i] \in 1..Len(queue)
    BY <1>6, Zenon
  <2> QED BY <2>2, <2>3, Zenon
<1>8. /\ buffer'[id] = 0 /\ \A x \in IDs : x # id => buffer'[x] = buffer[x]
      /\ buffer' \in [IDs -> 0..MaxFlows]
  BY <1>1, <1>2, <1>3
<1>9. /\ evicted \subseteq 1..made
      /\ \A f \in 1..made : idOf[f] \in IDs
      /\ \A x \in IDs : receiveFlows[x] # 0 => IsLive(receiveFlows[x], x) /\ buffer[x] = 0
      /\ \A x \in IDs : buffer[x] # 0 => IsLive(buffer[x], x)
  BY DEF IInv, MapInv
<1>10. /\ oflow' = [oflow EXCEPT ![o] = oflow'[o]] /\ oflow'[o] \in 1..made'
       /\ made \in Nat /\ made' \in 0..MaxFlows /\ idOf' \in [Flows -> IDs \cup {NoID}]
       /\ \A f \in 1..made : f \in 1..made' /\ idOf'[f] = idOf[f]
       /\ \A f \in 1..made' : f \in 1..made \/ f = oflow'[o]
       /\ idOf'[oflow'[o]] = id /\ oflow'[o] \notin evicted
       /\ buffer[id] = 0 \/ oflow'[o] = buffer[id]
  <2>1. CASE buffer[id] # 0
    <3>1. oflow' = [oflow EXCEPT ![o] = buffer[id]] /\ made' = made /\ idOf' = idOf
      BY <1>1, <2>1 DEF PopFlow, InBuffer
    <3>2. buffer[id] \in 1..made /\ idOf[buffer[id]] = id /\ buffer[id] \notin evicted
      BY <1>2, <1>9, <2>1 DEF IsLive
    <3>3. oflow'[o] = buffer[id] /\ idOf \in [Flows -> IDs \cup {NoID}]
      BY <1>3, <3>1 DEF IInv, TypeOK
    <3> QED BY <1>3, <3>1, <3>2, <3>3
  <2>2. CASE buffer[id] = 0
    <3>1. oflow' = [oflow EXCEPT ![o] = made + 1] /\ NewFlow(id)
      BY <1>1, <2>2 DEF PopFlow, InBuffer
    <3>2. /\ made' = made + 1 /\ made' \in 1..MaxFlows /\ made \in Nat
          /\ idOf' \in [Flows -> IDs \cup {NoID}] /\ idOf'[made'] = id
          /\ \A f \in 1..made : f \in 1..made' /\ f # made' /\ idOf'[f] = idOf[f]
          /\ \A f \in 1..made' : f # made' => f \in 1..made
      BY <1>2, <3>1, NewFlowStep DEF IInv
    <3>3. oflow'[o] = made' /\ made' \notin evicted /\ made' \in 1..made' /\ made' \in 0..MaxFlows
      BY <1>3, <1>9, <3>1, <3>2
    <3> HIDE DEF id
    <3>4. oflow' = [oflow EXCEPT ![o] = oflow'[o]]
      BY <1>1, <3>1, <3>2, <3>3
    <3> QED BY <2>2, <3>2, <3>3, <3>4, Zenon
  <2> QED BY <2>1, <2>2
<1> HIDE DEF id
<1>11. /\ opc'[o] = "set" /\ oid'[o] = id
       /\ \A p \in Openers : p # o => opc'[p] = opc[p] /\ opc[p] # "set"
                                      /\ oid'[p] = oid[p] /\ oflow'[p] = oflow[p]
  <2>1. \A p \in Openers : opc[p] # "set"
    BY <1>1, FreeMutex
  <2>2. oflow'[o] \in 1..made' /\ oflow' = [oflow EXCEPT ![o] = oflow'[o]]
    BY <1>10
  <2>3. \A p \in Openers : p # o => oflow'[p] = oflow[p]
    BY <1>3, <2>2
  <2> QED BY <1>1, <1>3, <2>1, <2>3 DEF id
<1>12. TypeOK'
  <2>1. closedErr' \in BOOLEAN /\ cpc' \in [Closers -> {"idle", "begun", "range", "done"}] /\ snap' \subseteq Flows
    BY <1>1 DEF IInv, TypeOK, closeVars
  <2>2. Len(queue') <= MaxLen
    <3>1. Len(queue') <= Len(queue) /\ Len(queue') \in Nat
      BY <1>5, <1>7, Zenon
    <3>2. Len(queue) \in Nat /\ Len(queue) <= MaxLen /\ MaxLen \in Nat
      BY <1>3, FlowRoutingAssumption DEF FlowRoutingAssumption, IInv, TypeOK
    <3> QED BY <3>1, <3>2
  <2>3. oflow' \in [Openers -> 0..MaxFlows]
    <3>1. oflow'[o] \in 0..MaxFlows
      BY <1>3, <1>10
    <3>2. oflow' = [oflow EXCEPT ![o] = oflow'[o]]
      BY <1>10
    <3> QED BY <1>3, <3>1, <3>2
  <2>4. opc' \in [Openers -> {"idle", "checked", "set"}] /\ receiveFlowsMutex' \in Openers \cup {Nobody}
    BY <1>1, <1>3
  <2>5. /\ receiveFlows' \in [IDs -> 0..MaxFlows] /\ evicted' \subseteq Flows /\ closed' \subseteq Flows
        /\ hflow' \in [Handlers -> 0..MaxFlows] /\ oid' \in [Openers -> IDs \cup {NoID}]
        /\ ores' \in [Openers -> {"none", "ok", "duplicate", "closed"}]
    BY <1>1 DEF IInv, TypeOK
  <2>6. made' \in 0..MaxFlows /\ idOf' \in [Flows -> IDs \cup {NoID}]
    BY <1>10
  <2> QED BY <1>5, <1>8, <2>1, <2>2, <2>3, <2>4, <2>5, <2>6 DEF TypeOK
<1>13. QueueListsBuffer'
  <2>1. ASSUME NEW x \in IDs, buffer'[x] # 0
        PROVE  \E i \in 1..Len(queue') : queue'[i] = x
    <3>1. x # id /\ buffer[x] # 0
      BY <1>8, <2>1
    <3>2. PICK i \in 1..Len(queue) : queue[i] = x
      BY <1>4, <3>1
    <3> QED BY <1>5, <3>1, <3>2
  <2>2. ASSUME NEW i \in 1..Len(queue')
        PROVE  buffer'[queue'[i]] # 0
    <3>1. queue'[i] \in IDs /\ queue'[i] # id /\ queue'[i] = queue[at[i]] /\ at[i] \in 1..Len(queue)
      BY <1>5, <1>6, <1>7
    <3> QED BY <1>4, <1>8, <3>1
  <2>3. ASSUME NEW i \in 1..Len(queue'), NEW j \in 1..Len(queue'), queue'[i] = queue'[j]
        PROVE  i = j
    <3>1. at[i] = at[j] /\ at[i] \in 1..Len(queue)
      BY <1>4, <1>6, <1>7, <2>3
    <3> QED BY <1>6, <3>1
  <2> QED BY <2>1, <2>2, <2>3 DEF QueueListsBuffer
<1>14. ASSUME NEW f, NEW x, IsLive(f, x)
       PROVE  StaysLive(f, x)
  BY <1>1, <1>10, <1>14 DEF IsLive, StaysLive
<1>15. MapInv'
  <2>1. evicted' \subseteq 1..made'
    BY <1>1, <1>9, <1>10
  <2>2. \A f \in 1..made' : idOf'[f] \in IDs
    BY <1>2, <1>9, <1>10 DEF id
  <2>3. ASSUME NEW x \in IDs, receiveFlows'[x] # 0
        PROVE  StaysLive(receiveFlows'[x], x) /\ buffer'[x] = 0
    BY <1>1, <1>8, <1>9, <1>14, <2>3
  <2>4. ASSUME NEW x \in IDs, buffer'[x] # 0
        PROVE  StaysLive(buffer'[x], x)
    <3>1. buffer'[x] = buffer[x]
      BY <1>8, <2>4
    <3> QED BY <1>9, <1>14, <2>4, <3>1
  <2> QED BY <2>1, <2>2, <2>3, <2>4 DEF MapInv, IsLive, StaysLive
<1>16. OrderInv'
  <2> SUFFICES ASSUME NEW i \in 1..Len(queue'), NEW j \in 1..Len(queue'), i < j
               PROVE  buffer'[queue'[i]] < buffer'[queue'[j]]
    BY DEF OrderInv
  <2>1. at[i] \in 1..Len(queue) /\ at[j] \in 1..Len(queue) /\ at[i] < at[j]
    BY <1>6, <1>7
  <2>2. buffer[queue[at[i]]] < buffer[queue[at[j]]]
    BY <2>1 DEF IInv, OrderInv
  <2>3. buffer'[queue'[i]] = buffer[queue[at[i]]] /\ buffer'[queue'[j]] = buffer[queue[at[j]]]
    BY <1>5, <1>6, <1>7, <1>8
  <2> QED BY <2>2, <2>3
<1>17. OpenerInv'
  <2> SUFFICES ASSUME NEW p \in Openers
               PROVE  /\ opc'[p] = "checked" => oid'[p] \in IDs
                      /\ opc'[p] = "set" =>
                           /\ receiveFlowsMutex' = p /\ oid'[p] \in IDs
                           /\ StaysLive(oflow'[p], oid'[p])
                           /\ receiveFlows'[oid'[p]] = 0 /\ buffer'[oid'[p]] = 0
    BY DEF OpenerInv, IsLive, StaysLive
  <2>1. CASE p = o
    <3>1. StaysLive(oflow'[o], id)
      BY <1>1, <1>10 DEF StaysLive, id
    <3>2. receiveFlows'[id] = 0 /\ buffer'[id] = 0 /\ id \in IDs /\ receiveFlowsMutex' = o
      BY <1>1, <1>2, <1>8 DEF id
    <3> QED BY <1>11, <2>1, <3>1, <3>2
  <2>2. CASE p # o
    BY <1>11, <2>2 DEF IInv, OpenerInv
  <2> QED BY <2>1, <2>2
<1>18. FlowsAreReachable'
  <2> SUFFICES ASSUME NEW f \in (1..made') \ evicted'
               PROVE  \/ receiveFlows'[idOf'[f]] = f \/ buffer'[idOf'[f]] = f
                      \/ \E p \in Openers : opc'[p] = "set" /\ oflow'[p] = f /\ oid'[p] = idOf'[f]
    BY DEF FlowsAreReachable, HoldsFlow
  <2>1. CASE f = oflow'[o]
    BY <1>10, <1>11, <2>1 DEF id
  <2>2. CASE f # oflow'[o]
    <3>1. f \in (1..made) \ evicted /\ idOf'[f] = idOf[f] /\ idOf[f] \in IDs /\ f # 0
      BY <1>1, <1>9, <1>10, <2>2
    <3>2. receiveFlows[idOf[f]] = f \/ buffer[idOf[f]] = f
      BY <1>1, <3>1, FreeMutex
    <3>3. CASE buffer[idOf[f]] = f
      <4>1. idOf[f] # id
        BY <1>10, <2>2, <3>1, <3>3 DEF id
      <4> QED BY <1>8, <3>1, <3>3, <4>1
    <3> QED BY <1>1, <3>1, <3>2, <3>3
  <2> QED BY <2>1, <2>2
<1> QED BY <1>12, <1>13, <1>15, <1>16, <1>17, <1>18
(* NewReceiveFlow inserts the flow and lets go of the mutex. *)
LEMMA SetStep ==
  ASSUME IInv, NEW o \in Openers, SetFlow(o)
  PROVE  (TypeOK /\ QueueListsBuffer /\ MapInv /\ OrderInv /\ OpenerInv /\ FlowsAreReachable)'
<1>1. /\ opc[o] = "set" /\ receiveFlows' = [receiveFlows EXCEPT ![oid[o]] = oflow[o]]
      /\ receiveFlowsMutex' = Nobody /\ opc' = [opc EXCEPT ![o] = "idle"]
      /\ ores' = [ores EXCEPT ![o] = "ok"]
      /\ UNCHANGED <<buffer, queue, made, idOf, evicted, closed, hflow, oid, oflow>>
      /\ UNCHANGED closeVars
  BY DEF SetFlow
<1>2. /\ receiveFlowsMutex = o /\ oid[o] \in IDs /\ IsLive(oflow[o], oid[o])
      /\ receiveFlows[oid[o]] = 0 /\ buffer[oid[o]] = 0
  BY <1>1 DEF IInv, OpenerInv
<1>3. /\ receiveFlows \in [IDs -> 0..MaxFlows] /\ opc \in [Openers -> {"idle", "checked", "set"}]
      /\ oflow \in [Openers -> 0..MaxFlows]
      /\ ores \in [Openers -> {"none", "ok", "duplicate", "closed"}]
  BY DEF IInv, TypeOK
<1>4. /\ receiveFlows'[oid[o]] = oflow[o]
      /\ \A x \in IDs : x # oid[o] => receiveFlows'[x] = receiveFlows[x]
  BY <1>1, <1>2, <1>3
<1>5. opc'[o] = "idle" /\ \A p \in Openers : p # o => opc'[p] = opc[p] /\ opc[p] # "set"
  <2>1. \A p \in Openers : p # o => opc[p] # "set"
    BY <1>2 DEF IInv, OpenerInv
  <2> QED BY <1>1, <1>3, <2>1
<1>6. TypeOK'
  <2>1. /\ closedErr' \in BOOLEAN /\ cpc' \in [Closers -> {"idle", "begun", "range", "done"}]
        /\ snap' \subseteq Flows
    BY <1>1 DEF IInv, TypeOK, closeVars
  <2>2. receiveFlows' \in [IDs -> 0..MaxFlows]
    BY <1>1, <1>3
  <2>3. /\ opc' \in [Openers -> {"idle", "checked", "set"}]
        /\ ores' \in [Openers -> {"none", "ok", "duplicate", "closed"}]
        /\ receiveFlowsMutex' \in Openers \cup {Nobody}
    BY <1>1, <1>3
  <2> QED BY <1>1, <2>1, <2>2, <2>3 DEF IInv, TypeOK
<1>7. QueueListsBuffer' /\ OrderInv'
  BY <1>1 DEF IInv, QueueListsBuffer, OrderInv
<1>8. MapInv'
  <2>1. ASSUME NEW x \in IDs, receiveFlows'[x] # 0
        PROVE  IsLive(receiveFlows'[x], x) /\ buffer[x] = 0
    <3>1. CASE x = oid[o]
      BY <1>2, <1>4, <3>1
    <3>2. CASE x # oid[o]
      BY <1>4, <2>1, <3>2 DEF IInv, MapInv
    <3> QED BY <3>1, <3>2
  <2>2. MapInv
    BY DEF IInv
  <2> QED BY <1>1, <2>1, <2>2 DEF MapInv, IsLive
<1>9. OpenerInv'
  <2>1. \A p \in Openers : opc[p] = "checked" => oid[p] \in IDs
    BY DEF IInv, OpenerInv
  <2> QED BY <1>1, <1>5, <2>1 DEF OpenerInv
<1>10. FlowsAreReachable'
  <2> SUFFICES ASSUME NEW f \in (1..made) \ evicted
               PROVE  receiveFlows'[idOf[f]] = f \/ buffer[idOf[f]] = f
    BY <1>1 DEF FlowsAreReachable
  <2>1. idOf[f] \in IDs /\ f # 0
    BY DEF IInv, MapInv
  <2>2. CASE receiveFlows[idOf[f]] = f
    BY <1>2, <1>4, <2>1, <2>2
  <2>3. CASE \E p \in Openers : HoldsFlow(p, f) /\ oid[p] = idOf[f]
    BY <1>4, <1>5, <2>3 DEF HoldsFlow
  <2> QED BY <2>2, <2>3 DEF IInv, FlowsAreReachable
<1> QED BY <1>6, <1>7, <1>8, <1>9, <1>10

(* receiveFlow: the flow found, the flow buffered, or a new one. *)
LEMMA RouteStep ==
  ASSUME IInv, NEW h \in Handlers, NEW id \in IDs, Route(h, id)
  PROVE  /\ (TypeOK /\ QueueListsBuffer /\ MapInv /\ OrderInv /\ OpenerInv /\ FlowsAreReachable)'
         /\ \A g \in Handlers : hflow'[g] # hflow[g] => hflow'[g] \notin evicted'
         /\ \A f \in evicted' \ evicted : \A x \in IDs : buffer'[x] # 0 => f < buffer'[x]
<1>1. receiveFlowsMutex = Nobody /\ UNCHANGED <<closed, receiveFlowsMutex, openerVars, closeVars>>
  BY DEF Route, MutexFree
<1>2. /\ closedErr' \in BOOLEAN /\ cpc' \in [Closers -> {"idle", "begun", "range", "done"}]
      /\ snap' \subseteq Flows
  BY <1>1 DEF IInv, TypeOK, closeVars
<1>3. hflow \in [Handlers -> 0..MaxFlows] /\ receiveFlows \in [IDs -> 0..MaxFlows]
      /\ buffer \in [IDs -> 0..MaxFlows]
  BY DEF IInv, TypeOK
<1>4. ASSUME NEW f, f \in 0..MaxFlows, f \notin evicted,
             hflow' = [hflow EXCEPT ![h] = f], UNCHANGED routeVars
      PROVE  /\ (TypeOK /\ QueueListsBuffer /\ MapInv /\ OrderInv /\ OpenerInv /\ FlowsAreReachable)'
             /\ \A g \in Handlers : hflow'[g] # hflow[g] => hflow'[g] \notin evicted'
             /\ \A e \in evicted' \ evicted : \A x \in IDs : buffer'[x] # 0 => e < buffer'[x]
  <2>1. hflow' \in [Handlers -> 0..MaxFlows]
    BY <1>3, <1>4
  <2>2. TypeOK'
    BY <1>1, <1>2, <1>4, <2>1 DEF IInv, TypeOK, routeVars, openerVars
  <2>3. \A g \in Handlers : hflow'[g] # hflow[g] => hflow'[g] \notin evicted'
    BY <1>3, <1>4 DEF routeVars
  <2>4. (QueueListsBuffer /\ MapInv /\ OrderInv /\ OpenerInv /\ FlowsAreReachable)'
    BY <1>1, <1>4, Untouched
  <2>5. evicted' = evicted
    BY <1>4 DEF routeVars
  <2> QED BY <2>2, <2>3, <2>4, <2>5
<1>5. CASE receiveFlows[id] # 0
  <2>1. hflow' = [hflow EXCEPT ![h] = receiveFlows[id]] /\ UNCHANGED routeVars
    BY <1>5 DEF Route
  <2>2. receiveFlows[id] \in 0..MaxFlows /\ receiveFlows[id] \notin evicted
    BY <1>3, <1>5 DEF IInv, MapInv, IsLive
  <2> QED BY <1>4, <2>1, <2>2
<1>6. CASE receiveFlows[id] = 0 /\ buffer[id] # 0
  <2>1. hflow' = [hflow EXCEPT ![h] = buffer[id]] /\ UNCHANGED routeVars
    BY <1>6 DEF Route, GetOrCreate
  <2>2. buffer[id] \in 0..MaxFlows /\ buffer[id] \notin evicted
    BY <1>3, <1>6 DEF IInv, MapInv, IsLive
  <2> QED BY <1>4, <2>1, <2>2
<1>7. CASE receiveFlows[id] = 0 /\ buffer[id] = 0
  <2>1. /\ NewFlow(id) /\ evicted' = evicted \cup ({buffer[v] : v \in Victims} \ {0})
        /\ queue' = Longer(id) /\ buffer' = Buffered(id)
        /\ hflow' = [hflow EXCEPT ![h] = made + 1] /\ UNCHANGED receiveFlows
    BY <1>7 DEF Route, GetOrCreate, Longer
  <2>2. /\ (QueueListsBuffer /\ MapInv /\ OrderInv /\ OpenerInv /\ FlowsAreReachable)'
        /\ queue' \in Seq(IDs) /\ Len(queue') <= MaxLen
        /\ buffer' \in [IDs -> 0..MaxFlows] /\ evicted' \subseteq Flows
        /\ \A f \in evicted' \ evicted : \A x \in IDs : buffer'[x] # 0 => f < buffer'[x]
        /\ made' \notin evicted'
    BY <1>1, <1>7, <2>1, CreateStep
  <2>3. made' = made + 1 /\ made' \in 1..MaxFlows /\ idOf' \in [Flows -> IDs \cup {NoID}]
    BY <2>1, NewFlowStep DEF IInv
  <2>4. made' \in 0..MaxFlows /\ hflow' = [hflow EXCEPT ![h] = made']
    BY <2>1, <2>3
  <2>5. hflow' \in [Handlers -> 0..MaxFlows]
    BY <1>3, <2>4
  <2>6. \A g \in Handlers : hflow'[g] # hflow[g] => hflow'[g] \notin evicted'
    BY <1>3, <2>2, <2>4
  <2>7. TypeOK'
    <3>1. /\ receiveFlows' \in [IDs -> 0..MaxFlows] /\ closed' \subseteq Flows
          /\ receiveFlowsMutex' \in Openers \cup {Nobody}
          /\ opc' \in [Openers -> {"idle", "checked", "set"}]
          /\ oid' \in [Openers -> IDs \cup {NoID}] /\ oflow' \in [Openers -> 0..MaxFlows]
          /\ ores' \in [Openers -> {"none", "ok", "duplicate", "closed"}]
      BY <1>1, <2>1 DEF IInv, TypeOK, openerVars
    <3> QED BY <1>2, <2>2, <2>3, <2>4, <2>5, <3>1 DEF TypeOK
  <2> QED BY <2>2, <2>6, <2>7
<1> QED BY <1>5, <1>6, <1>7

(* The steps of NewReceiveFlow that only decide how it goes on. *)
LEMMA CheckStep ==
  ASSUME IInv, NEW o \in Openers,
         (\E id \in IDs : CheckOpen(o, id)) \/ Duplicate(o)
  PROVE  (TypeOK /\ QueueListsBuffer /\ MapInv /\ OrderInv /\ OpenerInv /\ FlowsAreReachable)'
<1>1. /\ UNCHANGED <<routeVars, closed, receiveFlowsMutex, hflow, oflow>> /\ UNCHANGED closeVars
      /\ opc[o] # "set"
      /\ \E id \in IDs : oid' = [oid EXCEPT ![o] = id] \/ oid' = oid
      /\ \E id \in IDs :
           \/ opc' = opc /\ opc[o] = "idle"
           \/ opc' = [opc EXCEPT ![o] = "checked"] /\ oid' = [oid EXCEPT ![o] = id]
           \/ opc' = [opc EXCEPT ![o] = "idle"]
      /\ oid' # oid => opc[o] = "idle"
      /\ \E r \in {"closed", "duplicate"} : ores' = [ores EXCEPT ![o] = r] \/ ores' = ores
  <2>1. CASE \E id \in IDs : CheckOpen(o, id)
    <3>1. PICK id \in IDs : CheckOpen(o, id)
      BY <2>1
    <3> QED BY <3>1, Zenon DEF CheckOpen
  <2>2. CASE Duplicate(o)
    <3>1. oid[o] \in IDs
      BY <2>2 DEF Duplicate, IInv, OpenerInv
    <3> QED BY <2>2, <3>1, Zenon DEF Duplicate
  <2> QED BY <2>1, <2>2
<1>2. /\ opc \in [Openers -> {"idle", "checked", "set"}] /\ oid \in [Openers -> IDs \cup {NoID}]
      /\ ores \in [Openers -> {"none", "ok", "duplicate", "closed"}]
  BY DEF IInv, TypeOK
<1>3. opc'[o] # "set" /\ (opc'[o] = "checked" => oid'[o] \in IDs)
  BY <1>1, <1>2
<1>4. \A p \in Openers : p # o => opc'[p] = opc[p] /\ oid'[p] = oid[p]
  BY <1>1, <1>2
<1>5. TypeOK'
  <2>1. /\ closedErr' \in BOOLEAN /\ cpc' \in [Closers -> {"idle", "begun", "range", "done"}]
        /\ snap' \subseteq Flows
    BY <1>1 DEF IInv, TypeOK, closeVars
  <2>2. opc' \in [Openers -> {"idle", "checked", "set"}]
    BY <1>1, <1>2
  <2>3. oid' \in [Openers -> IDs \cup {NoID}]
    BY <1>1, <1>2
  <2>4. ores' \in [Openers -> {"none", "ok", "duplicate", "closed"}]
    BY <1>1, <1>2
  <2> QED BY <1>1, <2>1, <2>2, <2>3, <2>4 DEF IInv, TypeOK, routeVars
<1>6. QueueListsBuffer' /\ MapInv' /\ OrderInv'
  BY <1>1 DEF IInv, routeVars, QueueListsBuffer, MapInv, OrderInv, IsLive
<1>7. OpenerInv'
  BY <1>1, <1>3, <1>4 DEF IInv, OpenerInv, routeVars, IsLive
<1>8. FlowsAreReachable'
  <2>1. \A p \in Openers : opc[p] = "set" => opc'[p] = "set" /\ oid'[p] = oid[p]
    BY <1>1, <1>4
  <2>2. FlowsAreReachable
    BY DEF IInv
  <2>3. UNCHANGED <<receiveFlows, buffer, idOf, oflow, made, evicted>>
    BY <1>1 DEF routeVars
  <2>4. ASSUME NEW f \in (1..made) \ evicted
        PROVE  \/ receiveFlows[idOf[f]] = f
               \/ buffer[idOf[f]] = f
               \/ \E p \in Openers : HoldsFlow(p, f)' /\ oid'[p] = idOf[f]
    <3>1. \A p \in Openers : HoldsFlow(p, f) => HoldsFlow(p, f)' /\ oid'[p] = oid[p]
      BY <2>1, <2>3 DEF HoldsFlow
    <3> QED BY <2>2, <3>1, Zenon DEF FlowsAreReachable
  <2> QED BY <2>3, <2>4 DEF FlowsAreReachable
<1> QED BY <1>5, <1>6, <1>7, <1>8

(* ReceiveFlow.Close and Session.close change what is closed, not what is   *)
(* found.                                                                   *)
LEMMA CloseStep ==
  ASSUME IInv,
         \/ \E f \in Flows : CloseFlow(f)
         \/ \E c \in Closers : CloseBegin(c) \/ Snapshot(c) \/ CloseEnd(c)
         \/ \E c \in Closers, f \in Flows : RangeClose(c, f)
  PROVE  /\ (TypeOK /\ QueueListsBuffer /\ MapInv /\ OrderInv /\ OpenerInv /\ FlowsAreReachable)'
         /\ UNCHANGED <<routeVars, hflow>>
<1>1. UNCHANGED <<routeVars, receiveFlowsMutex, hflow, openerVars>>
  BY Zenon DEF CloseFlow, CloseBegin, Snapshot, CloseEnd, RangeClose
<1>2. closed' \subseteq Flows
  BY DEF IInv, TypeOK, CloseFlow, CloseBegin, Snapshot, CloseEnd, RangeClose
<1>3. closedErr' \in BOOLEAN
  <2>1. closedErr \in BOOLEAN
    BY DEF IInv, TypeOK
  <2>2. closedErr' = closedErr \/ closedErr' = TRUE
    BY Zenon DEF CloseFlow, CloseBegin, Snapshot, CloseEnd, RangeClose, closeVars
  <2> QED BY <2>1, <2>2, Zenon
<1>4. snap' \subseteq Flows
  <2>1. \/ snap' \subseteq snap \/ snap' = {receiveFlows[id] : id \in IDs} \ {0}
    BY Zenon DEF CloseFlow, CloseBegin, Snapshot, CloseEnd, RangeClose, closeVars
  <2>2. snap \subseteq Flows /\ receiveFlows \in [IDs -> 0..MaxFlows] /\ MaxFlows \in Nat
    BY FlowRoutingAssumption DEF IInv, TypeOK, FlowRoutingAssumption
  <2>3. {receiveFlows[id] : id \in IDs} \ {0} \subseteq Flows
    BY <2>2 DEF Flows
  <2> QED BY <2>1, <2>2, <2>3, Zenon
<1>5. cpc' \in [Closers -> {"idle", "begun", "range", "done"}]
  <2>1. cpc \in [Closers -> {"idle", "begun", "range", "done"}]
    BY DEF IInv, TypeOK
  <2>2. \/ cpc' = cpc
        \/ \E c \in Closers, s \in {"begun", "range", "done"} : cpc' = [cpc EXCEPT ![c] = s]
    <3>1. ASSUME NEW c \in Closers, CloseBegin(c)
          PROVE  \E s \in {"begun", "range", "done"} : cpc' = [cpc EXCEPT ![c] = s]
      <4>1. CASE closedErr
        BY <3>1, <4>1, Zenon DEF CloseBegin
      <4>2. CASE ~closedErr
        BY <3>1, <4>2, Zenon DEF CloseBegin
      <4> QED BY <4>1, <4>2
    <3> QED BY <3>1, Zenon DEF CloseFlow, Snapshot, CloseEnd, RangeClose, closeVars
  <2> QED BY <2>1, <2>2
<1>6. TypeOK'
  BY <1>1, <1>2, <1>3, <1>4, <1>5 DEF IInv, TypeOK, routeVars, openerVars
<1> QED BY <1>1, <1>6, Untouched

(* Every step keeps the invariant. *)
LEMMA StepInv == IInv /\ [Next]_vars => IInv'
<1> SUFFICES ASSUME IInv, [Next]_vars
             PROVE  (TypeOK /\ QueueListsBuffer /\ MapInv /\ OrderInv /\ OpenerInv
                       /\ FlowsAreReachable)'
  BY DEF IInv
<1>1. CASE UNCHANGED vars
  <2>1. TypeOK'
    BY <1>1 DEF IInv, TypeOK, vars, routeVars, openerVars, closeVars
  <2> QED BY <1>1, <2>1, Untouched DEF vars
<1>2. CASE \E h \in Handlers, id \in IDs : Route(h, id)
  BY <1>2, RouteStep
<1>3. CASE \E o \in Openers, id \in IDs : CheckOpen(o, id)
  BY <1>3, CheckStep
<1>4. CASE \E o \in Openers : Duplicate(o) \/ Pop(o) \/ SetFlow(o)
  BY <1>4, CheckStep, PopStep, SetStep
<1>5. CASE \/ \E f \in Flows : CloseFlow(f)
           \/ \E c \in Closers : CloseBegin(c) \/ Snapshot(c) \/ CloseEnd(c)
           \/ \E c \in Closers, f \in Flows : RangeClose(c, f)
  BY <1>5, CloseStep
<1> QED BY <1>1, <1>2, <1>3, <1>4, <1>5 DEF Next

(* Two live flows of one ID would be in two of three places at once. *)
LEMMA InvImplies == IInv => OneFlowPerID /\ OpenedFlowNotEvicted
<1> SUFFICES ASSUME IInv PROVE OneFlowPerID /\ OpenedFlowNotEvicted
  OBVIOUS
<1>1. 0 \notin evicted
  BY DEF IInv, MapInv
<1>2. OpenedFlowNotEvicted
  BY <1>1 DEF IInv, MapInv, OpenerInv, IsLive, OpenedFlowNotEvicted
<1>3. ASSUME NEW f \in (1..made) \ evicted, NEW g \in (1..made) \ evicted, idOf[f] = idOf[g]
      PROVE  f = g
  <2>1. f # 0 /\ g # 0 /\ idOf[f] \in IDs
    BY DEF IInv, MapInv
  <2>2. ASSUME NEW o \in Openers, HoldsFlow(o, f), oid[o] = idOf[f] PROVE f = g
    BY <1>3, <2>1, <2>2 DEF IInv, OpenerInv, FlowsAreReachable, HoldsFlow
  <2>3. ASSUME NEW o \in Openers, HoldsFlow(o, g), oid[o] = idOf[g] PROVE f = g
    BY <1>3, <2>1, <2>3 DEF IInv, OpenerInv, FlowsAreReachable, HoldsFlow
  <2> QED BY <1>3, <2>1, <2>2, <2>3 DEF IInv, MapInv, FlowsAreReachable
<1> QED BY <1>2, <1>3 DEF OneFlowPerID

(* The invariant holds in every reachable state of the session's routing. *)
THEOREM Invariance == Spec => []IInv
BY InitInv, StepInv, PTL DEF Spec

(* The variables keep their types, and getOrCreate keeps the buffer of      *)
(* unknown flows within WithUnknownFlowBufferSize.                          *)
THEOREM TypeCorrect == Spec => []TypeOK
<1>1. IInv => TypeOK
  BY DEF IInv
<1> QED BY <1>1, Invariance, PTL

(* getOrCreate and pop keep queue and buffer of the unknown flows in step. *)
THEOREM QueueAndBufferAgree == Spec => []QueueListsBuffer
<1>1. IInv => QueueListsBuffer
  BY DEF IInv
<1> QED BY <1>1, Invariance, PTL

(* receiveFlow and NewReceiveFlow never leave two live flows under one ID. *)
THEOREM OneFlow == Spec => []OneFlowPerID
BY InvImplies, Invariance, PTL

(* What is pushed into a flow that was not evicted can still be read. *)
THEOREM Reachable == Spec => []FlowsAreReachable
<1>1. IInv => FlowsAreReachable
  BY DEF IInv
<1> QED BY <1>1, Invariance, PTL

(* A flow NewReceiveFlow has taken over is out of getOrCreate's reach. *)
THEOREM OpenedStays == Spec => []OpenedFlowNotEvicted
BY InvImplies, Invariance, PTL

(* Only receiveFlow changes the flow a handler holds, and what is evicted. *)
LEMMA OnlyRouteEvicts ==
  ASSUME IInv, [Next]_vars
  PROVE  /\ \A h \in Handlers : hflow'[h] # hflow[h] => hflow'[h] \notin evicted'
         /\ \A f \in evicted' \ evicted : \A id \in IDs : buffer'[id] # 0 => f < buffer'[id]
<1>1. CASE \E h \in Handlers, id \in IDs : Route(h, id)
  BY <1>1, RouteStep
<1>2. CASE UNCHANGED <<hflow, evicted>>
  BY <1>2
<1>3. CASE UNCHANGED vars
  BY <1>2, <1>3 DEF vars, routeVars
<1>4. CASE \/ \E o \in Openers, id \in IDs : CheckOpen(o, id)
           \/ \E o \in Openers : Duplicate(o) \/ Pop(o) \/ SetFlow(o)
  <2>1. UNCHANGED <<hflow, evicted>>
    BY <1>4, Zenon DEF CheckOpen, Duplicate, Pop, SetFlow, routeVars
  <2> QED BY <1>2, <2>1
<1>5. CASE \/ \E f \in Flows : CloseFlow(f)
           \/ \E c \in Closers : CloseBegin(c) \/ Snapshot(c) \/ CloseEnd(c)
           \/ \E c \in Closers, f \in Flows : RangeClose(c, f)
  <2>1. UNCHANGED <<hflow, evicted>>
    BY <1>5, CloseStep DEF routeVars
  <2> QED BY <1>2, <2>1
<1> QED BY <1>1, <1>3, <1>4, <1>5 DEF Next

(* receiveFlow never hands out a flow that has been evicted. *)
THEOREM RoutesToLiveFlow == Spec => RoutedFlowNotEvicted
<1>1. IInv /\ [Next]_vars =>
        [\A h \in Handlers : hflow'[h] # hflow[h] => hflow'[h] \notin evicted']_vars
  BY OnlyRouteEvicts
<1> QED BY <1>1, Invariance, PTL DEF Spec, RoutedFlowNotEvicted

(* getOrCreate evicts in the order of creation, whatever pop took out. *)
THEOREM EvictsOldest == Spec => OldestIsEvicted
<1>1. IInv /\ [Next]_vars =>
        [\A f \in evicted' \ evicted :
           \A id \in IDs : buffer'[id] # 0 => f < buffer'[id]]_vars
  BY OnlyRouteEvicts
<1> QED BY <1>1, Invariance, PTL DEF Spec, OldestIsEvicted
=============================================================================
