------------------------------ MODULE FlowRouting ------------------------------
(***************************************************************************)
(* How a session finds the ReceiveFlow of a flow ID: the flows the         *)
(* application opened (receiveFlows of session.go), the bounded buffer of  *)
(* flows it has not opened yet (receive_flow_buffer.go), and the close of  *)
(* the session, which takes its snapshot of receiveFlows without           *)
(* receiveFlowsMutex.  Flows are numbered in the order of their creation;  *)
(* 0 is nil.                                                               *)
(***************************************************************************)
EXTENDS Naturals, Sequences

CONSTANTS
  IDs,        \* flow IDs
  Handlers,   \* goroutines that route a datagram or a stream
  Openers,    \* application goroutines that call NewReceiveFlow
  Closers,    \* goroutines that close the session
  MaxLen,     \* WithUnknownFlowBufferSize
  MaxFlows,   \* bound: flows created
  NoID, Nobody

Flows == 1..MaxFlows

ASSUME FlowRoutingAssumption ==
  /\ MaxLen \in Nat \ {0}
  /\ MaxFlows \in Nat
  /\ NoID \notin IDs
  /\ Nobody \notin Openers

VARIABLES
  receiveFlows,       \* Session.receiveFlows
  buffer, queue,      \* receiveFlowBuffer.buffer and .queue
  made, idOf,         \* flows created so far, and their IDs
  evicted,            \* flows closed with ErrRoQUnknownFlowID
  closed,             \* flows on which Close was called
  receiveFlowsMutex,  \* who holds it
  hflow,              \* per handler: the flow receiveFlow returned last
  opc, oid, oflow,    \* per opener: where, the ID, the flow in hand
  ores,               \* per opener: what the last NewReceiveFlow returned
  closedErr,          \* the session is marked closed
  cpc, snap           \* per closer: where; the flows rangeFn has yet to visit

routeVars  == <<receiveFlows, buffer, queue, made, idOf, evicted>>
openerVars == <<opc, oid, oflow, ores>>
closeVars  == <<closedErr, cpc, snap>>
vars == <<routeVars, closed, receiveFlowsMutex, hflow, openerVars, closeVars>>

Init ==
  /\ receiveFlows = [id \in IDs |-> 0] /\ buffer = [id \in IDs |-> 0] /\ queue = <<>>
  /\ made = 0 /\ idOf = [f \in Flows |-> NoID] /\ evicted = {} /\ closed = {}
  /\ receiveFlowsMutex = Nobody
  /\ hflow = [h \in Handlers |-> 0]
  /\ opc = [o \in Openers |-> "idle"] /\ oid = [o \in Openers |-> NoID]
  /\ oflow = [o \in Openers |-> 0] /\ ores = [o \in Openers |-> "none"]
  /\ closedErr = FALSE /\ cpc = [c \in Closers |-> "idle"] /\ snap = {}

(* newReceiveFlow *)
NewFlow(id) ==
  /\ made < MaxFlows
  /\ made' = made + 1
  /\ idOf' = [idOf EXCEPT ![made + 1] = id]

-----------------------------------------------------------------------------
(* The eviction loop of getOrCreate drops from the front of the queue until *)
(* there is room for one more.                                              *)
Excess_One == IF Len(queue) > MaxLen THEN Len(queue) - MaxLen ELSE 0
Excess == IF Len(queue) >= MaxLen THEN Len(queue) - MaxLen + 1 ELSE 0

Victims_Newest == {queue[Len(queue) + 1 - i] : i \in 1..Excess}
Victims == {queue[i] : i \in 1..Excess}

Buffered_NoDelete(id) == [buffer EXCEPT ![id] = made + 1]
Buffered(id) ==
  [i \in IDs |-> IF i = id THEN made + 1 ELSE IF i \in Victims THEN 0 ELSE buffer[i]]

GetOrCreate(h, id) ==
  \/ /\ buffer[id] # 0
     /\ hflow' = [hflow EXCEPT ![h] = buffer[id]]
     /\ UNCHANGED routeVars
  \/ /\ buffer[id] = 0
     /\ NewFlow(id)
     /\ evicted' = evicted \cup ({buffer[v] : v \in Victims} \ {0})
     /\ queue' = Append(SubSeq(queue, Excess + 1, Len(queue)), id)
     /\ buffer' = Buffered(id)
     /\ hflow' = [hflow EXCEPT ![h] = made + 1]
     /\ UNCHANGED receiveFlows

(* Session.receiveFlow, in one hold of receiveFlowsMutex. *)
MutexFree_Ignored == TRUE
MutexFree == receiveFlowsMutex = Nobody

Route(h, id) ==
  /\ MutexFree
  /\ \/ /\ receiveFlows[id] # 0
        /\ hflow' = [hflow EXCEPT ![h] = receiveFlows[id]]
        /\ UNCHANGED routeVars
     \/ receiveFlows[id] = 0 /\ GetOrCreate(h, id)
  /\ UNCHANGED <<closed, receiveFlowsMutex, openerVars, closeVars>>

-----------------------------------------------------------------------------
(* Session.NewReceiveFlow: isClosed, which waits for a close under way ... *)
SessionMutexFree == \A c \in Closers : cpc[c] \in {"idle", "done"}

CheckOpen(o, id) ==
  /\ opc[o] = "idle" /\ SessionMutexFree
  /\ oid' = [oid EXCEPT ![o] = id]
  /\ \/ closedErr /\ ores' = [ores EXCEPT ![o] = "closed"] /\ UNCHANGED opc
     \/ ~closedErr /\ opc' = [opc EXCEPT ![o] = "checked"] /\ UNCHANGED ores
  /\ UNCHANGED <<routeVars, closed, receiveFlowsMutex, hflow, oflow, closeVars>>

(* ... the duplicate check ... *)
Duplicate(o) ==
  /\ opc[o] = "checked" /\ receiveFlowsMutex = Nobody
  /\ receiveFlows[oid[o]] # 0
  /\ opc' = [opc EXCEPT ![o] = "idle"]
  /\ ores' = [ores EXCEPT ![o] = "duplicate"]
  /\ UNCHANGED <<routeVars, closed, receiveFlowsMutex, hflow, oid, oflow, closeVars>>

(* ... pop, which removes the flow from the queue and from the map ... *)
InBuffer_Missed(id) == FALSE
InBuffer(id) == buffer[id] # 0

(* slices.Delete of one element. *)
Delete(q, i) == SubSeq(q, 1, i - 1) \o SubSeq(q, i + 1, Len(q))

(* slices.IndexFunc finds the first. *)
IndexOf(q, id) == CHOOSE i \in 1..Len(q) : q[i] = id /\ \A j \in 1..(i - 1) : q[j] # id

Without_Id(id) == queue
Without(id) ==
  IF \E i \in 1..Len(queue) : queue[i] = id THEN Delete(queue, IndexOf(queue, id)) ELSE queue

PopFlow(o) ==
  \/ /\ InBuffer(oid[o])
     /\ oflow' = [oflow EXCEPT ![o] = buffer[oid[o]]]
     /\ UNCHANGED <<made, idOf>>
  \/ /\ ~InBuffer(oid[o])
     /\ NewFlow(oid[o])
     /\ oflow' = [oflow EXCEPT ![o] = made + 1]

Pop_Peek(o) ==
  /\ opc[o] = "checked" /\ receiveFlowsMutex = Nobody
  /\ receiveFlows[oid[o]] = 0
  /\ receiveFlowsMutex' = o
  /\ opc' = [opc EXCEPT ![o] = "set"]
  /\ PopFlow(o)
  /\ UNCHANGED <<receiveFlows, buffer, queue, evicted, closed, hflow, oid, ores, closeVars>>

Pop(o) ==
  /\ opc[o] = "checked" /\ receiveFlowsMutex = Nobody
  /\ receiveFlows[oid[o]] = 0
  /\ receiveFlowsMutex' = o
  /\ opc' = [opc EXCEPT ![o] = "set"]
  /\ queue' = Without(oid[o])
  /\ buffer' = [buffer EXCEPT ![oid[o]] = 0]
  /\ PopFlow(o)
  /\ UNCHANGED <<receiveFlows, evicted, closed, hflow, oid, ores, closeVars>>

(* ... and the insertion into receiveFlows. *)
SetFlow(o) ==
  /\ opc[o] = "set"
  /\ receiveFlows' = [receiveFlows EXCEPT ![oid[o]] = oflow[o]]
  /\ receiveFlowsMutex' = Nobody
  /\ opc' = [opc EXCEPT ![o] = "idle"]
  /\ ores' = [ores EXCEPT ![o] = "ok"]
  /\ UNCHANGED <<buffer, queue, made, idOf, evicted, closed, hflow, oid, oflow, closeVars>>

(* The application closes a flow it opened; the session keeps it. *)
CloseFlow(f) ==
  /\ \E id \in IDs : receiveFlows[id] = f
  /\ f \in Flows \ closed
  /\ closed' = closed \cup {f}
  /\ UNCHANGED <<routeVars, receiveFlowsMutex, hflow, openerVars, closeVars>>

-----------------------------------------------------------------------------
(* Session.close holds the session's mutex throughout. *)
CloseBegin(c) ==
  /\ cpc[c] = "idle" /\ SessionMutexFree
  /\ closedErr' = TRUE
  /\ cpc' = [cpc EXCEPT ![c] = IF closedErr THEN "done" ELSE "begun"]
  /\ UNCHANGED <<routeVars, closed, receiveFlowsMutex, hflow, openerVars, snap>>

(* rangeFn clones receiveFlows under its own lock only ... *)
Snapshot(c) ==
  /\ cpc[c] = "begun"
  /\ cpc' = [cpc EXCEPT ![c] = "range"]
  /\ snap' = {receiveFlows[id] : id \in IDs} \ {0}
  /\ UNCHANGED <<routeVars, closed, receiveFlowsMutex, hflow, openerVars, closedErr>>

(* ... and closes the flows of the clone in any order. *)
RangeClose(c, f) ==
  /\ cpc[c] = "range" /\ f \in snap
  /\ snap' = snap \ {f}
  /\ closed' = closed \cup {f}
  /\ UNCHANGED <<routeVars, receiveFlowsMutex, hflow, openerVars, closedErr, cpc>>

CloseEnd(c) ==
  /\ cpc[c] = "range" /\ snap = {}
  /\ cpc' = [cpc EXCEPT ![c] = "done"]
  /\ UNCHANGED <<routeVars, closed, receiveFlowsMutex, hflow, openerVars, closedErr, snap>>

-----------------------------------------------------------------------------
Next ==
  \/ \E h \in Handlers, id \in IDs : Route(h, id)
  \/ \E o \in Openers, id \in IDs : CheckOpen(o, id)
  \/ \E o \in Openers : Duplicate(o) \/ Pop(o) \/ SetFlow(o)
  \/ \E f \in Flows : CloseFlow(f)
  \/ \E c \in Closers : CloseBegin(c) \/ Snapshot(c) \/ CloseEnd(c)
  \/ \E c \in Closers, f \in Flows : RangeClose(c, f)

Spec == Init /\ [][Next]_vars

-----------------------------------------------------------------------------
(* Every variable has its type, and getOrCreate keeps the buffer of unknown *)
(* flows within its limit.                                                  *)
TypeOK ==
  /\ receiveFlows \in [IDs -> 0..MaxFlows] /\ buffer \in [IDs -> 0..MaxFlows]
  /\ queue \in Seq(IDs) /\ Len(queue) <= MaxLen
  /\ made \in 0..MaxFlows /\ idOf \in [Flows -> IDs \cup {NoID}]
  /\ evicted \subseteq Flows /\ closed \subseteq Flows
  /\ receiveFlowsMutex \in Openers \cup {Nobody}
  /\ hflow \in [Handlers -> 0..MaxFlows]
  /\ opc \in [Openers -> {"idle", "checked", "set"}]
  /\ oid \in [Openers -> IDs \cup {NoID}] /\ oflow \in [Openers -> 0..MaxFlows]
  /\ ores \in [Openers -> {"none", "ok", "duplicate", "closed"}]
  /\ closedErr \in BOOLEAN /\ snap \subseteq Flows
  /\ cpc \in [Closers -> {"idle", "begun", "range", "done"}]

(* The queue lists exactly the buffered flows, each once, however pops and  *)
(* evictions alternate (pop deletes from its middle).                       *)
QueueListsBuffer ==
  /\ \A id \in IDs : buffer[id] # 0 <=> \E i \in 1..Len(queue) : queue[i] = id
  /\ \A i, j \in 1..Len(queue) : queue[i] = queue[j] => i = j

(* The packets of a flow ID never spread over two flows: all flows of an ID *)
(* but one have been evicted, also while NewReceiveFlow moves a flow from   *)
(* the buffer to receiveFlows.                                              *)
OneFlowPerID ==
  \A f, g \in (1..made) \ evicted : idOf[f] = idOf[g] => f = g

(* A flow that was not evicted can be found under its ID, or is about to    *)
(* be: what handlers push into it reaches the application that opens it.    *)
HoldsFlow(o, f) == opc[o] = "set" /\ oflow[o] = f
FlowsAreReachable ==
  \A f \in (1..made) \ evicted :
    \/ receiveFlows[idOf[f]] = f
    \/ buffer[idOf[f]] = f
    \/ \E o \in Openers : HoldsFlow(o, f) /\ oid[o] = idOf[f]

(* "The returned flow is no longer subject to eviction": a flow that        *)
(* NewReceiveFlow has popped is never cancelled as unknown.                 *)
OpenedFlowNotEvicted ==
  /\ \A id \in IDs : receiveFlows[id] \notin evicted
  /\ \A o \in Openers : opc[o] = "set" => oflow[o] \notin evicted

(* receiveFlow never returns a flow that has been evicted. *)
RoutedFlowNotEvicted ==
  [][\A h \in Handlers : hflow'[h] # hflow[h] => hflow'[h] \notin evicted']_vars

(* Eviction takes the oldest of the buffered flows. *)
OldestIsEvicted ==
  [][\A f \in evicted' \ evicted : \A id \in IDs : buffer'[id] # 0 => f < buffer'[id]]_vars

(* What close documents: "it tears down all flows".  Judged when no call of *)
(* NewReceiveFlow is under way.                                             *)
CloseTearsDownFlows ==
  (\E c \in Closers : cpc[c] = "done") /\ (\A o \in Openers : opc[o] = "idle") =>
    \A id \in IDs : receiveFlows[id] # 0 => receiveFlows[id] \in closed
=============================================================================
