------------------------------- MODULE SendFlows -------------------------------
(***************************************************************************)
(* The send flows of a session (send_flow.go, and NewSendFlow and the      *)
(* first half of close in session.go): goroutines that create flows, open  *)
(* streams on them, close them, and close the session, each a step at a    *)
(* time.  f.lock and s.mutex are explicit; the map sendFlows has a lock of *)
(* its own, so each of its operations is one step.                         *)
(***************************************************************************)
EXTENDS Naturals, Sequences, FiniteSets

CONSTANTS
  Ids,          \* flow IDs
  Streams,      \* QUIC streams
  Openers,      \* goroutines that call NewSendFlow
  Streamers,    \* goroutines that call NewSendStream
  FlowClosers,  \* goroutines that call SendFlow.Close
  Closers,      \* goroutines that call the session's close
  Reclose,      \* whether the application may close a flow again
  MaxFlows,     \* bound: flows created
  Nobody

Goroutines == Openers \cup Streamers \cup FlowClosers \cup Closers
None       == 0

ASSUME SendFlowsAssumption ==
  /\ Reclose \in BOOLEAN /\ MaxFlows \in Nat /\ Nobody \notin Goroutines
  /\ IsFiniteSet(Openers) /\ IsFiniteSet(Streamers) /\ FlowClosers \cap Closers = {}

VARIABLES
  flowID,       \* the flows, by creation: the ID of each
  sendFlows,    \* per ID: the registered flow, or None
  closedErr,    \* the flows marked closed
  lock,         \* per flow: who holds f.lock
  streams,      \* per flow: f.streams
  opened,       \* the streams OpenUniStreamSync has returned
  closed,       \* the streams whose Close was called
  pc, arg,      \* per goroutine: where, and with which ID, flow or stream
  sessionErr,   \* the session's closedErr is set
  mutex,        \* who holds s.mutex
  todo,         \* the flows rangeFn has yet to pass to Close
  connUp,       \* the connection is open
  racers,       \* history: who was in NewSendFlow when the session was closed
  inside,       \* history, per flow: who was in NewSendStream when it was closed
  orphaned      \* history: the flows that the Close of another flow unregistered

vars == <<flowID, sendFlows, closedErr, lock, streams, opened, closed, pc, arg,
          sessionErr, mutex, todo, connUp, racers, inside, orphaned>>

session == <<sessionErr, mutex, todo, connUp>>
history == <<racers, inside, orphaned>>
Flows   == 1..Len(flowID)

(* Past isClosed in NewSendFlow, and past isClosed in NewSendStream of f. *)
Racing    == {o \in Openers : pc[o] = "checked"}
Inside(f) == {w \in Streamers : pc[w] \in {"opening", "opened"} /\ arg[w][1] = f}

Goto(g, l, a) == pc' = [pc EXCEPT ![g] = l] /\ arg' = [arg EXCEPT ![g] = a]

Init ==
  /\ flowID = <<>> /\ sendFlows = [id \in Ids |-> None]
  /\ closedErr = {} /\ lock = [f \in 1..MaxFlows |-> Nobody]
  /\ streams = [f \in 1..MaxFlows |-> {}] /\ opened = {} /\ closed = {}
  /\ pc = [g \in Goroutines |-> "idle"] /\ arg = [g \in Goroutines |-> <<>>]
  /\ sessionErr = FALSE /\ mutex = Nobody /\ todo = {} /\ connUp = TRUE
  /\ racers = {} /\ inside = [f \in 1..MaxFlows |-> {}] /\ orphaned = {}

-----------------------------------------------------------------------------
(* NewSendFlow: isClosed, then getOrInsert. *)
CheckSession(o, id) ==
  /\ pc[o] = "idle" /\ mutex = Nobody /\ ~sessionErr
  /\ Goto(o, "checked", <<id>>)
  /\ UNCHANGED <<flowID, sendFlows, closedErr, lock, streams, opened, closed, session,
                 history>>

Vacant(id) == sendFlows[id] = None

GetOrInsert_SetFirst(o) ==
  LET id == arg[o][1] IN
  /\ pc[o] = "checked" /\ Len(flowID) < MaxFlows
  /\ flowID' = IF Vacant(id) THEN Append(flowID, id) ELSE flowID
  /\ sendFlows' = [sendFlows EXCEPT ![id] = Len(flowID) + 1]
  /\ Goto(o, "idle", <<>>)
  /\ UNCHANGED <<closedErr, lock, streams, opened, closed, session, history>>

GetOrInsert(o) ==
  LET id == arg[o][1] IN
  /\ pc[o] = "checked"
  /\ \/ /\ Vacant(id) /\ Len(flowID) < MaxFlows
        /\ flowID' = Append(flowID, id)
        /\ sendFlows' = [sendFlows EXCEPT ![id] = Len(flowID) + 1]
     \/ ~Vacant(id) /\ UNCHANGED <<flowID, sendFlows>>      \* errDuplicateFlowID
  /\ Goto(o, "idle", <<>>)
  /\ UNCHANGED <<closedErr, lock, streams, opened, closed, session, history>>

-----------------------------------------------------------------------------
(* NewSendStream: isClosed, OpenUniStreamSync (which may block for as long  *)
(* as the peer likes, or fail), then append.                                *)
LockFree_Ignored(f) == TRUE
LockFree(f) == lock[f] = Nobody

(* f.lock as isClosed leaves it. *)
AfterCheck_Held(w, f) == [lock EXCEPT ![f] = w]
AfterCheck(w, f) == lock

CheckFlow(w, f) ==
  /\ pc[w] = "idle" /\ f \in Flows
  /\ LockFree(f) /\ f \notin closedErr
  /\ lock' = AfterCheck(w, f)
  /\ Goto(w, "opening", <<f>>)
  /\ UNCHANGED <<flowID, sendFlows, closedErr, streams, opened, closed, session, history>>

OpenUniStreamSync(w, s) ==
  /\ pc[w] = "opening" /\ connUp /\ s \in Streams \ opened
  /\ opened' = opened \cup {s}
  /\ Goto(w, "opened", <<arg[w][1], s>>)
  /\ UNCHANGED <<flowID, sendFlows, closedErr, lock, streams, closed, session, history>>

OpenFails(w) ==
  /\ pc[w] = "opening"
  /\ Goto(w, "idle", <<>>)
  /\ UNCHANGED <<flowID, sendFlows, closedErr, lock, streams, opened, closed, session,
                 history>>

AppendStream(w) ==
  /\ pc[w] = "opened" /\ LockFree(arg[w][1])
  /\ streams' = [streams EXCEPT ![arg[w][1]] = @ \cup {arg[w][2]}]
  /\ Goto(w, "idle", <<>>)
  /\ UNCHANGED <<flowID, sendFlows, closedErr, lock, opened, closed, session, history>>

-----------------------------------------------------------------------------
(* SendFlow.Close, under f.lock: close every stream, remove the ID of the   *)
(* flow from the session, and then mark the flow closed.                    *)
Removed_Omitted(f) == sendFlows
Removed(f) == [sendFlows EXCEPT ![flowID[f]] = None]

CloseStreams(g, f) ==
  /\ LockFree(f)
  /\ lock' = [lock EXCEPT ![f] = g]
  /\ closed' = closed \cup streams[f]
  /\ sendFlows' = Removed(f)
  /\ orphaned' = orphaned \cup ({sendFlows[flowID[f]]} \ {f, None})
  /\ Goto(g, "marking", <<f>>)
  /\ UNCHANGED <<flowID, closedErr, streams, opened, session, racers, inside>>

MarkClosed(g) ==
  LET f == arg[g][1] IN
  /\ pc[g] = "marking"
  /\ closedErr' = closedErr \cup {f}
  /\ inside' = IF f \in closedErr THEN inside ELSE [inside EXCEPT ![f] = Inside(f)]
  /\ lock' = [lock EXCEPT ![f] = Nobody]
  /\ todo' = IF g \in Closers THEN todo \ {f} ELSE todo
  /\ Goto(g, IF g \in Closers THEN "range" ELSE "idle", <<>>)
  /\ UNCHANGED <<flowID, sendFlows, streams, opened, closed, sessionErr, mutex, connUp,
                 racers, orphaned>>

CloseFlow(g, f) ==
  /\ pc[g] = "idle" /\ f \in Flows /\ (Reclose \/ f \notin closedErr)
  /\ CloseStreams(g, f)

-----------------------------------------------------------------------------
(* close: the flows registered when rangeFn clones the map are closed one   *)
(* by one, then the connection, with which its streams end.                 *)
CloseBegin(c) ==
  /\ pc[c] = "idle" /\ mutex = Nobody
  /\ \/ /\ sessionErr /\ Goto(c, "closed", <<>>)
        /\ UNCHANGED <<sessionErr, mutex, racers>>
     \/ /\ ~sessionErr /\ sessionErr' = TRUE /\ mutex' = c
        /\ racers' = Racing
        /\ Goto(c, "snapshot", <<>>)
  /\ UNCHANGED <<flowID, sendFlows, closedErr, lock, streams, opened, closed, todo, connUp,
                 inside, orphaned>>

Registered_First ==
  LET all == {sendFlows[id] : id \in Ids} \ {None} IN {f \in all : \A h \in all : f <= h}
Registered == {sendFlows[id] : id \in Ids} \ {None}

Snapshot(c) ==
  /\ pc[c] = "snapshot"
  /\ todo' = Registered
  /\ Goto(c, "range", <<>>)
  /\ UNCHANGED <<flowID, sendFlows, closedErr, lock, streams, opened, closed, sessionErr,
                 mutex, connUp, history>>

RangeClose(c) ==
  /\ pc[c] = "range"
  /\ \E f \in todo : CloseStreams(c, f)

CloseEnd(c) ==
  /\ pc[c] = "range" /\ todo = {}
  /\ connUp' = FALSE
  /\ mutex' = Nobody
  /\ Goto(c, "closed", <<>>)
  /\ UNCHANGED <<flowID, sendFlows, closedErr, lock, streams, opened, closed, sessionErr,
                 todo, history>>

-----------------------------------------------------------------------------
CloseStep(c) == Snapshot(c) \/ RangeClose(c) \/ CloseEnd(c) \/ MarkClosed(c)

Next ==
  \/ \E o \in Openers : GetOrInsert(o) \/ \E id \in Ids : CheckSession(o, id)
  \/ \E w \in Streamers : \/ \E f \in Flows : CheckFlow(w, f)
                          \/ \E s \in Streams : OpenUniStreamSync(w, s)
                          \/ OpenFails(w) \/ AppendStream(w)
  \/ \E g \in FlowClosers : MarkClosed(g) \/ \E f \in Flows : CloseFlow(g, f)
  \/ \E c \in Closers : CloseBegin(c) \/ CloseStep(c)

Spec == Init /\ [][Next]_vars

(* A goroutine that has begun to close the session or a flow goes on, but   *)
(* nobody has to begin.  RangeClose waits for f.lock, which other goroutines *)
(* may take again and again: Go's mutex hands over to a starving waiter.    *)
(* OpenUniStreamSync may block for ever.                                    *)
Fairness ==
  /\ \A c \in Closers : SF_vars(CloseStep(c))
  /\ \A g \in FlowClosers : WF_vars(MarkClosed(g))

FairSpec == Spec /\ Fairness
-----------------------------------------------------------------------------
(* Every variable has its type, and the map holds flows under their IDs. *)
TypeOK ==
  /\ flowID \in Seq(Ids) /\ Len(flowID) <= MaxFlows
  /\ sendFlows \in [Ids -> Flows \cup {None}]
  /\ closedErr \subseteq Flows /\ todo \subseteq Flows
  /\ lock \in [1..MaxFlows -> Goroutines \cup {Nobody}]
  /\ streams \in [1..MaxFlows -> SUBSET Streams]
  /\ opened \subseteq Streams /\ closed \subseteq Streams
  /\ pc \in [Goroutines -> {"idle", "checked", "opening", "opened", "marking",
                            "snapshot", "range", "closed"}]
  /\ sessionErr \in BOOLEAN /\ connUp \in BOOLEAN
  /\ mutex \in Closers \cup {Nobody}
  /\ \A id \in Ids : sendFlows[id] # None => flowID[sendFlows[id]] = id
  /\ racers \subseteq Openers /\ inside \in [1..MaxFlows -> SUBSET Streamers]
  /\ orphaned \subseteq Flows

(* A flow that is marked closed is not registered: its ID can be used       *)
(* again, and the session does not close it again.                          *)
RegisteredFlowsAreOpen == \A id \in Ids : sendFlows[id] \notin closedErr

(* Close closes the flow and all its streams (send_flow.go:113) but for     *)
(* those of a NewSendStream under way: each goroutine that was past its     *)
(* isClosed when Close marked the flow may still append one stream, which   *)
(* nothing closes before the connection.  Every other stream of a closed    *)
(* flow is closed, for as long as the flow stays closed, and so are all of  *)
(* them when no NewSendStream was under way.                                *)
OnlyRacingStreamsStayOpen ==
  \A f \in closedErr :
    Cardinality(streams[f] \ closed) + Cardinality(Inside(f)) <= Cardinality(inside[f])

(* A flow that nobody closes stays registered: NewSendFlow refuses its ID,  *)
(* and closing the session closes it.                                       *)
OpenFlowsAreRegistered ==
  \A f \in Flows : f \notin closedErr /\ lock[f] = Nobody => sendFlows[flowID[f]] = f

(* Closing the session ends, also while NewSendStream is blocked opening a  *)
(* stream on one of its flows.                                              *)
CloseEnds == \A c \in Closers : pc[c] = "snapshot" ~> pc[c] = "closed"

(* A flow outlives close in two ways only.  The Close of an older flow of   *)
(* its ID unregistered it (SendFlowsReclose shows how), or NewSendFlow was  *)
(* between isClosed and getOrInsert when close set closedErr: a closed      *)
(* session has at most one open flow for each of those goroutines, counting *)
(* the flows they have yet to insert, and none if there were none.          *)
LeftOpen == {f \in Flows : f \notin closedErr \cup orphaned /\ lock[f] = Nobody}
OnlyRacersEscapeClose ==
  sessionErr /\ mutex = Nobody =>
    Cardinality(LeftOpen) + Cardinality(Racing) <= Cardinality(racers)
=============================================================================
