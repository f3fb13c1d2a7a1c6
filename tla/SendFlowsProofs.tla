---------------------------- MODULE SendFlowsProofs ----------------------------
(***************************************************************************)
(* The invariants of SendFlows, for any number of flows, IDs, streams and  *)
(* goroutines, and whether or not flows are closed again.                  *)
(***************************************************************************)
EXTENDS SendFlows, FiniteSetTheorems, TLAPS

Labels == {"idle", "checked", "opening", "opened", "marking", "snapshot", "range", "closed"}

(* The parts of TypeOK: the flows and the map, the locks and streams, and   *)
(* where the goroutines are.                                                *)
FlowTypes ==
  /\ flowID \in Seq(Ids) /\ Len(flowID) <= MaxFlows
  /\ sendFlows \in [Ids -> Flows \cup {None}]
  /\ closedErr \subseteq Flows /\ todo \subseteq Flows /\ orphaned \subseteq Flows
  /\ \A id \in Ids : sendFlows[id] # None => flowID[sendFlows[id]] = id

StreamTypes ==
  /\ lock \in [1..MaxFlows -> Goroutines \cup {Nobody}]
  /\ streams \in [1..MaxFlows -> SUBSET Streams]
  /\ opened \subseteq Streams /\ closed \subseteq Streams
  /\ racers \subseteq Openers /\ inside \in [1..MaxFlows -> SUBSET Streamers]

(* What a goroutine carries from one step to the next. *)
Fits(l, a) ==
  /\ l = "checked" => \E id \in Ids : a = <<id>>
  /\ l \in {"opening", "marking"} => \E f \in Flows : a = <<f>>
  /\ l = "opened" => \E f \in Flows : \E s \in Streams : a = <<f, s>>

ControlTypes ==
  /\ pc \in [Goroutines -> Labels]
  /\ arg \in [Goroutines -> Seq(Ids \cup Nat \cup Streams)]
  /\ mutex \in Closers \cup {Nobody}

ArgInv == \A g \in Goroutines : Fits(pc[g], arg[g])

(* A goroutine that is about to mark its flow closed holds the lock of the  *)
(* flow, has removed it from the session, and has closed all its streams.   *)
MarkInv ==
  \A g \in Goroutines : pc[g] = "marking" =>
    /\ lock[arg[g][1]] = g
    /\ \A id \in Ids : sendFlows[id] # arg[g][1]
    /\ streams[arg[g][1]] \subseteq closed

Types == FlowTypes /\ StreamTypes /\ ControlTypes /\ ArgInv
IInv  == Types /\ MarkInv /\ RegisteredFlowsAreOpen

-----------------------------------------------------------------------------
(* rangeFn hands Close flows of the session only. *)
LEMMA RangeIsFlow == IInv => \A f \in todo : f \in Flows
BY Zenon DEF IInv, Types, FlowTypes

(* Closers of flows and of the session are goroutines. *)
LEMMA CloserIsGoroutine ==
  /\ \A c \in Closers : c \in Goroutines
  /\ \A g \in FlowClosers : g \in Goroutines
  /\ \A o \in Openers : o \in Goroutines
  /\ \A w \in Streamers : w \in Goroutines
BY Zenon DEF Goroutines

(* What a goroutine carries, by components. *)
LEMMA Carried ==
  ASSUME IInv, NEW g \in Goroutines
  PROVE  /\ pc[g] = "checked" => arg[g][1] \in Ids
         /\ pc[g] \in {"opening", "opened", "marking"} => arg[g][1] \in Flows
         /\ pc[g] = "opened" => arg[g][2] \in Streams
<1>1. Fits(pc[g], arg[g])
  BY Zenon DEF IInv, Types, ArgInv
<1>2. QED
  BY <1>1 DEF Fits

(* Every step keeps the types of the flows and of the map. *)
LEMMA FlowTypesStep ==
  ASSUME IInv, [Next]_vars
  PROVE  FlowTypes'
<1> USE SendFlowsAssumption DEF IInv, Types, FlowTypes, Flows, None, session, history
<1>1. ASSUME NEW o \in Openers, NEW id \in Ids, CheckSession(o, id) PROVE FlowTypes'
  BY <1>1 DEF CheckSession
<1>2. ASSUME NEW o \in Openers, GetOrInsert(o) PROVE FlowTypes'
  <2>1. arg[o][1] \in Ids
    BY <1>2, Carried, CloserIsGoroutine, Zenon DEF GetOrInsert
  <2>2. UNCHANGED <<closedErr, todo, orphaned>>
    BY <1>2 DEF GetOrInsert
  <2>3. CASE UNCHANGED <<flowID, sendFlows>>
    BY <2>2, <2>3
  <2>4. CASE /\ Len(flowID) < MaxFlows
             /\ flowID' = Append(flowID, arg[o][1])
             /\ sendFlows' = [sendFlows EXCEPT ![arg[o][1]] = Len(flowID) + 1]
    BY <2>1, <2>2, <2>4
  <2>5. QED
    BY <1>2, <2>3, <2>4, Zenon DEF GetOrInsert
<1>3. ASSUME NEW w \in Streamers, NEW f \in Flows, CheckFlow(w, f) PROVE FlowTypes'
  BY <1>3 DEF CheckFlow, AfterCheck, LockFree
<1>4. ASSUME NEW w \in Streamers, NEW s \in Streams, OpenUniStreamSync(w, s)
      PROVE  FlowTypes'
  BY <1>4 DEF OpenUniStreamSync
<1>5. ASSUME NEW w \in Streamers, OpenFails(w) PROVE FlowTypes'
  BY <1>5 DEF OpenFails
<1>6. ASSUME NEW w \in Streamers, AppendStream(w) PROVE FlowTypes'
  BY <1>6 DEF AppendStream, LockFree
<1>7. ASSUME NEW g \in Goroutines, NEW f \in Flows, CloseStreams(g, f) PROVE FlowTypes'
  <2>1. sendFlows[flowID[f]] \in Flows \cup {None}
    BY <1>7
  <2>2. orphaned' \subseteq Flows'
    BY <1>7, <2>1 DEF CloseStreams
  <2>3. QED
    BY <1>7, <2>2 DEF CloseStreams, Removed
<1>8. ASSUME NEW g \in Goroutines, MarkClosed(g) PROVE FlowTypes'
  BY <1>8, Carried DEF MarkClosed
<1>9. ASSUME NEW c \in Closers, CloseBegin(c) PROVE FlowTypes'
  BY <1>9 DEF CloseBegin
<1>10. ASSUME NEW c \in Closers, Snapshot(c) PROVE FlowTypes'
  BY <1>10 DEF Snapshot, Registered
<1>11. ASSUME NEW c \in Closers, CloseEnd(c) PROVE FlowTypes'
  BY <1>11 DEF CloseEnd
<1>12. CASE UNCHANGED vars
  BY <1>12 DEF vars
<1>13. QED
  <2> HIDE DEF FlowTypes, IInv, Types, Flows, None, session, history
  <2> QED
    BY <1>1, <1>2, <1>3, <1>4, <1>5, <1>6, <1>7, <1>8, <1>9, <1>10, <1>11, <1>12,
       RangeIsFlow, CloserIsGoroutine, Zenon
       DEF Next, CloseStep, CloseFlow, RangeClose

(* A flow is within the bound, and is not None. *)
LEMMA FlowsBounded ==
  ASSUME IInv
  PROVE  \A f \in Flows : f \in 1..MaxFlows /\ f # None /\ f \in Nat
BY SendFlowsAssumption DEF IInv, Types, FlowTypes, Flows, None

(* Flows are never forgotten. *)
LEMMA FlowsGrow ==
  ASSUME IInv, [Next]_vars
  PROVE  \A f \in Flows : f \in Flows'
<1>1. UNCHANGED flowID \/ \E o \in Openers : GetOrInsert(o)
  BY Zenon DEF Next, vars, CloseStep, CloseFlow, RangeClose, CheckSession, CheckFlow,
     OpenUniStreamSync, OpenFails, AppendStream, CloseStreams, MarkClosed, CloseBegin,
     Snapshot, CloseEnd
<1>2. \A o \in Openers :
        GetOrInsert(o) => UNCHANGED flowID \/ \E id : flowID' = Append(flowID, id)
  BY Zenon DEF GetOrInsert
<1>3. UNCHANGED flowID \/ \E id : flowID' = Append(flowID, id)
  BY <1>1, <1>2, Zenon
<1>4. flowID \in Seq(Ids)
  BY Zenon DEF IInv, Types, FlowTypes
<1>5. CASE UNCHANGED flowID
  BY <1>5 DEF Flows
<1>6. ASSUME NEW id, flowID' = Append(flowID, id)
      PROVE  \A f \in Flows : f \in Flows'
  BY <1>4, <1>6 DEF Flows
<1>7. QED
  BY <1>3, <1>5, <1>6, Zenon

(* Every step keeps the types of the locks and the streams. *)
LEMMA StreamTypesStep ==
  ASSUME IInv, [Next]_vars
  PROVE  StreamTypes'
<1> USE SendFlowsAssumption DEF IInv, Types, StreamTypes, session, history
<1>1. ASSUME NEW o \in Openers, NEW id \in Ids, CheckSession(o, id) PROVE StreamTypes'
  BY <1>1 DEF CheckSession
<1>2. ASSUME NEW o \in Openers, GetOrInsert(o) PROVE StreamTypes'
  BY <1>2 DEF GetOrInsert, Vacant
<1>3. ASSUME NEW w \in Streamers, NEW f \in Flows, CheckFlow(w, f) PROVE StreamTypes'
  BY <1>3 DEF CheckFlow, AfterCheck, LockFree
<1>4. ASSUME NEW w \in Streamers, NEW s \in Streams, OpenUniStreamSync(w, s)
      PROVE  StreamTypes'
  BY <1>4 DEF OpenUniStreamSync
<1>5. ASSUME NEW w \in Streamers, OpenFails(w) PROVE StreamTypes'
  BY <1>5 DEF OpenFails
<1>6. ASSUME NEW w \in Streamers, AppendStream(w) PROVE StreamTypes'
  BY <1>6, Carried, CloserIsGoroutine DEF AppendStream, LockFree
<1>7. ASSUME NEW g \in Goroutines, NEW f \in Flows, CloseStreams(g, f) PROVE StreamTypes'
  BY <1>7, FlowsBounded DEF CloseStreams, Removed, LockFree
<1>8. ASSUME NEW g \in Goroutines, MarkClosed(g) PROVE StreamTypes'
  BY <1>8 DEF MarkClosed, Inside
<1>9. ASSUME NEW c \in Closers, CloseBegin(c) PROVE StreamTypes'
  BY <1>9 DEF CloseBegin, Racing
<1>10. ASSUME NEW c \in Closers, Snapshot(c) PROVE StreamTypes'
  BY <1>10 DEF Snapshot
<1>11. ASSUME NEW c \in Closers, CloseEnd(c) PROVE StreamTypes'
  BY <1>11 DEF CloseEnd
<1>12. CASE UNCHANGED vars
  BY <1>12 DEF vars
<1>13. QED
  <2> HIDE DEF StreamTypes, IInv, Types, session, history
  <2> QED
    BY <1>1, <1>2, <1>3, <1>4, <1>5, <1>6, <1>7, <1>8, <1>9, <1>10, <1>11, <1>12,
       RangeIsFlow, CloserIsGoroutine, Zenon
       DEF Next, CloseStep, CloseFlow, RangeClose

(* A step of a goroutine to where what it carries is right. *)
LEMMA GotoFits ==
  ASSUME IInv, [Next]_vars, NEW g \in Goroutines, NEW l \in Labels,
         NEW a \in Seq(Ids \cup Nat \cup Streams), Goto(g, l, a), Fits(l, a)
  PROVE  /\ pc' \in [Goroutines -> Labels]
         /\ arg' \in [Goroutines -> Seq(Ids \cup Nat \cup Streams)]
         /\ ArgInv'
<1>1. /\ pc \in [Goroutines -> Labels]
      /\ arg \in [Goroutines -> Seq(Ids \cup Nat \cup Streams)]
  BY Zenon DEF IInv, Types, ControlTypes
<1>2. \A h \in Goroutines : Fits(pc[h], arg[h])
  BY Zenon DEF IInv, Types, ArgInv
<1>3. \A h \in Goroutines : Fits(pc'[h], arg'[h])
  BY <1>1, <1>2 DEF Goto
<1>4. \A h \in Goroutines : Fits(pc[h], arg[h])'
  BY <1>3, FlowsGrow, Zenon DEF Fits
<1>5. QED
  BY <1>1, <1>4 DEF Goto, ArgInv

(* Every step leaves each goroutine with what its next step needs. *)
LEMMA ControlStep ==
  ASSUME IInv, [Next]_vars
  PROVE  (ControlTypes /\ ArgInv)'
<1>1. ASSUME NEW o \in Openers, NEW id \in Ids, CheckSession(o, id)
      PROVE  (ControlTypes /\ ArgInv)'
  <2>1. Goto(o, "checked", <<id>>) /\ mutex' \in Closers \cup {Nobody}
    BY <1>1, Zenon DEF CheckSession, session, IInv, Types, ControlTypes
  <2>2. "checked" \in Labels /\ <<id>> \in Seq(Ids \cup Nat \cup Streams) /\ Fits("checked", <<id>>)
    BY DEF Labels, Fits
  <2>3. QED
    BY <2>1, <2>2, GotoFits, CloserIsGoroutine, Zenon DEF ControlTypes
<1>2. ASSUME NEW o \in Openers, GetOrInsert(o)
      PROVE  (ControlTypes /\ ArgInv)'
  <2>1. Goto(o, "idle", <<>>) /\ mutex' \in Closers \cup {Nobody}
    BY <1>2, Zenon DEF GetOrInsert, session, IInv, Types, ControlTypes
  <2>2. "idle" \in Labels /\ <<>> \in Seq(Ids \cup Nat \cup Streams) /\ Fits("idle", <<>>)
    BY DEF Labels, Fits
  <2>3. QED
    BY <2>1, <2>2, GotoFits, CloserIsGoroutine, Zenon DEF ControlTypes
<1>3. ASSUME NEW w \in Streamers, NEW f \in Flows, CheckFlow(w, f)
      PROVE  (ControlTypes /\ ArgInv)'
  <2>1. Goto(w, "opening", <<f>>) /\ mutex' \in Closers \cup {Nobody}
    BY <1>3, Zenon DEF CheckFlow, session, IInv, Types, ControlTypes
  <2>2. "opening" \in Labels /\ <<f>> \in Seq(Ids \cup Nat \cup Streams) /\ Fits("opening", <<f>>)
    BY FlowsBounded DEF Labels, Fits
  <2>3. QED
    BY <2>1, <2>2, GotoFits, CloserIsGoroutine, Zenon DEF ControlTypes
<1>4. ASSUME NEW w \in Streamers, NEW s \in Streams, OpenUniStreamSync(w, s)
      PROVE  (ControlTypes /\ ArgInv)'
  <2>1. /\ pc[w] = "opening" /\ Goto(w, "opened", <<arg[w][1], s>>)
        /\ mutex' \in Closers \cup {Nobody}
    BY <1>4, Zenon DEF OpenUniStreamSync, session, IInv, Types, ControlTypes
  <2>2. arg[w][1] \in Flows
    BY <2>1, Carried, CloserIsGoroutine, Zenon
  <2>3. /\ "opened" \in Labels /\ <<arg[w][1], s>> \in Seq(Ids \cup Nat \cup Streams)
        /\ Fits("opened", <<arg[w][1], s>>)
    BY <2>2, FlowsBounded DEF Labels, Fits
  <2>4. QED
    BY <2>1, <2>3, GotoFits, CloserIsGoroutine, Zenon DEF ControlTypes
<1>5. ASSUME NEW w \in Streamers, OpenFails(w)
      PROVE  (ControlTypes /\ ArgInv)'
  <2>1. Goto(w, "idle", <<>>) /\ mutex' \in Closers \cup {Nobody}
    BY <1>5, Zenon DEF OpenFails, session, IInv, Types, ControlTypes
  <2>2. "idle" \in Labels /\ <<>> \in Seq(Ids \cup Nat \cup Streams) /\ Fits("idle", <<>>)
    BY DEF Labels, Fits
  <2>3. QED
    BY <2>1, <2>2, GotoFits, CloserIsGoroutine, Zenon DEF ControlTypes
<1>6. ASSUME NEW w \in Streamers, AppendStream(w)
      PROVE  (ControlTypes /\ ArgInv)'
  <2>1. Goto(w, "idle", <<>>) /\ mutex' \in Closers \cup {Nobody}
    BY <1>6, Zenon DEF AppendStream, session, IInv, Types, ControlTypes
  <2>2. "idle" \in Labels /\ <<>> \in Seq(Ids \cup Nat \cup Streams) /\ Fits("idle", <<>>)
    BY DEF Labels, Fits
  <2>3. QED
    BY <2>1, <2>2, GotoFits, CloserIsGoroutine, Zenon DEF ControlTypes
<1>7. ASSUME NEW g \in Goroutines, NEW f \in Flows, CloseStreams(g, f)
      PROVE  (ControlTypes /\ ArgInv)'
  <2>1. Goto(g, "marking", <<f>>) /\ mutex' \in Closers \cup {Nobody}
    BY <1>7, Zenon DEF CloseStreams, session, IInv, Types, ControlTypes
  <2>2. "marking" \in Labels /\ <<f>> \in Seq(Ids \cup Nat \cup Streams) /\ Fits("marking", <<f>>)
    BY FlowsBounded DEF Labels, Fits
  <2>3. QED
    BY <2>1, <2>2, GotoFits, CloserIsGoroutine, Zenon DEF ControlTypes
<1>8. ASSUME NEW g \in Goroutines, MarkClosed(g)
      PROVE  (ControlTypes /\ ArgInv)'
  <2>1. /\ Goto(g, (IF g \in Closers THEN "range" ELSE "idle"), <<>>)
        /\ mutex' \in Closers \cup {Nobody}
    BY <1>8, Zenon DEF MarkClosed, session, IInv, Types, ControlTypes
  <2>2. /\ (IF g \in Closers THEN "range" ELSE "idle") \in Labels
        /\ <<>> \in Seq(Ids \cup Nat \cup Streams)
        /\ Fits((IF g \in Closers THEN "range" ELSE "idle"), <<>>)
    BY DEF Labels, Fits
  <2>3. QED
    BY <2>1, <2>2, GotoFits, CloserIsGoroutine, Zenon DEF ControlTypes
<1>9. ASSUME NEW c \in Closers, CloseBegin(c)
      PROVE  (ControlTypes /\ ArgInv)'
  <2>1. PICK l \in {"snapshot", "closed"} : Goto(c, l, <<>>)
    BY <1>9, Zenon DEF CloseBegin
  <2>2. mutex' \in Closers \cup {Nobody}
    BY <1>9, Zenon DEF CloseBegin, IInv, Types, ControlTypes
  <2>3. l \in Labels /\ <<>> \in Seq(Ids \cup Nat \cup Streams) /\ Fits(l, <<>>)
    BY DEF Labels, Fits
  <2>4. QED
    BY <2>1, <2>2, <2>3, GotoFits, CloserIsGoroutine, Zenon DEF ControlTypes
<1>10. ASSUME NEW c \in Closers, Snapshot(c)
      PROVE  (ControlTypes /\ ArgInv)'
  <2>1. Goto(c, "range", <<>>) /\ mutex' \in Closers \cup {Nobody}
    BY <1>10, Zenon DEF Snapshot, session, IInv, Types, ControlTypes
  <2>2. "range" \in Labels /\ <<>> \in Seq(Ids \cup Nat \cup Streams) /\ Fits("range", <<>>)
    BY DEF Labels, Fits
  <2>3. QED
    BY <2>1, <2>2, GotoFits, CloserIsGoroutine, Zenon DEF ControlTypes
<1>11. ASSUME NEW c \in Closers, CloseEnd(c)
      PROVE  (ControlTypes /\ ArgInv)'
  <2>1. Goto(c, "closed", <<>>) /\ mutex' \in Closers \cup {Nobody}
    BY <1>11, Zenon DEF CloseEnd, session, IInv, Types, ControlTypes
  <2>2. "closed" \in Labels /\ <<>> \in Seq(Ids \cup Nat \cup Streams) /\ Fits("closed", <<>>)
    BY DEF Labels, Fits
  <2>3. QED
    BY <2>1, <2>2, GotoFits, CloserIsGoroutine, Zenon DEF ControlTypes
<1>12. CASE UNCHANGED vars
  BY <1>12, Zenon DEF vars, IInv, Types, ControlTypes, ArgInv, Fits, Flows
<1>13. QED
  BY <1>1, <1>2, <1>3, <1>4, <1>5, <1>6, <1>7, <1>8, <1>9, <1>10, <1>11, <1>12,
     RangeIsFlow, CloserIsGoroutine, Zenon
     DEF Next, CloseStep, CloseFlow, RangeClose

(* Every step keeps what is known of a goroutine that marks a flow. *)
LEMMA MarkStep ==
  ASSUME IInv, [Next]_vars
  PROVE  MarkInv'
<1> USE SendFlowsAssumption DEF MarkInv
<1>a. /\ pc \in [Goroutines -> Labels]
      /\ arg \in [Goroutines -> Seq(Ids \cup Nat \cup Streams)]
  BY Zenon DEF IInv, Types, ControlTypes
<1>b. FlowTypes /\ StreamTypes /\ MarkInv
  BY Zenon DEF IInv, Types
<1>c. \A h \in Goroutines : pc[h] = "marking" => arg[h][1] \in Flows
  BY Carried, Zenon
<1>1. ASSUME NEW o \in Openers, NEW id \in Ids, CheckSession(o, id)
      PROVE  MarkInv'
  BY <1>1, <1>a, <1>b, <1>c, CloserIsGoroutine DEF CheckSession, Goto, session
<1>2. ASSUME NEW o \in Openers, GetOrInsert(o)
      PROVE  MarkInv'
  BY <1>2, <1>a, <1>b, <1>c, CloserIsGoroutine, Carried
     DEF GetOrInsert, Goto, Vacant, FlowTypes, Flows, None, session
<1>3. ASSUME NEW w \in Streamers, NEW f \in Flows, CheckFlow(w, f)
      PROVE  MarkInv'
  BY <1>3, <1>a, <1>b, <1>c, CloserIsGoroutine DEF CheckFlow, Goto, AfterCheck, session
<1>4. ASSUME NEW w \in Streamers, NEW s \in Streams, OpenUniStreamSync(w, s)
      PROVE  MarkInv'
  BY <1>4, <1>a, <1>b, <1>c, CloserIsGoroutine DEF OpenUniStreamSync, Goto, session
<1>5. ASSUME NEW w \in Streamers, OpenFails(w)
      PROVE  MarkInv'
  BY <1>5, <1>a, <1>b, <1>c, CloserIsGoroutine DEF OpenFails, Goto, session
<1>6. ASSUME NEW w \in Streamers, AppendStream(w)
      PROVE  MarkInv'
  BY <1>6, <1>a, <1>b, <1>c, CloserIsGoroutine
     DEF AppendStream, Goto, LockFree, StreamTypes, session
<1>7. ASSUME NEW g \in Goroutines, NEW f \in Flows, CloseStreams(g, f)
      PROVE  MarkInv'
  BY <1>7, <1>a, <1>b, <1>c, CloserIsGoroutine, FlowsBounded
     DEF CloseStreams, Goto, Removed, LockFree, FlowTypes, StreamTypes, None, session
<1>8. ASSUME NEW g \in Goroutines, MarkClosed(g)
      PROVE  MarkInv'
  BY <1>8, <1>a, <1>b, <1>c, CloserIsGoroutine DEF MarkClosed, Goto, StreamTypes
<1>9. ASSUME NEW c \in Closers, CloseBegin(c)
      PROVE  MarkInv'
  BY <1>9, <1>a, <1>b, <1>c, CloserIsGoroutine DEF CloseBegin, Goto, session
<1>10. ASSUME NEW c \in Closers, Snapshot(c)
      PROVE  MarkInv'
  BY <1>10, <1>a, <1>b, <1>c, CloserIsGoroutine DEF Snapshot, Goto, session
<1>11. ASSUME NEW c \in Closers, CloseEnd(c)
      PROVE  MarkInv'
  BY <1>11, <1>a, <1>b, <1>c, CloserIsGoroutine DEF CloseEnd, Goto, session
<1>12. CASE UNCHANGED vars
  BY <1>12, <1>b DEF vars
<1>13. QED
  <2> HIDE DEF MarkInv
  <2> QED
    BY <1>1, <1>2, <1>3, <1>4, <1>5, <1>6, <1>7, <1>8, <1>9, <1>10, <1>11, <1>12,
       RangeIsFlow, CloserIsGoroutine, Zenon
       DEF Next, CloseStep, CloseFlow, RangeClose

(* Only MarkClosed adds to the flows marked closed, and it adds a flow that *)
(* is no longer registered and whose streams are closed.                    *)
LEMMA OnlyMarks ==
  ASSUME IInv, [Next]_vars, NEW f \in closedErr' \ closedErr
  PROVE  /\ \A id \in Ids : sendFlows[id] # f
         /\ streams[f] \subseteq closed
         /\ UNCHANGED <<sendFlows, streams, closed>>
<1>1. PICK g \in Goroutines : MarkClosed(g)
  BY CloserIsGoroutine, Zenon
     DEF Next, vars, session, CloseStep, CloseFlow, RangeClose, CheckSession, GetOrInsert,
     CheckFlow, OpenUniStreamSync, OpenFails, AppendStream, CloseStreams, CloseBegin,
     Snapshot, CloseEnd
<1>2. pc[g] = "marking" /\ f = arg[g][1] /\ UNCHANGED <<sendFlows, streams, closed>>
  BY <1>1, Zenon DEF MarkClosed
<1>3. QED
  BY <1>2, Zenon DEF IInv, MarkInv

(* No step registers a closed flow or closes a registered one. *)
LEMMA RegisteredStep ==
  ASSUME IInv, [Next]_vars
  PROVE  RegisteredFlowsAreOpen'
<1> SUFFICES ASSUME NEW id \in Ids PROVE sendFlows'[id] \notin closedErr'
  BY Zenon DEF RegisteredFlowsAreOpen
<1>1. sendFlows'[id] = sendFlows[id] \/ sendFlows'[id] \notin Flows
  <2>1. FlowTypes
    BY Zenon DEF IInv, Types
  <2>2. \/ UNCHANGED sendFlows \/ \E o \in Openers : GetOrInsert(o)
        \/ \E g \in Goroutines : \E f \in Flows : CloseStreams(g, f)
    BY CloserIsGoroutine, RangeIsFlow, Zenon
       DEF Next, vars, CloseStep, CloseFlow, RangeClose, CheckSession, CheckFlow,
       OpenUniStreamSync, OpenFails, AppendStream, MarkClosed, CloseBegin, Snapshot, CloseEnd
  <2>3. ASSUME NEW o \in Openers, GetOrInsert(o)
        PROVE  sendFlows'[id] = sendFlows[id] \/ sendFlows'[id] \notin Flows
    BY <2>1, <2>3 DEF GetOrInsert, FlowTypes, Flows
  <2>4. ASSUME NEW g \in Goroutines, NEW f \in Flows, CloseStreams(g, f)
        PROVE  sendFlows'[id] = sendFlows[id] \/ sendFlows'[id] \notin Flows
    BY <2>1, <2>4 DEF CloseStreams, Removed, FlowTypes, Flows, None
  <2>5. QED
    BY <2>2, <2>3, <2>4, Zenon
<1>2. closedErr \subseteq Flows /\ sendFlows[id] \notin closedErr
  BY Zenon DEF IInv, Types, FlowTypes, RegisteredFlowsAreOpen
<1>3. CASE sendFlows'[id] \in closedErr
  BY <1>1, <1>2, <1>3, Zenon
<1>4. CASE sendFlows'[id] \in closedErr' \ closedErr
  BY <1>4, OnlyMarks, Zenon
<1>5. QED
  BY <1>3, <1>4, Zenon

-----------------------------------------------------------------------------
(* The initial state satisfies the inductive invariant. *)
LEMMA InitInv == Init => IInv
<1> SUFFICES ASSUME Init PROVE IInv
  OBVIOUS
<1>1. FlowTypes
  BY SendFlowsAssumption DEF Init, FlowTypes, Flows, None
<1>2. StreamTypes
  BY DEF Init, StreamTypes
<1>3. ControlTypes
  BY DEF Init, ControlTypes, Labels
<1>4. \A g \in Goroutines : pc[g] = "idle"
  BY DEF Init
<1>5. ArgInv /\ MarkInv
  BY <1>4 DEF ArgInv, MarkInv, Fits
<1>6. RegisteredFlowsAreOpen
  BY Zenon DEF Init, RegisteredFlowsAreOpen
<1>7. QED
  BY <1>1, <1>2, <1>3, <1>5, <1>6, Zenon DEF IInv, Types

(* The invariant is inductive. *)
LEMMA Invariance == Spec => []IInv
<1>1. IInv /\ [Next]_vars => IInv'
  BY FlowTypesStep, StreamTypesStep, ControlStep, MarkStep, RegisteredStep, Zenon
     DEF IInv, Types
<1>2. QED
  BY <1>1, InitInv, PTL DEF Spec

(* Every variable has its type, and the map holds flows under their IDs,    *)
(* whatever the interleaving of NewSendFlow, NewSendStream, the Close of a  *)
(* flow and the close of the session.                                       *)
THEOREM TypeCorrect == Spec => []TypeOK
<1> DEFINE Flags == sessionErr \in BOOLEAN /\ connUp \in BOOLEAN
<1>1. Init => Flags
  BY Zenon DEF Init
<1>2. Flags /\ [Next]_vars => Flags'
  BY Zenon DEF Next, vars, session, CloseStep, CloseFlow, RangeClose, CheckSession,
     GetOrInsert, CheckFlow, OpenUniStreamSync, OpenFails, AppendStream, CloseStreams,
     MarkClosed, CloseBegin, Snapshot, CloseEnd
<1>3. IInv /\ Flags => TypeOK
  BY Zenon DEF IInv, Types, FlowTypes, StreamTypes, ControlTypes, TypeOK, Labels
<1>4. QED
  BY <1>1, <1>2, <1>3, Invariance, PTL DEF Spec

(* A flow marked closed by SendFlow.Close is never registered: neither the  *)
(* Close of another flow nor a NewSendFlow of the same ID brings it back,   *)
(* even when the application closes flows more than once.                   *)
THEOREM ClosedFlowsAreGone == Spec => []RegisteredFlowsAreOpen
<1>1. IInv => RegisteredFlowsAreOpen
  BY Zenon DEF IInv
<1>2. QED
  BY <1>1, Invariance, PTL

-----------------------------------------------------------------------------
(* Streams that outlive SendFlow.Close. *)

(* One goroutine stands for at most one of the things that are counted: a   *)
(* set that grows by x while another one, within a bound, loses y.          *)
LEMMA Exchange ==
  ASSUME NEW A, NEW B, NEW C, NEW A1, NEW B1, NEW x, NEW y,
         IsFiniteSet(A), IsFiniteSet(B), IsFiniteSet(C),
         A1 \subseteq A \cup {x}, y \in B, B1 \subseteq B \ {y},
         Cardinality(A) + Cardinality(B) <= Cardinality(C)
  PROVE  Cardinality(A1) + Cardinality(B1) <= Cardinality(C)
<1> DEFINE a == Cardinality(A)
           b == Cardinality(B)
           c == Cardinality(C)
           a1 == Cardinality(A1)
           b1 == Cardinality(B1)
<1>1. /\ IsFiniteSet(A \cup {x}) /\ IsFiniteSet(B \ {y})
      /\ Cardinality(A \cup {x}) = IF x \in A THEN a ELSE a + 1
      /\ Cardinality(B \ {y}) = IF y \in B THEN b - 1 ELSE b
  BY FS_AddElement, FS_RemoveElement, Zenon
<1>2. /\ IsFiniteSet(A1) /\ a1 <= Cardinality(A \cup {x})
      /\ IsFiniteSet(B1) /\ b1 <= Cardinality(B \ {y})
  BY <1>1, FS_Subset, Zenon
<1>3. a \in Nat /\ b \in Nat /\ c \in Nat /\ a1 \in Nat /\ b1 \in Nat
  BY <1>2, FS_CardinalityType, Zenon
<1> HIDE DEF a, b, c, a1, b1
<1>4. a1 <= a + 1 /\ b1 <= b - 1
  BY <1>1, <1>2, <1>3
<1>5. a + b <= c
  BY Zenon DEF a, b, c
<1>6. a1 + b1 <= c
  BY <1>3, <1>4, <1>5
<1>7. QED
  BY <1>6, Zenon DEF c, a1, b1

(* The same, when neither set grows. *)
LEMMA Shrink ==
  ASSUME NEW A, NEW B, NEW C, NEW A1, NEW B1,
         IsFiniteSet(A), IsFiniteSet(B), IsFiniteSet(C),
         A1 \subseteq A, B1 \subseteq B,
         Cardinality(A) + Cardinality(B) <= Cardinality(C)
  PROVE  Cardinality(A1) + Cardinality(B1) <= Cardinality(C)
<1> DEFINE a == Cardinality(A)
           b == Cardinality(B)
           c == Cardinality(C)
           a1 == Cardinality(A1)
           b1 == Cardinality(B1)
<1>1. a1 <= a /\ b1 <= b /\ IsFiniteSet(A1) /\ IsFiniteSet(B1)
  BY FS_Subset, Zenon
<1>2. a \in Nat /\ b \in Nat /\ c \in Nat /\ a1 \in Nat /\ b1 \in Nat
  BY <1>1, FS_CardinalityType, Zenon
<1>3. a + b <= c
  BY Zenon DEF a, b, c
<1> HIDE DEF a, b, c, a1, b1
<1>4. a1 + b1 <= c
  BY <1>1, <1>2, <1>3
<1>5. QED
  BY <1>4, Zenon DEF c, a1, b1

FiniteStreams == \A f \in 1..MaxFlows : IsFiniteSet(streams[f])

(* Every step leaves each flow finitely many streams. *)
LEMMA FiniteStep ==
  ASSUME IInv, FiniteStreams, [Next]_vars
  PROVE  FiniteStreams'
<1>1. UNCHANGED streams \/ \E w \in Streamers : AppendStream(w)
  BY Zenon DEF Next, vars, CloseStep, CloseFlow, RangeClose, CheckSession, GetOrInsert,
     CheckFlow, OpenUniStreamSync, OpenFails, CloseStreams, MarkClosed, CloseBegin,
     Snapshot, CloseEnd
<1>2. CASE UNCHANGED streams
  BY <1>2, Zenon DEF FiniteStreams
<1>3. ASSUME NEW w \in Streamers, AppendStream(w) PROVE FiniteStreams'
  <2>1. \A f \in 1..MaxFlows : \/ streams'[f] = streams[f]
                                \/ streams'[f] = streams[f] \cup {arg[w][2]}
    BY <1>3 DEF AppendStream, IInv, Types, StreamTypes
  <2>2. \A f \in 1..MaxFlows : IsFiniteSet(streams[f] \cup {arg[w][2]})
    BY FS_AddElement DEF FiniteStreams
  <2>3. QED
    BY <2>1, <2>2, Zenon DEF FiniteStreams
<1>4. QED
  BY <1>1, <1>2, <1>3, Zenon

(* The goroutines in NewSendStream of a flow are finitely many. *)
LEMMA InsideFinite == \A f : IsFiniteSet(Inside(f))
<1>1. \A f : Inside(f) \subseteq Streamers
  BY Zenon DEF Inside
<1>2. QED
  BY <1>1, SendFlowsAssumption, FS_Subset, Zenon

(* A step at which f, closed already, gets no stream that is not closed and *)
(* no goroutine enters its NewSendStream.                                   *)
NoneSlips(f) ==
  streams'[f] \ closed' \subseteq streams[f] \ closed /\ Inside(f)' \subseteq Inside(f)

(* A step at which a goroutine that was in NewSendStream of f leaves it and *)
(* adds a stream to f.                                                      *)
OneSlips(f) ==
  \E w \in Inside(f) : \E s :
    /\ streams'[f] \ closed' \subseteq (streams[f] \ closed) \cup {s}
    /\ Inside(f)' \subseteq Inside(f) \ {w}

(* Nothing else happens to a flow that is closed. *)
LEMMA ClosedFlowStep ==
  ASSUME IInv, [Next]_vars, NEW k \in closedErr
  PROVE  inside'[k] = inside[k] /\ (NoneSlips(k) \/ OneSlips(k))
<1> DEFINE Goal == inside'[k] = inside[k] /\ (NoneSlips(k) \/ OneSlips(k))
<1>a. /\ pc \in [Goroutines -> Labels]
      /\ arg \in [Goroutines -> Seq(Ids \cup Nat \cup Streams)]
  BY Zenon DEF IInv, Types, ControlTypes
<1>b. k \in 1..MaxFlows /\ streams \in [1..MaxFlows -> SUBSET Streams]
  BY FlowsBounded, Zenon DEF IInv, Types, FlowTypes, StreamTypes
<1>c. ASSUME NEW g \in Goroutines, NEW l \in Labels \ {"opening", "opened"}, NEW a,
             Goto(g, l, a), UNCHANGED streams, closed \subseteq closed'
      PROVE  NoneSlips(k)
  BY <1>a, <1>b, <1>c, CloserIsGoroutine DEF Goto, NoneSlips, Inside
<1> HIDE DEF Goal
<1>1. ASSUME NEW o \in Openers, NEW id \in Ids, CheckSession(o, id) PROVE Goal
  BY <1>1, <1>c, CloserIsGoroutine, Zenon DEF CheckSession, history, Labels, Goal
<1>2. ASSUME NEW o \in Openers, GetOrInsert(o) PROVE Goal
  BY <1>2, <1>c, CloserIsGoroutine, Zenon DEF GetOrInsert, history, Labels, Goal
<1>3. ASSUME NEW w \in Streamers, NEW h \in Flows, CheckFlow(w, h) PROVE Goal
  <2>1. /\ pc[w] = "idle" /\ h # k /\ Goto(w, "opening", <<h>>)
        /\ UNCHANGED <<streams, closed, inside>>
    BY <1>3, Zenon DEF CheckFlow, history
  <2>2. Inside(k)' \subseteq Inside(k)
    BY <2>1, <1>a, CloserIsGoroutine DEF Goto, Inside
  <2>3. QED
    BY <2>1, <2>2, Zenon DEF Goal, NoneSlips
<1>4. ASSUME NEW w \in Streamers, NEW s \in Streams, OpenUniStreamSync(w, s) PROVE Goal
  <2>1. /\ pc[w] = "opening" /\ Goto(w, "opened", <<arg[w][1], s>>)
        /\ UNCHANGED <<streams, closed, inside>>
    BY <1>4, Zenon DEF OpenUniStreamSync, history
  <2>2. Inside(k)' \subseteq Inside(k)
    BY <2>1, <1>a, CloserIsGoroutine DEF Goto, Inside
  <2>3. QED
    BY <2>1, <2>2, Zenon DEF Goal, NoneSlips
<1>5. ASSUME NEW w \in Streamers, OpenFails(w) PROVE Goal
  BY <1>5, <1>c, CloserIsGoroutine, Zenon DEF OpenFails, history, Labels, Goal
<1>6. ASSUME NEW w \in Streamers, AppendStream(w) PROVE Goal
  <2>1. /\ pc[w] = "opened" /\ Goto(w, "idle", <<>>) /\ UNCHANGED <<closed, inside>>
        /\ streams' = [streams EXCEPT ![arg[w][1]] = @ \cup {arg[w][2]}]
    BY <1>6, Zenon DEF AppendStream, history
  <2>2. CASE arg[w][1] = k
    <3>1. w \in Inside(k) /\ Inside(k)' \subseteq Inside(k) \ {w}
      BY <2>1, <2>2, <1>a, CloserIsGoroutine DEF Goto, Inside
    <3>2. streams'[k] \ closed' \subseteq (streams[k] \ closed) \cup {arg[w][2]}
      BY <2>1, <2>2, <1>b
    <3>3. QED
      BY <2>1, <3>1, <3>2, Zenon DEF Goal, OneSlips
  <2>3. CASE arg[w][1] # k
    <3>1. streams'[k] = streams[k]
      BY <2>1, <2>3, <1>b
    <3>2. Inside(k)' \subseteq Inside(k)
      BY <2>1, <1>a, CloserIsGoroutine DEF Goto, Inside
    <3>3. QED
      BY <2>1, <3>1, <3>2, Zenon DEF Goal, NoneSlips
  <2>4. QED
    BY <2>2, <2>3
<1>7. ASSUME NEW g \in Goroutines, NEW h \in Flows, CloseStreams(g, h) PROVE Goal
  BY <1>7, <1>c, CloserIsGoroutine, Zenon DEF CloseStreams, Labels, Goal
<1>8. ASSUME NEW g \in Goroutines, MarkClosed(g) PROVE Goal
  <2>1. NoneSlips(k)
    BY <1>8, <1>c, CloserIsGoroutine, Zenon DEF MarkClosed, Labels
  <2>2. inside'[k] = inside[k]
    BY <1>8 DEF MarkClosed, IInv, Types, StreamTypes
  <2>3. QED
    BY <2>1, <2>2, Zenon DEF Goal
<1>9. ASSUME NEW c \in Closers, CloseBegin(c) PROVE Goal
  BY <1>9, <1>c, CloserIsGoroutine, Zenon DEF CloseBegin, Labels, Goal
<1>10. ASSUME NEW c \in Closers, Snapshot(c) PROVE Goal
  BY <1>10, <1>c, CloserIsGoroutine, Zenon DEF Snapshot, history, Labels, Goal
<1>11. ASSUME NEW c \in Closers, CloseEnd(c) PROVE Goal
  BY <1>11, <1>c, CloserIsGoroutine, Zenon DEF CloseEnd, history, Labels, Goal
<1>12. ASSUME UNCHANGED vars PROVE Goal
  BY <1>12, Zenon DEF vars, Goal, NoneSlips, Inside
<1>13. Goal
  BY <1>1, <1>2, <1>3, <1>4, <1>5, <1>6, <1>7, <1>8, <1>9, <1>10, <1>11, <1>12,
     RangeIsFlow, CloserIsGoroutine, Zenon DEF Next, CloseStep, CloseFlow, RangeClose
<1>14. QED
  BY <1>13 DEF Goal

(* Every step keeps the count of the streams that are left open. *)
LEMMA StreamsStep ==
  ASSUME IInv, FiniteStreams, OnlyRacingStreamsStayOpen, [Next]_vars
  PROVE  OnlyRacingStreamsStayOpen'
<1> SUFFICES ASSUME NEW k \in closedErr'
             PROVE  Cardinality(streams'[k] \ closed') + Cardinality(Inside(k)')
                      <= Cardinality(inside'[k])
  BY Zenon DEF OnlyRacingStreamsStayOpen
<1>1. CASE k \in closedErr
  <2>1. inside'[k] = inside[k] /\ (NoneSlips(k) \/ OneSlips(k))
    BY <1>1, ClosedFlowStep, Zenon
  <2>2. k \in 1..MaxFlows /\ inside[k] \subseteq Streamers
    BY <1>1, FlowsBounded DEF IInv, Types, FlowTypes, StreamTypes
  <2>3. IsFiniteSet(streams[k] \ closed) /\ IsFiniteSet(inside[k]) /\ IsFiniteSet(Inside(k))
    <3>1. IsFiniteSet(streams[k]) /\ streams[k] \ closed \subseteq streams[k]
      BY <2>2, Zenon DEF FiniteStreams
    <3>2. QED
      BY <2>2, <3>1, SendFlowsAssumption, InsideFinite, FS_Subset, Zenon
  <2>4. Cardinality(streams[k] \ closed) + Cardinality(Inside(k)) <= Cardinality(inside[k])
    BY <1>1, Zenon DEF OnlyRacingStreamsStayOpen
  <2>5. CASE NoneSlips(k)
    BY <2>1, <2>3, <2>4, <2>5, Shrink, Zenon DEF NoneSlips
  <2>6. CASE OneSlips(k)
    BY <2>1, <2>3, <2>4, <2>6, Exchange, Zenon DEF OneSlips
  <2>7. QED
    BY <2>1, <2>5, <2>6, Zenon
<1>2. CASE k \notin closedErr
  <2>1. PICK g \in Goroutines : MarkClosed(g)
    BY <1>2, CloserIsGoroutine, Zenon
       DEF Next, vars, CloseStep, CloseFlow, RangeClose, CheckSession, GetOrInsert,
       CheckFlow, OpenUniStreamSync, OpenFails, AppendStream, CloseStreams, CloseBegin,
       Snapshot, CloseEnd
  <2>2. k = arg[g][1] /\ pc[g] = "marking"
    BY <1>2, <2>1, Zenon DEF MarkClosed
  <2>3. streams'[k] \ closed' = {}
    BY <1>2, OnlyMarks, Zenon
  <2>4. k \in 1..MaxFlows
    BY <2>2, Carried, FlowsBounded, Zenon
  <2>5. inside'[k] = Inside(k)
    BY <1>2, <2>1, <2>2, <2>4 DEF MarkClosed, IInv, Types, StreamTypes
  <2>6. Inside(k)' \subseteq Inside(k)
    <3>1. /\ pc \in [Goroutines -> Labels]
          /\ arg \in [Goroutines -> Seq(Ids \cup Nat \cup Streams)]
      BY Zenon DEF IInv, Types, ControlTypes
    <3>2. QED
      BY <2>1, <3>1, CloserIsGoroutine DEF MarkClosed, Goto, Inside
  <2>7. IsFiniteSet(Inside(k)) /\ Cardinality(Inside(k)) \in Nat
    BY InsideFinite, FS_CardinalityType, Zenon
  <2>8. IsFiniteSet({}) /\ Cardinality({}) = 0
    BY FS_EmptySet, Zenon
  <2>9. Cardinality({}) + Cardinality(Inside(k)) <= Cardinality(Inside(k))
    BY <2>7, <2>8
  <2>10. QED
    BY <2>3, <2>5, <2>6, <2>7, <2>8, <2>9, Shrink, Zenon
<1>3. QED
  BY <1>1, <1>2

(* For any number of goroutines and streams, a flow that SendFlow.Close has *)
(* marked closed has at most one open stream for each goroutine that was    *)
(* past isClosed in NewSendStream when it was marked, and no other.         *)
THEOREM OnlyRacingStreamsSurvive == Spec => []OnlyRacingStreamsStayOpen
<1>1. Init => FiniteStreams /\ OnlyRacingStreamsStayOpen
  <2> SUFFICES ASSUME Init PROVE FiniteStreams /\ OnlyRacingStreamsStayOpen
    OBVIOUS
  <2>1. closedErr = {} /\ \A f \in 1..MaxFlows : streams[f] = {}
    BY DEF Init
  <2>2. QED
    BY <2>1, FS_EmptySet, Zenon DEF FiniteStreams, OnlyRacingStreamsStayOpen
<1>2. IInv /\ FiniteStreams /\ OnlyRacingStreamsStayOpen /\ [Next]_vars
        => (FiniteStreams /\ OnlyRacingStreamsStayOpen)'
  BY FiniteStep, StreamsStep, Zenon
<1>3. QED
  BY <1>1, <1>2, Invariance, PTL DEF Spec

-----------------------------------------------------------------------------
(* Flows that outlive close.  Missed are the open flows that close will not *)
(* see; the goroutines that may still add one are Racing.                   *)
Missed == LeftOpen \ todo

(* An open flow that nobody closes is registered, unless the Close of       *)
(* another flow of its ID removed it.                                       *)
LeftInv == \A f \in LeftOpen : sendFlows[flowID[f]] = f

(* A closer between CloseBegin and CloseEnd holds s.mutex, and it leaves    *)
(* rangeFn no flow when it lets go of it.                                   *)
CloserInv ==
  /\ \A c \in Closers : pc[c] \in {"snapshot", "range", "marking"} => mutex = c
  /\ mutex = Nobody => todo = {}

(* Nobody passes isClosed once close has begun.  From the clone of the map  *)
(* on, every flow close will not see was added by a goroutine that had.     *)
RaceInv ==
  sessionErr =>
    /\ Racing \subseteq racers
    /\ (\A c \in Closers : pc[c] # "snapshot") =>
         Cardinality(Missed) + Cardinality(Racing) <= Cardinality(racers)

(* Every step keeps s.mutex with the closer that took it. *)
LEMMA CloserStep ==
  ASSUME IInv, CloserInv, [Next]_vars
  PROVE  CloserInv'
<1> USE DEF CloserInv
<1>a. pc \in [Goroutines -> Labels] /\ Nobody \notin Closers /\ FlowClosers \cap Closers = {}
  BY SendFlowsAssumption, Zenon DEF IInv, Types, ControlTypes, Goroutines
<1>1. ASSUME NEW o \in Openers, NEW id \in Ids, CheckSession(o, id) PROVE CloserInv'
  BY <1>1, <1>a DEF CheckSession, Goto, session
<1>2. ASSUME NEW o \in Openers, GetOrInsert(o) PROVE CloserInv'
  BY <1>2, <1>a DEF GetOrInsert, Goto, session
<1>3. ASSUME NEW w \in Streamers, NEW f \in Flows, CheckFlow(w, f) PROVE CloserInv'
  BY <1>3, <1>a DEF CheckFlow, Goto, session
<1>4. ASSUME NEW w \in Streamers, NEW s \in Streams, OpenUniStreamSync(w, s)
      PROVE  CloserInv'
  BY <1>4, <1>a DEF OpenUniStreamSync, Goto, session
<1>5. ASSUME NEW w \in Streamers, OpenFails(w) PROVE CloserInv'
  BY <1>5, <1>a DEF OpenFails, Goto, session
<1>6. ASSUME NEW w \in Streamers, AppendStream(w) PROVE CloserInv'
  BY <1>6, <1>a DEF AppendStream, Goto, session
<1>7. ASSUME NEW g \in FlowClosers, NEW f \in Flows, CloseFlow(g, f) PROVE CloserInv'
  BY <1>7, <1>a DEF CloseFlow, CloseStreams, Goto, session
<1>8. ASSUME NEW g \in FlowClosers, MarkClosed(g) PROVE CloserInv'
  BY <1>8, <1>a DEF MarkClosed, Goto
<1>9. ASSUME NEW c \in Closers, CloseBegin(c) PROVE CloserInv'
  BY <1>9, <1>a, CloserIsGoroutine DEF CloseBegin, Goto
<1>10. ASSUME NEW c \in Closers, Snapshot(c) PROVE CloserInv'
  BY <1>10, <1>a DEF Snapshot, Goto
<1>11. ASSUME NEW c \in Closers, RangeClose(c) PROVE CloserInv'
  BY <1>11, <1>a DEF RangeClose, CloseStreams, Goto, session
<1>12. ASSUME NEW c \in Closers, CloseEnd(c) PROVE CloserInv'
  BY <1>12, <1>a, CloserIsGoroutine DEF CloseEnd, Goto
<1>13. ASSUME NEW c \in Closers, MarkClosed(c) PROVE CloserInv'
  BY <1>13, <1>a DEF MarkClosed, Goto
<1>14. CASE UNCHANGED vars
  BY <1>14 DEF vars
<1>15. QED
  <2> HIDE DEF CloserInv
  <2> QED
    BY <1>1, <1>2, <1>3, <1>4, <1>5, <1>6, <1>7, <1>8, <1>9, <1>10, <1>11, <1>12, <1>13,
       <1>14, Zenon DEF Next, CloseStep

(* Every step leaves the open flows registered. *)
LEMMA LeftStep ==
  ASSUME IInv, LeftInv, [Next]_vars
  PROVE  LeftInv'
<1>a. FlowTypes /\ StreamTypes
  BY Zenon DEF IInv, Types
<1>1. \/ UNCHANGED <<flowID, sendFlows, closedErr, orphaned, lock>>
      \/ \E o \in Openers : GetOrInsert(o)
      \/ \E g \in Goroutines : MarkClosed(g)
      \/ \E g \in Goroutines : \E f \in Flows : CloseStreams(g, f)
  BY CloserIsGoroutine, RangeIsFlow, Zenon
     DEF Next, vars, history, CloseStep, CloseFlow, RangeClose, CheckSession, CheckFlow,
     AfterCheck, OpenUniStreamSync, OpenFails, AppendStream, CloseBegin, Snapshot, CloseEnd
<1>2. CASE UNCHANGED <<flowID, sendFlows, closedErr, orphaned, lock>>
  BY <1>2, Zenon DEF LeftInv, LeftOpen, Flows
<1>3. ASSUME NEW o \in Openers, GetOrInsert(o) PROVE LeftInv'
  <2>1. arg[o][1] \in Ids /\ UNCHANGED <<closedErr, orphaned, lock>>
    BY <1>3, Carried, CloserIsGoroutine, Zenon DEF GetOrInsert, history
  <2>2. CASE UNCHANGED <<flowID, sendFlows>>
    BY <2>1, <2>2, Zenon DEF LeftInv, LeftOpen, Flows
  <2>3. CASE /\ sendFlows[arg[o][1]] = None
             /\ flowID' = Append(flowID, arg[o][1])
             /\ sendFlows' = [sendFlows EXCEPT ![arg[o][1]] = Len(flowID) + 1]
    <3>1. \A f \in LeftOpen' : f = Len(flowID) + 1 \/ f \in LeftOpen
      BY <1>a, <2>1, <2>3 DEF LeftOpen, Flows, FlowTypes
    <3>2. \A f \in LeftOpen : f \in Flows /\ f # None
      BY FlowsBounded, Zenon DEF LeftOpen
    <3>3. \A f \in LeftOpen : sendFlows'[flowID'[f]] = f
      BY <1>a, <2>1, <2>3, <3>2 DEF LeftInv, FlowTypes, Flows
    <3>4. sendFlows'[flowID'[Len(flowID) + 1]] = Len(flowID) + 1
      BY <1>a, <2>1, <2>3 DEF FlowTypes
    <3>5. QED
      BY <3>1, <3>3, <3>4, Zenon DEF LeftInv
  <2>4. QED
    BY <1>3, <2>2, <2>3, Zenon DEF GetOrInsert, Vacant
<1>4. ASSUME NEW g \in Goroutines, MarkClosed(g) PROVE LeftInv'
  BY <1>a, <1>4 DEF MarkClosed, LeftInv, LeftOpen, Flows, StreamTypes
<1>5. ASSUME NEW g \in Goroutines, NEW f \in Flows, CloseStreams(g, f) PROVE LeftInv'
  <2>1. f \in 1..MaxFlows /\ flowID[f] \in Ids /\ g # Nobody
    BY <1>a, FlowsBounded, SendFlowsAssumption DEF FlowTypes, Flows
  <2>2. /\ UNCHANGED <<flowID, closedErr>> /\ lock' = [lock EXCEPT ![f] = g]
        /\ sendFlows' = [sendFlows EXCEPT ![flowID[f]] = None]
        /\ orphaned' = orphaned \cup ({sendFlows[flowID[f]]} \ {f, None})
    BY <1>5, Zenon DEF CloseStreams, Removed
  <2>3. \A h \in LeftOpen' : h \in LeftOpen /\ h # f /\ h # sendFlows[flowID[f]]
    <3>1. ASSUME NEW h \in LeftOpen' PROVE h # f /\ h \in LeftOpen
      BY <1>a, <2>1, <2>2, <3>1 DEF LeftOpen, Flows, StreamTypes
    <3>2. ASSUME NEW h \in LeftOpen' PROVE h # sendFlows[flowID[f]]
      <4>1. h \in Flows /\ h # None /\ h # f /\ h \notin orphaned'
        BY <3>1, <3>2, FlowsBounded, Zenon DEF LeftOpen
      <4>2. QED
        BY <2>2, <4>1, Zenon
    <3>3. QED
      BY <3>1, <3>2
  <2>4. \A h \in LeftOpen' : sendFlows[flowID[h]] = h /\ flowID[h] # flowID[f]
    BY <2>3, Zenon DEF LeftInv
  <2>5. \A h \in LeftOpen' : h \in Flows /\ flowID[h] \in Ids
    BY <1>a, <2>2 DEF LeftOpen, Flows, FlowTypes
  <2>6. \A h \in LeftOpen' : sendFlows'[flowID'[h]] = h
    BY <1>a, <2>2, <2>4, <2>5 DEF FlowTypes
  <2>7. QED
    BY <2>6, Zenon DEF LeftInv
<1>6. QED
  BY <1>1, <1>2, <1>3, <1>4, <1>5, Zenon

(* The sets that are counted are finite. *)
LEMMA CountsAreFinite ==
  ASSUME IInv
  PROVE  IsFiniteSet(Missed) /\ IsFiniteSet(Racing) /\ IsFiniteSet(racers)
<1>1. IsFiniteSet(Flows)
  <2>1. Len(flowID) \in Nat
    BY DEF IInv, Types, FlowTypes
  <2>2. QED
    BY <2>1, FS_Interval DEF Flows
<1>2. Missed \subseteq Flows /\ Racing \subseteq Openers /\ racers \subseteq Openers
  BY Zenon DEF Missed, LeftOpen, Racing, IInv, Types, StreamTypes
<1>3. QED
  BY <1>1, <1>2, SendFlowsAssumption, FS_Subset, Zenon

(* A step that adds neither a flow close will not see nor a goroutine that  *)
(* is past isClosed.                                                        *)
LEMMA NothingSlips ==
  ASSUME IInv, RaceInv, Missed' \subseteq Missed, Racing' \subseteq Racing,
         UNCHANGED <<sessionErr, racers>>,
         \A c \in Closers : pc[c] = "snapshot" => pc'[c] = "snapshot"
  PROVE  RaceInv'
<1>1. ASSUME sessionErr', \A c \in Closers : pc'[c] # "snapshot"
      PROVE  Cardinality(Missed') + Cardinality(Racing') <= Cardinality(racers)
  <2>1. Cardinality(Missed) + Cardinality(Racing) <= Cardinality(racers)
    BY <1>1, Zenon DEF RaceInv
  <2>2. QED
    BY <2>1, CountsAreFinite, Shrink, Zenon
<1>2. QED
  BY <1>1, Zenon DEF RaceInv

(* getOrInsert registers at most one flow for a goroutine that was racing.  *)
LEMMA InsertIsCounted ==
  ASSUME IInv, RaceInv, NEW o \in Openers, GetOrInsert(o)
  PROVE  RaceInv'
<1>1. /\ pc[o] = "checked" /\ Goto(o, "idle", <<>>)
      /\ UNCHANGED <<closedErr, orphaned, lock, todo, sessionErr, racers>>
      /\ UNCHANGED flowID \/ flowID' = Append(flowID, arg[o][1])
  BY Zenon DEF GetOrInsert, session, history
<1>2. pc \in [Goroutines -> Labels] /\ flowID \in Seq(Ids)
  BY Zenon DEF IInv, Types, ControlTypes, FlowTypes
<1>3. PICK n : Missed' \subseteq Missed \cup {n}
  <2>1. Missed' \subseteq Missed \cup {Len(flowID) + 1}
    BY <1>1, <1>2 DEF Missed, LeftOpen, Flows
  <2>2. QED
    BY <2>1, Zenon
<1>4. o \in Racing /\ Racing' \subseteq Racing \ {o}
  BY <1>1, <1>2, CloserIsGoroutine DEF Racing, Goto
<1>5. \A c \in Closers : pc[c] = "snapshot" => pc'[c] = "snapshot"
  BY <1>1, <1>2, CloserIsGoroutine DEF Goto
<1>6. ASSUME sessionErr', \A c \in Closers : pc'[c] # "snapshot"
      PROVE  Cardinality(Missed') + Cardinality(Racing') <= Cardinality(racers)
  <2>1. Cardinality(Missed) + Cardinality(Racing) <= Cardinality(racers)
    BY <1>1, <1>5, <1>6, Zenon DEF RaceInv
  <2>2. QED
    <3>1. IsFiniteSet(Missed) /\ IsFiniteSet(Racing) /\ IsFiniteSet(racers)
      BY CountsAreFinite, Zenon
    <3>2. QED
      BY <1>3, <1>4, <2>1, <3>1, Exchange, Zenon
<1>7. QED
  BY <1>1, <1>4, <1>6, Zenon DEF RaceInv

(* Every step keeps the count. *)
LEMMA RaceStep ==
  ASSUME IInv, LeftInv, CloserInv, RaceInv, [Next]_vars
  PROVE  RaceInv'
<1>a. pc \in [Goroutines -> Labels] /\ flowID \in Seq(Ids)
  BY Zenon DEF IInv, Types, ControlTypes, FlowTypes
<1>b. lock \in [1..MaxFlows -> Goroutines \cup {Nobody}]
  BY Zenon DEF IInv, Types, StreamTypes
<1>c. ASSUME NEW g \in Goroutines, NEW l \in Labels \ {"checked"}, NEW a, Goto(g, l, a),
             pc[g] # "snapshot"
      PROVE  /\ Racing' \subseteq Racing
             /\ \A c \in Closers : pc[c] = "snapshot" => pc'[c] = "snapshot"
  BY <1>a, <1>c, CloserIsGoroutine DEF Goto, Racing
<1>d. ASSUME UNCHANGED <<flowID, closedErr, orphaned, lock, todo>>
      PROVE  Missed' \subseteq Missed
  BY <1>d, Zenon DEF Missed, LeftOpen, Flows
<1>1. ASSUME NEW o \in Openers, NEW id \in Ids, CheckSession(o, id) PROVE RaceInv'
  BY <1>1, Zenon DEF CheckSession, RaceInv, session
<1>2. ASSUME NEW o \in Openers, GetOrInsert(o) PROVE RaceInv'
  BY <1>2, InsertIsCounted, Zenon
<1>3. ASSUME NEW w \in Streamers, NEW f \in Flows, CheckFlow(w, f) PROVE RaceInv'
  BY <1>3, <1>c, <1>d, NothingSlips, CloserIsGoroutine
     DEF CheckFlow, AfterCheck, Labels, session, history
<1>4. ASSUME NEW w \in Streamers, NEW s \in Streams, OpenUniStreamSync(w, s)
      PROVE  RaceInv'
  BY <1>4, <1>c, <1>d, NothingSlips, CloserIsGoroutine
     DEF OpenUniStreamSync, Labels, session, history
<1>5. ASSUME NEW w \in Streamers, OpenFails(w) PROVE RaceInv'
  BY <1>5, <1>c, <1>d, NothingSlips, CloserIsGoroutine DEF OpenFails, Labels, session, history
<1>6. ASSUME NEW w \in Streamers, AppendStream(w) PROVE RaceInv'
  BY <1>6, <1>c, <1>d, NothingSlips, CloserIsGoroutine
     DEF AppendStream, Labels, session, history
<1>7. ASSUME NEW g \in Goroutines, NEW f \in Flows, CloseStreams(g, f),
             pc[g] \in {"idle", "range"}
      PROVE  RaceInv'
  <2>1. f \in 1..MaxFlows /\ g # Nobody
    BY FlowsBounded, SendFlowsAssumption, Zenon
  <2>2. Missed' \subseteq Missed
    BY <1>7, <1>b, <2>1 DEF CloseStreams, Missed, LeftOpen, Flows, session
  <2>3. QED
    BY <1>7, <1>c, <2>2, NothingSlips DEF CloseStreams, Labels, session
<1>8. ASSUME NEW g \in Goroutines, MarkClosed(g) PROVE RaceInv'
  <2>1. arg[g][1] \in 1..MaxFlows
    BY <1>8, Carried, FlowsBounded, Zenon DEF MarkClosed
  <2>2. Missed' \subseteq Missed
    BY <1>8, <1>b, <2>1 DEF MarkClosed, Missed, LeftOpen, Flows
  <2>3. QED
    BY <1>8, <1>c, <2>2, NothingSlips DEF MarkClosed, Labels
<1>9. ASSUME NEW c \in Closers, CloseBegin(c) PROVE RaceInv'
  <2>1. CASE sessionErr /\ Goto(c, "closed", <<>>) /\ UNCHANGED <<sessionErr, racers>>
    BY <1>9, <2>1, <1>c, <1>d, NothingSlips, CloserIsGoroutine DEF CloseBegin, Labels
  <2>2. CASE Goto(c, "snapshot", <<>>) /\ racers' = Racing
    <3>1. pc'[c] = "snapshot" /\ Racing' \subseteq Racing
      BY <2>2, <1>a, CloserIsGoroutine DEF Goto, Racing
    <3>2. QED
      BY <2>2, <3>1, Zenon DEF RaceInv
  <2>3. QED
    BY <1>9, <2>1, <2>2, Zenon DEF CloseBegin
<1>10. ASSUME NEW c \in Closers, Snapshot(c) PROVE RaceInv'
  <2>1. Racing' \subseteq Racing /\ UNCHANGED <<sessionErr, racers>>
    BY <1>10, <1>a, CloserIsGoroutine DEF Snapshot, Goto, Racing, history
  <2>2. \A f \in LeftOpen : f \in Flows /\ flowID[f] \in Ids /\ f # None
    BY <1>a, FlowsBounded DEF LeftOpen, Flows
  <2>3. LeftOpen' = LeftOpen /\ LeftOpen \subseteq Registered
    BY <1>10, <2>2 DEF Snapshot, LeftOpen, Flows, history, Registered, LeftInv
  <2>4. Missed' = {}
    BY <1>10, <2>3, Zenon DEF Snapshot, Missed
  <2>5. ASSUME sessionErr
        PROVE  Cardinality(Missed') + Cardinality(Racing') <= Cardinality(racers)
    <3>1. IsFiniteSet({}) /\ Cardinality({}) = 0 /\ Cardinality(racers) \in Nat
      BY CountsAreFinite, FS_EmptySet, FS_CardinalityType, Zenon
    <3>2. Cardinality({}) + Cardinality(racers) <= Cardinality(racers)
      BY <3>1
    <3>3. Racing' \subseteq racers
      BY <2>1, <2>5, Zenon DEF RaceInv
    <3>4. QED
      BY <2>4, <3>1, <3>2, <3>3, CountsAreFinite, Shrink, Zenon
  <2>6. QED
    BY <2>1, <2>5, Zenon DEF RaceInv
<1>11. ASSUME NEW c \in Closers, CloseEnd(c) PROVE RaceInv'
  BY <1>11, <1>c, <1>d, NothingSlips, CloserIsGoroutine DEF CloseEnd, Labels, history
<1>12. CASE UNCHANGED vars
  BY <1>12, Zenon DEF vars, RaceInv, Missed, Racing, LeftOpen, Flows
<1>13. QED
  BY <1>1, <1>2, <1>3, <1>4, <1>5, <1>6, <1>7, <1>8, <1>9, <1>10, <1>11, <1>12,
     CloserIsGoroutine, RangeIsFlow, Zenon DEF Next, CloseStep, CloseFlow, RangeClose

(* A closed session has at most one open flow for each goroutine that was   *)
(* between isClosed and getOrInsert of NewSendFlow when close began, not    *)
(* counting those the Close of an older flow of their ID unregistered:      *)
(* for any number of goroutines and flows, and whatever they do.            *)
THEOREM OnlyRacingFlowsSurvive == Spec => []OnlyRacersEscapeClose
<1> DEFINE Inv == LeftInv /\ CloserInv /\ RaceInv
<1>1. Init => Inv
  <2> SUFFICES ASSUME Init PROVE Inv
    OBVIOUS
  <2>1. (\A c \in Closers : pc[c] = "idle") /\ Flows = {}
    BY CloserIsGoroutine DEF Init, Flows
  <2>2. QED
    BY <2>1, Zenon DEF Init, LeftInv, LeftOpen, CloserInv, RaceInv
<1>2. IInv /\ Inv /\ [Next]_vars => Inv'
  BY LeftStep, CloserStep, RaceStep, Zenon
<1>3. Inv => OnlyRacersEscapeClose
  <2> SUFFICES ASSUME Inv, sessionErr, mutex = Nobody
               PROVE  Cardinality(LeftOpen) + Cardinality(Racing) <= Cardinality(racers)
    BY Zenon DEF OnlyRacersEscapeClose
  <2>1. \A c \in Closers : pc[c] # "snapshot"
    BY SendFlowsAssumption, Zenon DEF CloserInv, Goroutines
  <2>2. Missed = LeftOpen
    BY Zenon DEF CloserInv, Missed
  <2>3. QED
    BY <2>1, <2>2, Zenon DEF RaceInv
<1>4. QED
  BY <1>1, <1>2, <1>3, Invariance, PTL DEF Spec
=============================================================================
