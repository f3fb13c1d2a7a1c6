----------------------------- MODULE SessionProofs -----------------------------
(***************************************************************************)
(* The invariants of Session, for any number of streams, of goroutines     *)
(* that close and send, and of datagrams.                                  *)
(***************************************************************************)
EXTENDS Session, FiniteSetTheorems, TLAPS

Labels == {"none", "idle", "close", "tear", "conn", "cancel", "wait",
           "qlog", "closing", "report", "returned", "accept", "receive",
           "flowid", "stream", "recording", "send", "exit", "done"}

(* TypeOK without the WaitGroup; a goroutine that calls close has a code. *)
Types ==
  /\ pc \in [Goroutines -> Labels]
  /\ started \in BOOLEAN /\ flowsClosed \in BOOLEAN /\ ctxDone \in BOOLEAN
  /\ closedErr \in Codes \cup {"none"} /\ code \in [Goroutines -> Codes \cup {"none"}]
  /\ mutex \in Goroutines \cup {Nobody}
  /\ conn \in {"up", "failed", "closed"} /\ connCloses \in Seq(Codes)
  /\ connCloseErr \in {"nil", "failed"} /\ once \in {"nil", "new", "running", "done"}
  /\ result \in [Closers -> {"none", "nil", "failed"}]
  /\ datagrams \in 0..MaxDatagrams
  /\ \A g \in Goroutines : pc[g] = "close" => code[g] \in Codes

WgInv == wg = Cardinality(Alive)

(* s.mutex is held exactly by the goroutine inside close, which has set     *)
(* closedErr to its own code.                                               *)
InClose == {"tear", "conn", "cancel"}
MutexInv ==
  /\ \A g \in Goroutines : pc[g] \in InClose <=> mutex = g
  /\ mutex # Nobody => closedErr # "none" /\ closedErr = code[mutex]

(* The connection is closed between "conn" and "cancel" of the one call     *)
(* that got through.                                                        *)
Before == mutex # Nobody /\ pc[mutex] \in {"tear", "conn"}
ConnInv ==
  /\ connCloses = IF closedErr = "none" \/ Before THEN <<>> ELSE <<closedErr>>
  /\ connCloses # <<>> => conn = "closed"

(* A Close that is past close is past the whole of it, or behind it. *)
Waited == {"qlog", "closing", "report", "returned"}
CloserInv ==
  \A c \in Closers :
    /\ pc[c] \in Waited \cup {"wait"} => closedErr # "none"
    /\ pc[c] = "returned" => connCloses # <<>> /\ result[c] = connCloseErr

IInv == Types /\ WgInv /\ MutexInv /\ ConnInv /\ CloserInv /\ CloseOutlivesLoops

-----------------------------------------------------------------------------
(* Every step keeps the types. *)
LEMMA TypesStep ==
  ASSUME Types, MutexInv, [Next]_vars
  PROVE  Types'
<1> USE SessionAssumption DEF Types, Labels, Codes, Counted, Loops, Goroutines
<1>1. ASSUME NEW g \in Goroutines, EnterClose(g) PROVE Types'
  BY <1>1 DEF EnterClose, AfterClose, MutexFree, AlreadyClosed, Goto
<1>2. ASSUME NEW g \in Goroutines, CloseFlows(g) PROVE Types'
  BY <1>2 DEF CloseFlows, Goto
<1>3. ASSUME NEW g \in Goroutines, NEW e \in {"nil", "failed"}, CloseConn(g, e) PROVE Types'
  <2>1. code[g] \in Codes
    BY <1>3 DEF CloseConn, MutexInv, InClose
  <2>2. connCloses' \in Seq(Codes)
    BY <1>3, <2>1 DEF CloseConn
  <2>. QED
    BY <1>3, <2>2 DEF CloseConn, Goto
<1>4. ASSUME NEW g \in Goroutines, CancelCtx(g) PROVE Types'
  BY <1>4 DEF CancelCtx, AfterClose, Goto
<1>5. ASSUME NEW g \in Goroutines, Recorded(g) PROVE Types'
  BY <1>5 DEF Recorded, Goto
<1>6. ASSUME NEW c \in Closers, Close(c) PROVE Types'
  BY <1>6 DEF Close, CallClose, Goto
<1>7. ASSUME NEW c \in Closers, Wait(c) PROVE Types'
  BY <1>7 DEF Wait, AllDone, Goto
<1>8. ASSUME NEW c \in Closers, CloseQlog(c) PROVE Types'
  BY <1>8 DEF CloseQlog, Goto
<1>9. ASSUME NEW c \in Closers, QlogClosed(c) PROVE Types'
  BY <1>9 DEF QlogClosed, Goto
<1>10. ASSUME NEW c \in Closers, Report(c) PROVE Types'
  BY <1>10 DEF Report, MutexFree, Goto
<1>11. ASSUME ReceiveDatagram PROVE Types'
  BY <1>11 DEF ReceiveDatagram, HandleDatagram, CallClose, Goto
<1>12. ASSUME NEW s \in Streams, AcceptStream(s) PROVE Types'
  BY <1>12 DEF AcceptStream, Count, Goto
<1>13. ASSUME NEW s \in Streams, ReadStream(s) PROVE Types'
  BY <1>13 DEF ReadStream, Goto
<1>14. ASSUME NEW s \in Streams, StreamEnds(s) PROVE Types'
  BY <1>14 DEF StreamEnds, Goto
<1>15. ASSUME NEW l \in Loops, LoopEnds(l) PROVE Types'
  BY <1>15 DEF LoopEnds, Goto
<1>16. ASSUME NEW g \in Counted, Done(g) PROVE Types'
  BY <1>16 DEF Done, Goto
<1>17. ASSUME NEW a \in Apps, AppDatagram(a) PROVE Types'
  BY <1>17 DEF AppDatagram, HandleDatagram, CallClose, Goto
<1>18. ASSUME NEW a \in Apps, AppStream(a) PROVE Types'
  BY <1>18 DEF AppStream, Goto
<1>19. ASSUME NEW a \in Apps, AppSend(a) PROVE Types'
  BY <1>19 DEF AppSend, Goto
<1>20. ASSUME NEW a \in Apps, AppRecord(a) PROVE Types'
  BY <1>20 DEF AppRecord, Goto
<1>21. ASSUME ConnFails PROVE Types'
  BY <1>21 DEF ConnFails
<1>22. CASE UNCHANGED vars
  BY <1>22 DEF vars
<1>23. QED
  <2> HIDE DEF Types, Labels, Codes, Counted, Loops, Goroutines
  <2> QED
    BY <1>1, <1>2, <1>3, <1>4, <1>5, <1>6, <1>7, <1>8, <1>9, <1>10, <1>11, <1>12,
       <1>13, <1>14, <1>15, <1>16, <1>17, <1>18, <1>19, <1>20, <1>21, <1>22, Zenon
       DEF Next, CloseStep, CloserStep

(* Every step keeps what is known of close and of its callers. *)
LEMMA CloseStepInv ==
  ASSUME Types, MutexInv, ConnInv, CloserInv, [Next]_vars
  PROVE  MutexInv' /\ ConnInv' /\ CloserInv'
<1> USE SessionAssumption DEF Types, Labels, Codes, Counted, Loops, Goroutines, MutexInv,
        ConnInv, CloserInv, InClose, Before, Waited
<1>1. ASSUME NEW g \in Goroutines, EnterClose(g) PROVE MutexInv' /\ ConnInv' /\ CloserInv'
  BY <1>1 DEF EnterClose, AfterClose, MutexFree, AlreadyClosed, Goto
<1>2. ASSUME NEW g \in Goroutines, CloseFlows(g) PROVE MutexInv' /\ ConnInv' /\ CloserInv'
  BY <1>2 DEF CloseFlows, Goto
<1>3. ASSUME NEW g \in Goroutines, NEW e \in {"nil", "failed"}, CloseConn(g, e)
      PROVE  MutexInv' /\ ConnInv' /\ CloserInv'
  BY <1>3 DEF CloseConn, Goto
<1>4. ASSUME NEW g \in Goroutines, CancelCtx(g) PROVE MutexInv' /\ ConnInv' /\ CloserInv'
  BY <1>4 DEF CancelCtx, AfterClose, Goto
<1>5. ASSUME NEW g \in Goroutines, Recorded(g) PROVE MutexInv' /\ ConnInv' /\ CloserInv'
  BY <1>5 DEF Recorded, Goto
<1>6. ASSUME NEW c \in Closers, Close(c) PROVE MutexInv' /\ ConnInv' /\ CloserInv'
  BY <1>6 DEF Close, CallClose, Goto
<1>7. ASSUME NEW c \in Closers, Wait(c) PROVE MutexInv' /\ ConnInv' /\ CloserInv'
  BY <1>7 DEF Wait, AllDone, Goto
<1>8. ASSUME NEW c \in Closers, CloseQlog(c) PROVE MutexInv' /\ ConnInv' /\ CloserInv'
  BY <1>8 DEF CloseQlog, Goto
<1>9. ASSUME NEW c \in Closers, QlogClosed(c) PROVE MutexInv' /\ ConnInv' /\ CloserInv'
  BY <1>9 DEF QlogClosed, Goto
<1>10. ASSUME NEW c \in Closers, Report(c) PROVE MutexInv' /\ ConnInv' /\ CloserInv'
  BY <1>10 DEF Report, MutexFree, Goto
<1>11. ASSUME ReceiveDatagram PROVE MutexInv' /\ ConnInv' /\ CloserInv'
  BY <1>11 DEF ReceiveDatagram, HandleDatagram, CallClose, Goto
<1>12. ASSUME NEW s \in Streams, AcceptStream(s) PROVE MutexInv' /\ ConnInv' /\ CloserInv'
  BY <1>12 DEF AcceptStream, Count, Goto
<1>13. ASSUME NEW s \in Streams, ReadStream(s) PROVE MutexInv' /\ ConnInv' /\ CloserInv'
  BY <1>13 DEF ReadStream, Goto
<1>14. ASSUME NEW s \in Streams, StreamEnds(s) PROVE MutexInv' /\ ConnInv' /\ CloserInv'
  BY <1>14 DEF StreamEnds, Goto
<1>15. ASSUME NEW l \in Loops, LoopEnds(l) PROVE MutexInv' /\ ConnInv' /\ CloserInv'
  BY <1>15 DEF LoopEnds, Goto
<1>16. ASSUME NEW g \in Counted, Done(g) PROVE MutexInv' /\ ConnInv' /\ CloserInv'
  BY <1>16 DEF Done, Goto
<1>17. ASSUME NEW a \in Apps, AppDatagram(a) PROVE MutexInv' /\ ConnInv' /\ CloserInv'
  BY <1>17 DEF AppDatagram, HandleDatagram, CallClose, Goto
<1>18. ASSUME NEW a \in Apps, AppStream(a) PROVE MutexInv' /\ ConnInv' /\ CloserInv'
  BY <1>18 DEF AppStream, Goto
<1>19. ASSUME NEW a \in Apps, AppSend(a) PROVE MutexInv' /\ ConnInv' /\ CloserInv'
  BY <1>19 DEF AppSend, Goto
<1>20. ASSUME NEW a \in Apps, AppRecord(a) PROVE MutexInv' /\ ConnInv' /\ CloserInv'
  BY <1>20 DEF AppRecord, Goto
<1>21. ASSUME ConnFails PROVE MutexInv' /\ ConnInv' /\ CloserInv'
  BY <1>21 DEF ConnFails
<1>22. CASE UNCHANGED vars
  BY <1>22 DEF vars
<1>23. QED
  <2> HIDE DEF MutexInv, ConnInv, CloserInv, Types, Goroutines, Counted, Loops, Before
  <2> QED
  BY <1>1, <1>2, <1>3, <1>4, <1>5, <1>6, <1>7, <1>8, <1>9, <1>10, <1>11, <1>12, 
     <1>13, <1>14, <1>15, <1>16, <1>17, <1>18, <1>19, <1>20, <1>21, <1>22, Zenon
     DEF Next, CloseStep, CloserStep

(* The goroutines the WaitGroup counts are finitely many. *)
LEMMA AliveIsFinite == IsFiniteSet(Alive)
<1>1. IsFiniteSet(Streams \cup {DLoop}) /\ IsFiniteSet((Streams \cup {DLoop}) \cup {ULoop})
  BY SessionAssumption, FS_AddElement
<1>2. (Streams \cup {DLoop}) \cup {ULoop} = Counted
  BY DEF Counted, Loops
<1>3. Alive \in SUBSET Counted
  BY DEF Alive
<1>. QED
  BY <1>1, <1>2, <1>3, FS_Subset

(* Every step keeps the count of the WaitGroup. *)
LEMMA WgStep ==
  ASSUME Types, WgInv, [Next]_vars
  PROVE  WgInv'
<1> USE SessionAssumption
<1>1. ASSUME NEW g \in Goroutines, EnterClose(g) PROVE WgInv'
  <2>1. Alive' = Alive
    BY <1>1 DEF Types, EnterClose, AfterClose, MutexFree, AlreadyClosed, Goto, Alive,
                Counted, Loops, Goroutines
  <2>. QED
    BY <1>1, <2>1 DEF WgInv, EnterClose
<1>2. ASSUME NEW g \in Goroutines, CloseFlows(g) PROVE WgInv'
  <2>1. Alive' = Alive
    BY <1>2 DEF Types, CloseFlows, Goto, Alive, Counted, Loops, Goroutines
  <2>. QED
    BY <1>2, <2>1 DEF WgInv, CloseFlows
<1>3. ASSUME NEW g \in Goroutines, NEW e \in {"nil", "failed"}, CloseConn(g, e) PROVE WgInv'
  <2>1. Alive' = Alive
    BY <1>3 DEF Types, CloseConn, Goto, Alive, Counted, Loops, Goroutines
  <2>. QED
    BY <1>3, <2>1 DEF WgInv, CloseConn
<1>4. ASSUME NEW g \in Goroutines, CancelCtx(g) PROVE WgInv'
  <2>1. Alive' = Alive
    BY <1>4 DEF Types, CancelCtx, AfterClose, Goto, Alive, Counted, Loops, Goroutines
  <2>. QED
    BY <1>4, <2>1 DEF WgInv, CancelCtx
<1>5. ASSUME NEW g \in Goroutines, Recorded(g) PROVE WgInv'
  <2>1. Alive' = Alive
    BY <1>5 DEF Types, Recorded, Goto, Alive, Counted, Loops, Goroutines
  <2>. QED
    BY <1>5, <2>1 DEF WgInv, Recorded
<1>6. ASSUME NEW c \in Closers, Close(c) PROVE WgInv'
  <2>1. Alive' = Alive
    BY <1>6 DEF Types, Close, CallClose, Goto, Alive, Counted, Loops, Goroutines
  <2>. QED
    BY <1>6, <2>1 DEF WgInv, Close
<1>7. ASSUME NEW c \in Closers, Wait(c) PROVE WgInv'
  <2>1. Alive' = Alive
    BY <1>7 DEF Types, Wait, AllDone, Goto, Alive, Counted, Loops, Goroutines
  <2>. QED
    BY <1>7, <2>1 DEF WgInv, Wait
<1>8. ASSUME NEW c \in Closers, CloseQlog(c) PROVE WgInv'
  <2>1. Alive' = Alive
    BY <1>8 DEF Types, CloseQlog, Goto, Alive, Counted, Loops, Goroutines
  <2>. QED
    BY <1>8, <2>1 DEF WgInv, CloseQlog
<1>9. ASSUME NEW c \in Closers, QlogClosed(c) PROVE WgInv'
  <2>1. Alive' = Alive
    BY <1>9 DEF Types, QlogClosed, Goto, Alive, Counted, Loops, Goroutines
  <2>. QED
    BY <1>9, <2>1 DEF WgInv, QlogClosed
<1>10. ASSUME NEW c \in Closers, Report(c) PROVE WgInv'
  <2>1. Alive' = Alive
    BY <1>10 DEF Types, Report, MutexFree, Goto, Alive, Counted, Loops, Goroutines
  <2>. QED
    BY <1>10, <2>1 DEF WgInv, Report
<1>11. ASSUME ReceiveDatagram PROVE WgInv'
  <2>1. Alive' = Alive
    BY <1>11 DEF Types, ReceiveDatagram, HandleDatagram, CallClose, Goto, Alive, Counted,
                 Loops, Goroutines
  <2>. QED
    BY <1>11, <2>1 DEF WgInv, ReceiveDatagram, HandleDatagram
<1>12. ASSUME NEW s \in Streams, AcceptStream(s) PROVE WgInv'
  <2>1. Alive' = Alive \cup {s} /\ s \notin Alive
    BY <1>12 DEF Types, AcceptStream, Goto, Alive, Counted, Loops, Goroutines
  <2>2. Cardinality(Alive \cup {s}) = Cardinality(Alive) + 1
    BY <2>1, AliveIsFinite, FS_AddElement
  <2>. QED
    BY <1>12, <2>1, <2>2 DEF WgInv, AcceptStream, Count
<1>13. ASSUME NEW s \in Streams, ReadStream(s) PROVE WgInv'
  <2>1. Alive' = Alive
    BY <1>13 DEF Types, ReadStream, Goto, Alive, Counted, Loops, Goroutines
  <2>. QED
    BY <1>13, <2>1 DEF WgInv, ReadStream
<1>14. ASSUME NEW s \in Streams, StreamEnds(s) PROVE WgInv'
  <2>1. Alive' = Alive
    BY <1>14 DEF Types, StreamEnds, Goto, Alive, Counted, Loops, Goroutines
  <2>. QED
    BY <1>14, <2>1 DEF WgInv, StreamEnds
<1>15. ASSUME NEW l \in Loops, LoopEnds(l) PROVE WgInv'
  <2>1. Alive' = Alive
    BY <1>15 DEF Types, LoopEnds, Goto, Alive, Counted, Loops, Goroutines
  <2>. QED
    BY <1>15, <2>1 DEF WgInv, LoopEnds
<1>16. ASSUME NEW g \in Counted, Done(g) PROVE WgInv'
  <2>1. Alive' = Alive \ {g} /\ g \in Alive
    BY <1>16 DEF Types, Done, Goto, Alive, Counted, Loops, Goroutines
  <2>2. Cardinality(Alive \ {g}) = Cardinality(Alive) - 1
    BY <2>1, AliveIsFinite, FS_RemoveElement
  <2>. QED
    BY <1>16, <2>1, <2>2 DEF WgInv, Done
<1>17. ASSUME NEW a \in Apps, AppDatagram(a) PROVE WgInv'
  <2>1. Alive' = Alive
    BY <1>17 DEF Types, AppDatagram, HandleDatagram, CallClose, Goto, Alive, Counted, Loops, Goroutines
  <2>. QED
    BY <1>17, <2>1 DEF WgInv, AppDatagram, HandleDatagram
<1>18. ASSUME NEW a \in Apps, AppStream(a) PROVE WgInv'
  <2>1. Alive' = Alive
    BY <1>18 DEF Types, AppStream, Goto, Alive, Counted, Loops, Goroutines
  <2>. QED
    BY <1>18, <2>1 DEF WgInv, AppStream
<1>19. ASSUME NEW a \in Apps, AppSend(a) PROVE WgInv'
  <2>1. Alive' = Alive
    BY <1>19 DEF Types, AppSend, Goto, Alive, Counted, Loops, Goroutines
  <2>. QED
    BY <1>19, <2>1 DEF WgInv, AppSend
<1>20. ASSUME NEW a \in Apps, AppRecord(a) PROVE WgInv'
  <2>1. Alive' = Alive
    BY <1>20 DEF Types, AppRecord, Goto, Alive, Counted, Loops, Goroutines
  <2>. QED
    BY <1>20, <2>1 DEF WgInv, AppRecord
<1>21. ASSUME ConnFails PROVE WgInv'
  <2>1. Alive' = Alive
    BY <1>21 DEF Types, ConnFails, Alive, Counted, Loops, Goroutines
  <2>. QED
    BY <1>21, <2>1 DEF WgInv, ConnFails
<1>22. CASE UNCHANGED vars
  BY <1>22 DEF vars, Alive, WgInv
<1>23. QED
  BY <1>1, <1>2, <1>3, <1>4, <1>5, <1>6, <1>7, <1>8, <1>9, <1>10, <1>11, <1>12, 
     <1>13, <1>14, <1>15, <1>16, <1>17, <1>18, <1>19, <1>20, <1>21, <1>22, Zenon
     DEF Next, CloseStep, CloserStep

(* After Close has waited, no step brings a goroutine of the session back. *)
LEMMA OutliveStep ==
  ASSUME Types, WgInv, CloseOutlivesLoops, [Next]_vars
  PROVE  CloseOutlivesLoops'
<1> USE SessionAssumption DEF Types, Labels, Counted, Loops, Goroutines, CloseOutlivesLoops
<1>1. ASSUME NEW g \in Goroutines, EnterClose(g) PROVE CloseOutlivesLoops'
  BY <1>1 DEF EnterClose, AfterClose, MutexFree, AlreadyClosed, Goto
<1>2. ASSUME NEW g \in Goroutines, CloseFlows(g) PROVE CloseOutlivesLoops'
  BY <1>2 DEF CloseFlows, Goto
<1>3. ASSUME NEW g \in Goroutines, NEW e \in {"nil", "failed"}, CloseConn(g, e)
      PROVE  CloseOutlivesLoops'
  BY <1>3 DEF CloseConn, Goto
<1>4. ASSUME NEW g \in Goroutines, CancelCtx(g) PROVE CloseOutlivesLoops'
  BY <1>4 DEF CancelCtx, AfterClose, Goto
<1>5. ASSUME NEW g \in Goroutines, Recorded(g) PROVE CloseOutlivesLoops'
  BY <1>5 DEF Recorded, Goto
<1>6. ASSUME NEW c \in Closers, Close(c) PROVE CloseOutlivesLoops'
  BY <1>6 DEF Close, CallClose, Goto
<1>7. ASSUME NEW c \in Closers, Wait(c) PROVE CloseOutlivesLoops'
  <2>1. Alive = {}
    BY <1>7, AliveIsFinite, FS_EmptySet DEF Wait, AllDone, WgInv
  <2>. QED
    BY <1>7, <2>1 DEF Wait, Goto, Alive
<1>8. ASSUME NEW c \in Closers, CloseQlog(c) PROVE CloseOutlivesLoops'
  BY <1>8 DEF CloseQlog, Goto
<1>9. ASSUME NEW c \in Closers, QlogClosed(c) PROVE CloseOutlivesLoops'
  BY <1>9 DEF QlogClosed, Goto
<1>10. ASSUME NEW c \in Closers, Report(c) PROVE CloseOutlivesLoops'
  BY <1>10 DEF Report, MutexFree, Goto
<1>11. ASSUME ReceiveDatagram PROVE CloseOutlivesLoops'
  BY <1>11 DEF ReceiveDatagram, HandleDatagram, CallClose, Goto
<1>12. ASSUME NEW s \in Streams, AcceptStream(s) PROVE CloseOutlivesLoops'
  BY <1>12 DEF AcceptStream, Count, Goto
<1>13. ASSUME NEW s \in Streams, ReadStream(s) PROVE CloseOutlivesLoops'
  BY <1>13 DEF ReadStream, Goto
<1>14. ASSUME NEW s \in Streams, StreamEnds(s) PROVE CloseOutlivesLoops'
  BY <1>14 DEF StreamEnds, Goto
<1>15. ASSUME NEW l \in Loops, LoopEnds(l) PROVE CloseOutlivesLoops'
  BY <1>15 DEF LoopEnds, Goto
<1>16. ASSUME NEW g \in Counted, Done(g) PROVE CloseOutlivesLoops'
  BY <1>16 DEF Done, Goto
<1>17. ASSUME NEW a \in Apps, AppDatagram(a) PROVE CloseOutlivesLoops'
  BY <1>17 DEF AppDatagram, HandleDatagram, CallClose, Goto
<1>18. ASSUME NEW a \in Apps, AppStream(a) PROVE CloseOutlivesLoops'
  BY <1>18 DEF AppStream, Goto
<1>19. ASSUME NEW a \in Apps, AppSend(a) PROVE CloseOutlivesLoops'
  BY <1>19 DEF AppSend, Goto
<1>20. ASSUME NEW a \in Apps, AppRecord(a) PROVE CloseOutlivesLoops'
  BY <1>20 DEF AppRecord, Goto
<1>21. ASSUME ConnFails PROVE CloseOutlivesLoops'
  BY <1>21 DEF ConnFails
<1>22. CASE UNCHANGED vars
  BY <1>22 DEF vars
<1>23. QED
  <2> HIDE DEF CloseOutlivesLoops, Types, Goroutines, Counted, Loops
  <2> QED
  BY <1>1, <1>2, <1>3, <1>4, <1>5, <1>6, <1>7, <1>8, <1>9, <1>10, <1>11, <1>12, 
     <1>13, <1>14, <1>15, <1>16, <1>17, <1>18, <1>19, <1>20, <1>21, <1>22, Zenon
     DEF Next, CloseStep, CloserStep

-----------------------------------------------------------------------------
(* One loop counts for one. *)
LEMMA LoneLoop == IsFiniteSet({} \cup {ULoop}) /\ Cardinality({} \cup {ULoop}) = 1
<1>1. IsFiniteSet({}) /\ Cardinality({}) = 0 /\ ULoop \notin {}
  BY FS_EmptySet
<1>2. /\ IsFiniteSet({} \cup {ULoop})
      /\ Cardinality({} \cup {ULoop}) = IF ULoop \in {} THEN Cardinality({}) ELSE Cardinality({}) + 1
  BY <1>1, FS_AddElement, Zenon
<1>. QED
  BY <1>1, <1>2

(* A new session. *)
LEMMA InitInv == Init => IInv
<1> SUFFICES ASSUME Init PROVE IInv
  OBVIOUS
<1>1. Types
  <2>1. /\ pc \in [Goroutines -> Labels]
        /\ \A g \in Goroutines : pc[g] # "close"
    BY DEF Init, Labels
  <2>2. /\ started \in BOOLEAN /\ closedErr = "none" /\ mutex = Nobody
        /\ code = [g \in Goroutines |-> "none"]
        /\ flowsClosed = FALSE /\ conn = "up" /\ connCloses = <<>> /\ connCloseErr = "nil"
        /\ ctxDone = FALSE /\ once \in {"new", "nil"} /\ datagrams = 0
        /\ result = [c \in Closers |-> "none"]
    BY Zenon DEF Init
  <2>3. started \in BOOLEAN /\ flowsClosed \in BOOLEAN /\ ctxDone \in BOOLEAN
    BY <2>2, Zenon
  <2>4. connCloses \in Seq(Codes) /\ datagrams \in 0..MaxDatagrams
    BY <2>2, SessionAssumption
  <2>5. /\ closedErr \in Codes \cup {"none"} /\ code \in [Goroutines -> Codes \cup {"none"}]
        /\ mutex \in Goroutines \cup {Nobody} /\ conn \in {"up", "failed", "closed"}
        /\ connCloseErr \in {"nil", "failed"} /\ once \in {"nil", "new", "running", "done"}
        /\ result \in [Closers -> {"none", "nil", "failed"}]
    BY <2>2
  <2>. QED
    BY <2>1, <2>3, <2>4, <2>5, Zenon DEF Types
<1>2. WgInv
  <2>1. PICK d \in BOOLEAN :
          /\ pc = [g \in Goroutines |->
                     CASE g = ULoop -> IF started THEN "accept" ELSE "none"
                       [] g = DLoop -> IF started /\ d THEN "receive" ELSE "none"
                       [] g \in Streams -> "none"
                       [] OTHER -> "idle"]
          /\ wg = IF ~started THEN 0 ELSE IF d THEN 2 ELSE 1
    BY Zenon DEF Init
  <2>2. CASE ~started
    <3>1. Alive = {}
      BY <2>1, <2>2, SessionAssumption DEF Alive, Goroutines, Counted, Loops
    <3>. QED
      BY <2>1, <2>2, <3>1, FS_EmptySet DEF WgInv
  <2>3. CASE started /\ ~d
    <3>1. Alive = {} \cup {ULoop}
      BY <2>1, <2>3, SessionAssumption DEF Alive, Goroutines, Counted, Loops
    <3>2. Cardinality({} \cup {ULoop}) = 1
      BY LoneLoop
    <3>. QED
      BY <2>1, <2>3, <3>1, <3>2 DEF WgInv
  <2>4. CASE started /\ d
    <3>1. Alive = ({} \cup {ULoop}) \cup {DLoop} /\ DLoop \notin {} \cup {ULoop}
      BY <2>1, <2>4, SessionAssumption DEF Alive, Goroutines, Counted, Loops
    <3>2. IsFiniteSet({} \cup {ULoop}) /\ Cardinality({} \cup {ULoop}) = 1
      BY LoneLoop
    <3>3. Cardinality(({} \cup {ULoop}) \cup {DLoop}) = 2
      BY <3>1, <3>2, FS_AddElement
    <3>. QED
      BY <2>1, <2>4, <3>1, <3>3 DEF WgInv
  <2>5. started \in BOOLEAN
    BY DEF Init
  <2>. QED
    BY <2>2, <2>3, <2>4, <2>5
<1>3. MutexInv /\ ConnInv
  BY SessionAssumption DEF Init, MutexInv, ConnInv, InClose, Goroutines, Counted, Loops
<1>4. CloserInv /\ CloseOutlivesLoops
  BY SessionAssumption
     DEF Init, CloserInv, CloseOutlivesLoops, Waited, Goroutines, Counted, Loops
<1>. QED
  BY <1>1, <1>2, <1>3, <1>4 DEF IInv

(* The inductive invariant holds throughout. *)
LEMMA Invariance == Spec => []IInv
<1>1. IInv /\ [Next]_vars => IInv'
  BY TypesStep, WgStep, CloseStepInv, OutliveStep, Zenon DEF IInv
<1>. QED
  BY <1>1, InitInv, PTL DEF Spec

(* The variables of a session keep their types, and the WaitGroup counts    *)
(* exactly the receive loops and handlers that are alive.                   *)
THEOREM TypeCorrect == Spec => []TypeOK
<1>1. IInv => TypeOK
  BY DEF IInv, Types, Labels, WgInv, TypeOK
<1>. QED
  BY <1>1, Invariance, PTL

(* However many goroutines close the session, the first to enter close      *)
(* decides the code, and every Close returns the error of that one closing  *)
(* of the connection.                                                       *)
THEOREM FirstCloserWins == Spec => []FirstCloseDecides
<1>1. IInv => FirstCloseDecides
  BY DEF IInv, Types, Codes, ConnInv, CloserInv, FirstCloseDecides
<1>. QED
  BY <1>1, Invariance, PTL

(* No receive loop or handler is alive once a Close has waited. *)
THEOREM NoneOutlivesClose == Spec => []CloseOutlivesLoops
<1>1. IInv => CloseOutlivesLoops
  BY DEF IInv
<1>. QED
  BY <1>1, Invariance, PTL
=============================================================================
