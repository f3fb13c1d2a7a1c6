-------------------------------- MODULE Session --------------------------------
(***************************************************************************)
(* The life of a Session (session.go): the receive loops and the stream    *)
(* handlers they start, all counted by the session's WaitGroup; close,     *)
(* which the datagram loop itself may call; Close, which waits for them    *)
(* and then closes the qlog producer; and application goroutines that      *)
(* record qlog events when they send.  What closing the flows does is in   *)
(* SendFlows, FlowRouting and ReceiveFlow.                                 *)
(***************************************************************************)
EXTENDS Integers, Sequences, FiniteSets

CONSTANTS
  Streams,       \* the streams the peer opens, each with its handler
  Closers,       \* application goroutines that call Close
  Apps,          \* application goroutines that send, or handle datagrams
  DLoop, ULoop,  \* receiveDatagrams and receiveUniStreams
  MaxDatagrams,  \* bound: datagrams received
  Nobody

Loops      == {DLoop, ULoop}
Counted    == Loops \cup Streams
Goroutines == Counted \cup Closers \cup Apps

ASSUME SessionAssumption ==
  /\ IsFiniteSet(Streams) /\ MaxDatagrams \in Nat
  /\ DLoop # ULoop /\ Loops \cap Streams = {}
  /\ Counted \cap (Closers \cup Apps) = {} /\ Closers \cap Apps = {}
  /\ Nobody \notin Goroutines

VARIABLES
  pc,            \* per goroutine: where
  started,       \* NewSession, not NewSessionWithAppHandledConn
  closedErr,     \* the code in s.closedErr, or "none"
  mutex,         \* who holds s.mutex
  code,          \* per goroutine: the code it passes to close
  flowsClosed,   \* close has closed the flows
  conn,          \* "up", "failed" or "closed"
  connCloses,    \* the codes passed to conn.CloseWithError, in order
  connCloseErr,  \* s.connCloseErr
  ctxDone,       \* s.ctx is cancelled
  wg,            \* s.wg
  once,          \* s.closeQlogOnce: "new", "running" or "done"; "nil" without s.qlog
  result,        \* per closer: what Close returned
  datagrams      \* datagrams received so far

vars == <<pc, started, closedErr, mutex, code, flowsClosed, conn, connCloses,
          connCloseErr, ctxDone, wg, once, result, datagrams>>

Goto(g, l) == pc' = [pc EXCEPT ![g] = l]

(* newSession and start, with or without datagrams, or without the loops,   *)
(* and with or without a trace that takes RoQ events.                       *)
Init ==
  /\ started \in BOOLEAN
  /\ \E acceptDatagrams \in BOOLEAN :
       /\ pc = [g \in Goroutines |->
                  CASE g = ULoop -> IF started THEN "accept" ELSE "none"
                    [] g = DLoop -> IF started /\ acceptDatagrams THEN "receive" ELSE "none"
                    [] g \in Streams -> "none"
                    [] OTHER -> "idle"]
       /\ wg = IF ~started THEN 0 ELSE IF acceptDatagrams THEN 2 ELSE 1
  /\ closedErr = "none" /\ mutex = Nobody /\ code = [g \in Goroutines |-> "none"]
  /\ flowsClosed = FALSE /\ conn = "up" /\ connCloses = <<>> /\ connCloseErr = "nil"
  /\ ctxDone = FALSE /\ once \in {"new", "nil"} /\ result = [c \in Closers |-> "none"]
  /\ datagrams = 0

-----------------------------------------------------------------------------
(* close.  The caller goes on with AfterClose: Close waits, the others do   *)
(* not.                                                                     *)
AfterClose_Waits(g) == "wait"
AfterClose(g) ==
  IF g \in Closers THEN "wait" ELSE IF g = DLoop THEN "receive" ELSE "idle"

CallClose(g, c) == Goto(g, "close") /\ code' = [code EXCEPT ![g] = c]

MutexFree == mutex = Nobody

AlreadyClosed_Unchecked == FALSE
AlreadyClosed == closedErr # "none"

EnterClose(g) ==
  /\ pc[g] = "close" /\ MutexFree
  /\ \/ /\ AlreadyClosed
        /\ Goto(g, AfterClose(g))
        /\ UNCHANGED <<closedErr, mutex>>
     \/ /\ ~AlreadyClosed
        /\ closedErr' = code[g]
        /\ mutex' = g
        /\ Goto(g, "tear")
  /\ UNCHANGED <<started, code, flowsClosed, conn, connCloses, connCloseErr, ctxDone,
                 wg, once, result, datagrams>>

CloseFlows(g) ==
  /\ pc[g] = "tear"
  /\ flowsClosed' = TRUE
  /\ Goto(g, "conn")
  /\ UNCHANGED <<started, closedErr, mutex, code, conn, connCloses, connCloseErr,
                 ctxDone, wg, once, result, datagrams>>

(* The connection is closed with the code of the call; what CloseWithError  *)
(* returns is kept.                                                         *)
CloseConn(g, e) ==
  /\ pc[g] = "conn"
  /\ connCloses' = Append(connCloses, code[g])
  /\ conn' = "closed"
  /\ connCloseErr' = e
  /\ Goto(g, "cancel")
  /\ UNCHANGED <<started, closedErr, mutex, code, flowsClosed, ctxDone, wg, once,
                 result, datagrams>>

CancelCtx(g) ==
  /\ pc[g] = "cancel"
  /\ ctxDone' = TRUE
  /\ mutex' = Nobody
  /\ Goto(g, AfterClose(g))
  /\ UNCHANGED <<started, closedErr, code, flowsClosed, conn, connCloses, connCloseErr,
                 wg, once, result, datagrams>>

-----------------------------------------------------------------------------
(* Close: close, wait for the goroutines, close the qlog producer once.     *)
Close(c) ==
  /\ pc[c] = "idle" /\ CallClose(c, "NoError")
  /\ UNCHANGED <<started, closedErr, mutex, flowsClosed, conn, connCloses, connCloseErr,
                 ctxDone, wg, once, result, datagrams>>

AllDone_Unchecked == TRUE
AllDone == wg = 0

Wait(c) ==
  /\ pc[c] = "wait" /\ AllDone
  /\ Goto(c, "qlog")
  /\ UNCHANGED <<started, closedErr, mutex, code, flowsClosed, conn, connCloses,
                 connCloseErr, ctxDone, wg, once, result, datagrams>>

(* sync.Once, if there is a producer: the first caller runs it, the others  *)
(* wait until it is done.                                                   *)
CloseQlog(c) ==
  /\ pc[c] = "qlog"
  /\ \/ once = "new" /\ once' = "running" /\ Goto(c, "closing")
     \/ once \in {"done", "nil"} /\ Goto(c, "report") /\ UNCHANGED once
  /\ UNCHANGED <<started, closedErr, mutex, code, flowsClosed, conn, connCloses,
                 connCloseErr, ctxDone, wg, result, datagrams>>

QlogClosed(c) ==
  /\ pc[c] = "closing"
  /\ once' = "done"
  /\ Goto(c, "report")
  /\ UNCHANGED <<started, closedErr, mutex, code, flowsClosed, conn, connCloses,
                 connCloseErr, ctxDone, wg, result, datagrams>>

Report(c) ==
  /\ pc[c] = "report" /\ MutexFree
  /\ result' = [result EXCEPT ![c] = connCloseErr]
  /\ Goto(c, "returned")
  /\ UNCHANGED <<started, closedErr, mutex, code, flowsClosed, conn, connCloses,
                 connCloseErr, ctxDone, wg, once, datagrams>>

-----------------------------------------------------------------------------
(* The loops.  A datagram or a stream that is queued may still come out     *)
(* when the connection or the context is done.                              *)

(* HandleDatagram records the datagram, or closes the session for one       *)
(* without a flow ID.  With an application-handled connection the           *)
(* application calls it.                                                    *)
HandleDatagram(g) ==
  /\ datagrams < MaxDatagrams /\ datagrams' = datagrams + 1
  /\ \/ Goto(g, "recording") /\ UNCHANGED code
     \/ CallClose(g, "PacketError")
  /\ UNCHANGED <<started, closedErr, mutex, flowsClosed, conn, connCloses, connCloseErr,
                 ctxDone, wg, once, result>>

ReceiveDatagram == pc[DLoop] = "receive" /\ HandleDatagram(DLoop)
AppDatagram(a)  == pc[a] = "idle" /\ ~started /\ HandleDatagram(a)

(* HandleUniStreamWithFlowID, called by the application: it records the     *)
(* stream, or the next packet of it.                                        *)
AppStream(a) ==
  /\ pc[a] = "idle" /\ ~started /\ conn = "up"
  /\ Goto(a, "recording")
  /\ UNCHANGED <<started, closedErr, mutex, code, flowsClosed, conn, connCloses,
                 connCloseErr, ctxDone, wg, once, result, datagrams>>

(* A handler is counted before it starts. *)
Count_Late == wg
Count == wg + 1

AcceptStream(s) ==
  /\ pc[ULoop] = "accept" /\ pc[s] = "none"
  /\ Goto(s, "flowid")
  /\ wg' = Count
  /\ UNCHANGED <<started, closedErr, mutex, code, flowsClosed, conn, connCloses,
                 connCloseErr, ctxDone, once, result, datagrams>>

(* AcceptUniStream or ReceiveDatagram fails. *)
LoopEnds(l) ==
  /\ pc[l] \in {"accept", "receive"} /\ (ctxDone \/ conn # "up")
  /\ Goto(l, "exit")
  /\ UNCHANGED <<started, closedErr, mutex, code, flowsClosed, conn, connCloses,
                 connCloseErr, ctxDone, wg, once, result, datagrams>>

(* The deferred wg.Done of a loop or a handler. *)
Done(g) ==
  /\ pc[g] = "exit"
  /\ Goto(g, "done")
  /\ wg' = wg - 1
  /\ UNCHANGED <<started, closedErr, mutex, code, flowsClosed, conn, connCloses,
                 connCloseErr, ctxDone, once, result, datagrams>>

-----------------------------------------------------------------------------
(* handleUniStream: the flow ID (recorded as StreamOpened), then            *)
(* readStream, which records every packet.                                  *)
ReadStream(s) ==
  /\ pc[s] \in {"flowid", "stream"} /\ conn = "up"
  /\ Goto(s, "recording")
  /\ UNCHANGED <<started, closedErr, mutex, code, flowsClosed, conn, connCloses,
                 connCloseErr, ctxDone, wg, once, result, datagrams>>

(* A read fails or ends: the stream, the flow or the connection is over. *)
StreamEnds(s) ==
  /\ pc[s] \in {"flowid", "stream"}
  /\ Goto(s, "exit")
  /\ UNCHANGED <<started, closedErr, mutex, code, flowsClosed, conn, connCloses,
                 connCloseErr, ctxDone, wg, once, result, datagrams>>

(* RecordEvent, if there is a producer, and push return. *)
Recorded(g) ==
  /\ pc[g] = "recording"
  /\ Goto(g, IF g \in Streams THEN "stream" ELSE IF g = DLoop THEN "receive" ELSE "idle")
  /\ UNCHANGED <<started, closedErr, mutex, code, flowsClosed, conn, connCloses,
                 connCloseErr, ctxDone, wg, once, result, datagrams>>

(* SendFlow.WriteRTPBytes: is the flow closed; if not, record and send. *)
AppSend(a) ==
  /\ pc[a] = "idle" /\ ~flowsClosed
  /\ Goto(a, "send")
  /\ UNCHANGED <<started, closedErr, mutex, code, flowsClosed, conn, connCloses,
                 connCloseErr, ctxDone, wg, once, result, datagrams>>

AppRecord(a) ==
  /\ pc[a] = "send"
  /\ Goto(a, "recording")
  /\ UNCHANGED <<started, closedErr, mutex, code, flowsClosed, conn, connCloses,
                 connCloseErr, ctxDone, wg, once, result, datagrams>>

(* The peer closes the connection, or it times out. *)
ConnFails ==
  /\ conn = "up" /\ conn' = "failed"
  /\ UNCHANGED <<pc, started, closedErr, mutex, code, flowsClosed, connCloses,
                 connCloseErr, ctxDone, wg, once, result, datagrams>>

-----------------------------------------------------------------------------
CloseStep(g) == EnterClose(g) \/ CloseFlows(g) \/ CancelCtx(g)
                \/ \E e \in {"nil", "failed"} : CloseConn(g, e)
CloserStep(c) == Wait(c) \/ CloseQlog(c) \/ QlogClosed(c) \/ Report(c)

Next ==
  \/ \E g \in Goroutines : CloseStep(g) \/ Recorded(g)
  \/ \E c \in Closers : Close(c) \/ CloserStep(c)
  \/ ReceiveDatagram
  \/ \E s \in Streams : AcceptStream(s) \/ ReadStream(s) \/ StreamEnds(s)
  \/ \E l \in Loops : LoopEnds(l)
  \/ \E g \in Counted : Done(g)
  \/ \E a \in Apps : AppDatagram(a) \/ AppStream(a) \/ AppSend(a) \/ AppRecord(a)
  \/ ConnFails

Spec == Init /\ [][Next]_vars

(* Goroutines that can run do run.  The loops notice a cancelled context or *)
(* a connection that is gone, and so do the reads of a stream (of the       *)
(* connection only).  The peer and the application owe nothing.             *)
Fairness ==
  /\ \A g \in Goroutines : WF_vars(CloseStep(g)) /\ WF_vars(Recorded(g))
  /\ \A c \in Closers : WF_vars(CloserStep(c))
  /\ \A l \in Loops : WF_vars(LoopEnds(l))
  /\ \A s \in Streams : WF_vars(conn # "up" /\ StreamEnds(s))
  /\ \A g \in Counted : WF_vars(Done(g))

FairSpec == Spec /\ Fairness
-----------------------------------------------------------------------------
Codes == {"NoError", "PacketError"}

(* The goroutines of the session that have started and not returned. *)
Alive == {g \in Counted : pc[g] \notin {"none", "done"}}

(* Every variable has its type; the WaitGroup counts the goroutines that    *)
(* are alive, and never goes negative.                                      *)
TypeOK ==
  /\ pc \in [Goroutines -> {"none", "idle", "close", "tear", "conn", "cancel", "wait",
                            "qlog", "closing", "report", "returned", "accept", "receive",
                            "flowid", "stream", "recording", "send", "exit", "done"}]
  /\ started \in BOOLEAN /\ flowsClosed \in BOOLEAN /\ ctxDone \in BOOLEAN
  /\ closedErr \in Codes \cup {"none"} /\ code \in [Goroutines -> Codes \cup {"none"}]
  /\ mutex \in Goroutines \cup {Nobody}
  /\ conn \in {"up", "failed", "closed"} /\ connCloses \in Seq(Codes)
  /\ connCloseErr \in {"nil", "failed"} /\ once \in {"nil", "new", "running", "done"}
  /\ result \in [Closers -> {"none", "nil", "failed"}]
  /\ datagrams \in 0..MaxDatagrams
  /\ wg = Cardinality(Alive)

(* However Close calls and the datagram loop race, the first to enter close *)
(* decides for all: the connection is closed once and with its code ("the   *)
(* first caller's error code wins"), and every Close, also one that         *)
(* overtakes it, reports the error of closing that connection ("the same    *)
(* error as the call that closed the session").                             *)
FirstCloseDecides ==
  /\ Len(connCloses) <= 1
  /\ \A i \in 1..Len(connCloses) : connCloses[i] = closedErr
  /\ \A c \in Closers : pc[c] = "returned" => conn = "closed" /\ result[c] = connCloseErr

(* "Close closes the session and waits for its receive loops to return":    *)
(* when it has waited, no loop or handler of the session is alive, and none *)
(* starts later, so that none records while the producer is closed.         *)
CloseOutlivesLoops ==
  (\E c \in Closers : pc[c] \in {"qlog", "closing", "report", "returned"}) =>
    \A g \in Counted : pc[g] \in {"none", "done"}

(* Close returns, whoever else closes the session, also from the datagram   *)
(* loop it waits for, and whatever the handlers are blocked on.             *)
CloseReturns == \A c \in Closers : pc[c] = "close" ~> pc[c] = "returned"

(* What start says about the errors it drops when the loops return: "There  *)
(* is nothing left to act on here: close has already run by then, or is     *)
(* what stopped them in the first place".                                   *)
LoopsEndAfterClose ==
  \A l \in Loops : pc[l] \in {"exit", "done"} => closedErr # "none"
=============================================================================
