------------------------------ MODULE ReceiveFlow ------------------------------
(***************************************************************************)
(* One ReceiveFlow (receive_flow.go) and every goroutine that touches it:  *)
(* the stream handlers and the datagram handlers that push packets, the    *)
(* application goroutines in Read, the goroutines in Close, the deadline   *)
(* timers, and the buffer of unknown flows, which may evict the flow until *)
(* the application adopts it.  A section of code under f.lock never blocks *)
(* and is one action; whatever happens outside the lock is a step of its   *)
(* own.                                                                    *)
(***************************************************************************)
EXTENDS Naturals, Sequences, Functions

CONSTANTS
  Streams,            \* QUIC streams, each with its handler goroutine
  Datagrams,          \* goroutines in HandleDatagram
  Readers,            \* application goroutines that call Read
  Closers,            \* goroutines that call Close (the application, the session)
  Buffers,            \* the *bytes.Buffer objects that exist
  ReceiveBufferSize,  \* capacity of f.buffer
  MaxPackets,         \* bound: packets each handler receives
  MaxDeadlines,       \* bound: calls of SetReadDeadline
  None

Handlers == Streams \cup Datagrams

ASSUME ReceiveFlowAssumption ==
  /\ ReceiveBufferSize \in Nat \ {0}
  /\ MaxPackets \in Nat
  /\ MaxDeadlines \in Nat
  /\ Streams \cap Datagrams = {}
  /\ None \notin Buffers
  /\ None \notin Handlers \X Nat

VARIABLES
  queue,            \* f.buffer: the queued buffers, oldest first
  bufClosed,        \* f.buffer has been closed
  closed,           \* f.closed
  ctxDone,          \* f.ctx is cancelled
  streams,          \* f.streams
  cancelled,        \* the code each stream was cancelled with, or "none"
  epoch,            \* the identity of f.deadlineCh: its number among all of them
  chClosed,         \* the deadline channels that have been closed
  deadlineExpired,  \* f.deadlineExpired
  deadlineTimer,    \* f.deadlineTimer, named by the channel it closes; 0 is nil
  armed,            \* timers the runtime will fire
  fired,            \* timers whose callback runs but has not got f.lock yet
  pool,             \* f.bufferPool
  content,          \* the packet each buffer holds
  owner,            \* "buffered", "evicted" or "app"
  hpc, held, sent,  \* handlers: where, buffer in hand, packets received so far
  rpc, ch, got,     \* readers: where, deadlineCh seen, buffer in hand
  res, out,         \* readers: what the last Read returned, the bytes it copied
  due,              \* readers: the deadline that had expired when Read was called
  cpc,              \* closers: where
  panicked          \* a closed channel was closed again or sent on

queueVars    == <<queue, bufClosed, closed>>
streamVars   == <<streams, cancelled>>
deadlineVars == <<epoch, chClosed, deadlineExpired, deadlineTimer, armed, fired>>
poolVars     == <<pool, content>>
handlerVars  == <<hpc, held, sent>>
readerVars   == <<rpc, ch, got, res, out, due>>
vars == <<queueVars, ctxDone, streamVars, deadlineVars, poolVars, owner,
          handlerVars, readerVars, cpc, panicked>>

Packet == Handlers \X Nat
Codes  == {"none", "NoError", "UnknownFlowID"}

-----------------------------------------------------------------------------
(* newReceiveFlow, either for the buffer of unknown flows or for the        *)
(* application.                                                             *)
Init ==
  /\ queue = <<>> /\ bufClosed = FALSE /\ closed = FALSE /\ ctxDone = FALSE
  /\ streams = {} /\ cancelled = [s \in Streams |-> "none"]
  /\ epoch = 0 /\ chClosed = {} /\ deadlineExpired = FALSE
  /\ deadlineTimer = 0 /\ armed = {} /\ fired = {}
  /\ pool = {} /\ content = [b \in Buffers |-> None]
  /\ owner \in {"buffered", "app"}
  /\ hpc = [h \in Handlers |-> "idle"]
  /\ held = [h \in Handlers |-> None]
  /\ sent = [h \in Handlers |-> 0]
  /\ rpc = [r \in Readers |-> "idle"]
  /\ ch = [r \in Readers |-> 0]
  /\ got = [r \in Readers |-> None]
  /\ res = [r \in Readers |-> "none"]
  /\ out = [r \in Readers |-> None]
  /\ due = [r \in Readers |-> 0]
  /\ cpc = [c \in Closers |-> "idle"]
  /\ panicked = FALSE

-----------------------------------------------------------------------------
(* The buffer pool.  Get returns a pooled buffer or allocates one nobody    *)
(* holds; a buffer dropped without Put is left to the garbage collector.    *)
InUse == Range(queue) \cup Range(held) \cup Range(got)
Available(b) == b \in Buffers /\ (b \in pool \/ b \notin InUse)

(* CancelRead: the first code a stream is cancelled with is the one it keeps. *)
CancelRead(S, code) ==
  [s \in Streams |-> IF s \in S /\ cancelled[s] = "none" THEN code ELSE cancelled[s]]

-----------------------------------------------------------------------------
(* Handlers.                                                                *)

(* HandleUniStreamWithFlowID looks the flow up: an evicted flow is not found. *)
LookUp(s) ==
  /\ hpc[s] = "idle" /\ owner # "evicted"
  /\ hpc' = [hpc EXCEPT ![s] = "found"]
  /\ UNCHANGED <<queueVars, ctxDone, streamVars, deadlineVars, poolVars, owner,
                 held, sent, readerVars, cpc, panicked>>

(* readStream registers the stream, unless the flow is closed. *)
MayRegister_Always == TRUE
MayRegister == ~ctxDone

Register(s) ==
  /\ hpc[s] = "found"
  /\ \/ /\ ~MayRegister
        /\ hpc' = [hpc EXCEPT ![s] = "reject"]
        /\ UNCHANGED streams
     \/ /\ MayRegister
        /\ hpc' = [hpc EXCEPT ![s] = "reading"]
        /\ streams' = streams \cup {s}
  /\ UNCHANGED <<queueVars, ctxDone, cancelled, deadlineVars, poolVars, owner,
                 held, sent, readerVars, cpc, panicked>>

(* ... in which case it cancels the stream, after releasing the lock. *)
Reject(s) ==
  /\ hpc[s] = "reject"
  /\ hpc' = [hpc EXCEPT ![s] = "done"]
  /\ cancelled' = CancelRead({s}, "NoError")
  /\ UNCHANGED <<queueVars, ctxDone, streams, deadlineVars, poolVars, owner,
                 held, sent, readerVars, cpc, panicked>>

(* A buffer from the pool is reset and filled with the handler's next packet. *)
Fill(h) ==
  /\ sent[h] < MaxPackets
  /\ \E b \in Buffers :
       /\ Available(b)
       /\ pool' = pool \ {b}
       /\ content' = [content EXCEPT ![b] = <<h, sent[h] + 1>>]
       /\ held' = [held EXCEPT ![h] = b]
  /\ sent' = [sent EXCEPT ![h] = @ + 1]
  /\ hpc' = [hpc EXCEPT ![h] = "push"]
  /\ UNCHANGED <<queueVars, ctxDone, streamVars, deadlineVars, owner,
                 readerVars, cpc, panicked>>

(* readStream reads a frame; the reads of a cancelled stream fail. *)
ReadFrame(s) == hpc[s] = "reading" /\ cancelled[s] = "none" /\ Fill(s)

HandleDatagram(d) == hpc[d] = "idle" /\ owner # "evicted" /\ Fill(d)

(* push: a send on f.buffer, or the packet is dropped. *)
PushAccepts_NoClosedCheck == Len(queue) < ReceiveBufferSize
PushAccepts_NoLimit == ~closed
PushAccepts == ~closed /\ Len(queue) < ReceiveBufferSize

Push(h) ==
  /\ hpc[h] = "push"
  /\ \/ /\ PushAccepts
        /\ queue' = Append(queue, held[h])
        /\ panicked' = (panicked \/ bufClosed)
        /\ UNCHANGED pool
     \/ /\ ~PushAccepts
        /\ pool' = pool \cup {held[h]}
        /\ UNCHANGED <<queue, panicked>>
  /\ held' = [held EXCEPT ![h] = None]
  /\ hpc' = [hpc EXCEPT ![h] = IF h \in Streams THEN "reading" ELSE "idle"]
  /\ UNCHANGED <<bufClosed, closed, ctxDone, streamVars, deadlineVars, content,
                 owner, sent, readerVars, cpc>>

(* Reading the length fails: end of stream, reset, cancelled, other error. *)
EndOfStream(s) ==
  /\ hpc[s] = "reading"
  /\ hpc' = [hpc EXCEPT ![s] = "exit"]
  /\ UNCHANGED <<queueVars, ctxDone, streamVars, deadlineVars, poolVars, owner,
                 held, sent, readerVars, cpc, panicked>>

(* Reading the payload fails: the buffer in hand does not go back. *)
PayloadError(s) ==
  /\ hpc[s] = "reading"
  /\ hpc' = [hpc EXCEPT ![s] = "exit"]
  /\ \E b \in Buffers : Available(b) /\ pool' = pool \ {b}
  /\ UNCHANGED <<queueVars, ctxDone, streamVars, deadlineVars, content, owner,
                 held, sent, readerVars, cpc, panicked>>

(* The deferred function of readStream. *)
Unregister(s) ==
  /\ hpc[s] = "exit"
  /\ hpc' = [hpc EXCEPT ![s] = "done"]
  /\ streams' = streams \ {s}
  /\ UNCHANGED <<queueVars, ctxDone, cancelled, deadlineVars, poolVars, owner,
                 held, sent, readerVars, cpc, panicked>>

-----------------------------------------------------------------------------
(* Read.                                                                    *)

Read(r) ==
  /\ rpc[r] = "idle" /\ owner = "app"
  /\ rpc' = [rpc EXCEPT ![r] = "check"]
  /\ res' = [res EXCEPT ![r] = "none"]
  /\ out' = [out EXCEPT ![r] = None]
  /\ due' = [due EXCEPT ![r] = IF deadlineExpired THEN epoch ELSE 0]
  /\ UNCHANGED <<queueVars, ctxDone, streamVars, deadlineVars, poolVars, owner,
                 handlerVars, ch, got, cpc, panicked>>

Return(r, what) ==
  /\ rpc' = [rpc EXCEPT ![r] = "idle"]
  /\ res' = [res EXCEPT ![r] = what]

(* The top of the loop: deadlineExpired and deadlineCh, under the lock. *)
DeadlinePassed_Unbuffered == deadlineExpired /\ queue = <<>>
DeadlinePassed == deadlineExpired

ReadDeadline(r) ==
  /\ rpc[r] = "check"
  /\ \/ /\ DeadlinePassed
        /\ Return(r, "deadline")
        /\ UNCHANGED ch
     \/ /\ ~DeadlinePassed
        /\ rpc' = [rpc EXCEPT ![r] = "select"]
        /\ ch' = [ch EXCEPT ![r] = epoch]
        /\ UNCHANGED res
  /\ UNCHANGED <<queueVars, ctxDone, streamVars, deadlineVars, poolVars, owner,
                 handlerVars, got, out, due, cpc, panicked>>

(* The cases of the select: a packet, ... *)
TakePacket_PutFirst(r) ==
  /\ rpc[r] = "select" /\ queue # <<>>
  /\ got' = [got EXCEPT ![r] = Head(queue)]
  /\ pool' = pool \cup {Head(queue)}
  /\ queue' = Tail(queue)
  /\ rpc' = [rpc EXCEPT ![r] = "copy"]
  /\ UNCHANGED <<bufClosed, closed, ctxDone, streamVars, deadlineVars, content,
                 owner, handlerVars, ch, res, out, due, cpc, panicked>>

TakePacket(r) ==
  /\ rpc[r] = "select" /\ queue # <<>>
  /\ got' = [got EXCEPT ![r] = Head(queue)]
  /\ queue' = Tail(queue)
  /\ rpc' = [rpc EXCEPT ![r] = "copy"]
  /\ UNCHANGED <<bufClosed, closed, ctxDone, streamVars, deadlineVars, poolVars,
                 owner, handlerVars, ch, res, out, due, cpc, panicked>>

(* ... the closed and drained buffer, which reports f.ctx.Err(), ... *)
Drained_Cancelled == ctxDone
Drained == queue = <<>> /\ bufClosed

TakeClosed(r) ==
  /\ rpc[r] = "select" /\ Drained
  /\ Return(r, IF ctxDone THEN "canceled" ELSE "nil")
  /\ UNCHANGED <<queueVars, ctxDone, streamVars, deadlineVars, poolVars, owner,
                 handlerVars, ch, got, out, due, cpc, panicked>>

(* ... or the deadline channel: back to the top of the loop. *)
TakeDeadline(r) ==
  /\ rpc[r] = "select" /\ ch[r] \in chClosed
  /\ rpc' = [rpc EXCEPT ![r] = "check"]
  /\ UNCHANGED <<queueVars, ctxDone, streamVars, deadlineVars, poolVars, owner,
                 handlerVars, ch, got, res, out, due, cpc, panicked>>

(* copyPacket: the packet fits into the caller's buffer or it is dropped. *)
CopyPacket(r) ==
  /\ rpc[r] = "copy"
  /\ \/ Return(r, "packet") /\ out' = [out EXCEPT ![r] = content[got[r]]]
     \/ Return(r, "short") /\ UNCHANGED out
  /\ pool' = pool \cup {got[r]}
  /\ got' = [got EXCEPT ![r] = None]
  /\ UNCHANGED <<queueVars, ctxDone, streamVars, deadlineVars, content, owner,
                 handlerVars, ch, due, cpc, panicked>>

-----------------------------------------------------------------------------
(* Deadlines.                                                               *)

(* Stop: a timer that is still armed will not fire. *)
StopTimer_Leaks == armed
StopTimer == armed \ {deadlineTimer}

(* SetReadDeadline wakes the readers of the previous deadline ... *)
WakeReaders_OnlyTimed == IF deadlineTimer = 0 THEN chClosed ELSE chClosed \cup {epoch}
WakeReaders == IF deadlineExpired THEN chClosed ELSE chClosed \cup {epoch}

(* ... and starts the new one: none, one in the past, or one to come. *)
SetReadDeadline(t) ==
  /\ owner = "app" /\ epoch < MaxDeadlines
  /\ epoch' = epoch + 1
  /\ panicked' = (panicked \/ (~deadlineExpired /\ epoch \in chClosed))
  /\ \/ /\ t = "zero"
        /\ deadlineExpired' = FALSE /\ chClosed' = WakeReaders
        /\ deadlineTimer' = 0 /\ armed' = StopTimer
     \/ /\ t = "past"
        /\ deadlineExpired' = TRUE /\ chClosed' = WakeReaders \cup {epoch'}
        /\ deadlineTimer' = 0 /\ armed' = StopTimer
     \/ /\ t = "future"
        /\ deadlineExpired' = FALSE /\ chClosed' = WakeReaders
        /\ deadlineTimer' = epoch' /\ armed' = StopTimer \cup {epoch'}
  /\ UNCHANGED <<queueVars, ctxDone, streamVars, fired, poolVars, owner,
                 handlerVars, readerVars, cpc>>

(* The runtime starts the callback of a timer, ... *)
TimerFires(e) ==
  /\ e \in armed
  /\ armed' = armed \ {e}
  /\ fired' = fired \cup {e}
  /\ UNCHANGED <<queueVars, ctxDone, streamVars, epoch, chClosed, deadlineExpired,
                 deadlineTimer, poolVars, owner, handlerVars, readerVars, cpc, panicked>>

(* ... which expires its deadline, unless that has been replaced. *)
Expires_AnyChannel(e) == ~deadlineExpired
Expires_Never(e) == FALSE
Expires(e) == epoch = e /\ ~deadlineExpired

ExpireDeadline(e) ==
  /\ e \in fired
  /\ fired' = fired \ {e}
  /\ \/ /\ Expires(e)
        /\ deadlineExpired' = TRUE
        /\ chClosed' = chClosed \cup {e}
        /\ panicked' = (panicked \/ e \in chClosed)
     \/ /\ ~Expires(e)
        /\ UNCHANGED <<deadlineExpired, chClosed, panicked>>
  /\ UNCHANGED <<queueVars, ctxDone, streamVars, epoch, deadlineTimer, armed,
                 poolVars, owner, handlerVars, readerVars, cpc>>

-----------------------------------------------------------------------------
(* Close: cancelCtx, closeBuffer, closeWithError(ErrRoQNoError).            *)

CancelCtx_Omitted(c) ==
  /\ cpc[c] = "idle" /\ owner = "app"
  /\ cpc' = [cpc EXCEPT ![c] = "ctx"]
  /\ UNCHANGED <<queueVars, ctxDone, streamVars, deadlineVars, poolVars, owner,
                 handlerVars, readerVars, panicked>>

CancelCtx(c) ==
  /\ cpc[c] = "idle" /\ owner = "app"
  /\ cpc' = [cpc EXCEPT ![c] = "ctx"]
  /\ ctxDone' = TRUE
  /\ UNCHANGED <<queueVars, streamVars, deadlineVars, poolVars, owner,
                 handlerVars, readerVars, panicked>>

CloseBuffer_KeepsChannel(c) ==
  /\ cpc[c] = "ctx"
  /\ cpc' = [cpc EXCEPT ![c] = "buffer"]
  /\ closed' = TRUE /\ deadlineTimer' = 0 /\ armed' = StopTimer
  /\ UNCHANGED <<queue, bufClosed, ctxDone, streamVars, epoch, chClosed, deadlineExpired,
                 fired, poolVars, owner, handlerVars, readerVars, panicked>>

CloseBuffer(c) ==
  /\ cpc[c] = "ctx"
  /\ cpc' = [cpc EXCEPT ![c] = "buffer"]
  /\ \/ /\ closed
        /\ UNCHANGED <<closed, bufClosed, deadlineTimer, armed, panicked>>
     \/ /\ ~closed
        /\ closed' = TRUE /\ bufClosed' = TRUE
        /\ panicked' = (panicked \/ bufClosed)
        /\ deadlineTimer' = 0 /\ armed' = StopTimer
  /\ UNCHANGED <<queue, ctxDone, streamVars, epoch, chClosed, deadlineExpired,
                 fired, poolVars, owner, handlerVars, readerVars>>

CloseStreams(c) ==
  /\ cpc[c] = "buffer"
  /\ cpc' = [cpc EXCEPT ![c] = "done"]
  /\ cancelled' = CancelRead(streams, "NoError")
  /\ UNCHANGED <<queueVars, ctxDone, streams, deadlineVars, poolVars, owner,
                 handlerVars, readerVars, panicked>>

-----------------------------------------------------------------------------
(* The buffer of unknown flows lets go of the flow.                         *)

(* getOrCreate evicts it: closeWithError(ErrRoQUnknownFlowID). *)
Evict ==
  /\ owner = "buffered"
  /\ owner' = "evicted"
  /\ cancelled' = CancelRead(streams, "UnknownFlowID")
  /\ UNCHANGED <<queueVars, ctxDone, streams, deadlineVars, poolVars,
                 handlerVars, readerVars, cpc, panicked>>

(* NewReceiveFlow pops it and hands it to the application. *)
Adopt ==
  /\ owner = "buffered"
  /\ owner' = "app"
  /\ UNCHANGED <<queueVars, ctxDone, streamVars, deadlineVars, poolVars,
                 handlerVars, readerVars, cpc, panicked>>

-----------------------------------------------------------------------------
Handler(s) == LookUp(s) \/ Register(s) \/ Reject(s) \/ ReadFrame(s)
              \/ EndOfStream(s) \/ PayloadError(s) \/ Unregister(s)
Select(r)  == TakePacket(r) \/ TakeClosed(r) \/ TakeDeadline(r)
Reader(r)  == Read(r) \/ ReadDeadline(r) \/ Select(r) \/ CopyPacket(r)
Closer(c)  == CancelCtx(c) \/ CloseBuffer(c) \/ CloseStreams(c)
Timer(e)   == TimerFires(e) \/ ExpireDeadline(e)

Next ==
  \/ \E s \in Streams : Handler(s)
  \/ \E d \in Datagrams : HandleDatagram(d)
  \/ \E h \in Handlers : Push(h)
  \/ \E r \in Readers : Reader(r)
  \/ \E t \in {"zero", "past", "future"} : SetReadDeadline(t)
  \/ \E e \in 1..MaxDeadlines : Timer(e)
  \/ \E c \in Closers : Closer(c)
  \/ Evict
  \/ Adopt

Spec == Init /\ [][Next]_vars

(* A goroutine that can run does run, a select with a ready case proceeds,  *)
(* timers fire, and the reads of a cancelled stream return.  The peer, the  *)
(* network and the application owe nothing: no fairness for new streams,    *)
(* packets, ends of streams or calls.                                       *)
Fairness ==
  /\ \A s \in Streams :
       /\ WF_vars(Register(s)) /\ WF_vars(Reject(s)) /\ WF_vars(Unregister(s))
       /\ WF_vars(cancelled[s] # "none" /\ EndOfStream(s))
  /\ \A h \in Handlers : WF_vars(Push(h))
  /\ \A r \in Readers :
       WF_vars(ReadDeadline(r)) /\ WF_vars(Select(r)) /\ WF_vars(CopyPacket(r))
  /\ \A e \in 1..MaxDeadlines : WF_vars(Timer(e))
  /\ \A c \in Closers : WF_vars(CloseBuffer(c)) /\ WF_vars(CloseStreams(c))

FairSpec == Spec /\ Fairness
-----------------------------------------------------------------------------
(* The types of the variables, in the groups the actions leave UNCHANGED. *)
QueueTypes ==
  /\ queue \in Seq(Buffers) /\ Len(queue) <= ReceiveBufferSize
  /\ bufClosed \in BOOLEAN /\ closed \in BOOLEAN
StreamTypes == streams \subseteq Streams /\ cancelled \in [Streams -> Codes]
DeadlineTypes ==
  /\ epoch \in 0..MaxDeadlines /\ chClosed \subseteq 0..MaxDeadlines
  /\ deadlineExpired \in BOOLEAN /\ deadlineTimer \in 0..MaxDeadlines
  /\ armed \subseteq 1..MaxDeadlines /\ fired \subseteq 1..MaxDeadlines
PoolTypes == pool \subseteq Buffers /\ content \in [Buffers -> Packet \cup {None}]
HandlerTypes ==
  /\ hpc \in [Handlers -> {"idle", "found", "reject", "reading", "push", "exit", "done"}]
  /\ held \in [Handlers -> Buffers \cup {None}]
  /\ sent \in [Handlers -> 0..MaxPackets]
ReaderTypes ==
  /\ rpc \in [Readers -> {"idle", "check", "select", "copy"}]
  /\ ch \in [Readers -> 0..MaxDeadlines] /\ due \in [Readers -> 0..MaxDeadlines]
  /\ got \in [Readers -> Buffers \cup {None}]
  /\ res \in [Readers -> {"none", "packet", "short", "deadline", "canceled", "nil"}]
  /\ out \in [Readers -> Packet \cup {None}]

(* Every variable has its type, and push never fills f.buffer beyond its    *)
(* capacity.                                                                *)
TypeOK ==
  /\ QueueTypes /\ StreamTypes /\ DeadlineTypes /\ PoolTypes
  /\ HandlerTypes /\ ReaderTypes
  /\ ctxDone \in BOOLEAN /\ panicked \in BOOLEAN
  /\ owner \in {"buffered", "evicted", "app"}
  /\ cpc \in [Closers -> {"idle", "ctx", "buffer", "done"}]

(* No interleaving of push, Close, SetReadDeadline and the timers closes a  *)
(* closed channel or sends on one (push, closeBuffer, SetReadDeadline and   *)
(* expireDeadline all rely on a flag for that).                             *)
NoPanic == ~panicked

(* A pooled buffer is in one place at a time - queued, in a handler's hand, *)
(* in a reader's hand or in the pool - so no packet is overwritten before   *)
(* Read has copied it (push, copyPacket and bufferPool.Get).                *)
BuffersUnshared ==
  /\ \A i \in 1..Len(queue) :
       queue[i] \notin pool /\ \A j \in 1..Len(queue) : queue[i] = queue[j] => i = j
  /\ \A h \in Handlers : held[h] # None =>
       /\ held[h] \notin pool
       /\ \A i \in 1..Len(queue) : held[h] # queue[i]
       /\ \A r \in Readers : held[h] # got[r]
       /\ \A g \in Handlers : held[g] = held[h] => g = h
  /\ \A r \in Readers : got[r] # None =>
       /\ got[r] \notin pool
       /\ \A i \in 1..Len(queue) : got[r] # queue[i]
       /\ \A s \in Readers : got[s] = got[r] => s = r

(* A Read blocked in its select always waits on the current deadline, or on *)
(* a channel that is closed already: a replaced deadline is never missed    *)
(* between the unlock in Read and the select.                               *)
NoLostWakeup ==
  \A r \in Readers : rpc[r] = "select" => ch[r] = epoch \/ ch[r] \in chClosed

(* A Read called when the deadline had passed gets no packet, queued or     *)
(* not, until the deadline is replaced (SetReadDeadline's documentation).   *)
ExpiredDeadlineBindsRead ==
  \A r \in Readers : rpc[r] \in {"select", "copy"} /\ due[r] # 0 => due[r] # epoch

(* A Read woken by the closed buffer always finds an error to report: Close *)
(* cancels the context first, whichever of several closers gets there.      *)
ClosedReadHasError == \A r \in Readers : res[r] # "nil"

(* Once any Close has returned, every registered stream is cancelled, and   *)
(* none is registered later: readStream and closeWithError share the lock.  *)
ClosedFlowStreamsCancelled ==
  (\E c \in Closers : cpc[c] = "done") => \A s \in streams : cancelled[s] # "none"

(* The only timer the runtime still holds is the one f.deadlineTimer can    *)
(* stop: SetReadDeadline and closeBuffer leak none.                         *)
TimersStoppable == armed \subseteq {deadlineTimer}

(* A timer whose deadline was replaced after it fired, while its callback   *)
(* waited for the lock, changes nothing (expireDeadline's channel test).    *)
StaleTimerIsInert ==
  [][\A e \in fired \ fired' : e # epoch => UNCHANGED <<deadlineExpired, chClosed>>]_vars

(* The flow as the queue of packets PacketQueue describes. *)
QueuedPackets == [i \in 1..Len(queue) |-> content[queue[i]]]
CallState == [r \in Readers |-> CASE rpc[r] = "idle" -> "idle"
                                  [] rpc[r] = "copy" -> "copying"
                                  [] OTHER -> "waiting"]
PacketInHand == [r \in Readers |-> IF rpc[r] = "copy" THEN content[got[r]] ELSE None]
PQ == INSTANCE PacketQueue WITH
        Packets  <- Handlers \X (1..MaxPackets),
        Capacity <- ReceiveBufferSize,
        NoPacket <- None,
        q        <- QueuedPackets,
        open     <- ~bufClosed,
        call     <- CallState,
        hand     <- PacketInHand,
        answer   <- res

(* push, Read and Close implement a bounded FIFO: accepted packets come out *)
(* once, whole, in order, also those queued before Close or before the      *)
(* application adopted the flow.                                            *)
ImplementsPacketQueue == PQ!PQSpec

(* Close makes every Read return. *)
CloseWakesReaders ==
  \A r \in Readers : (\E c \in Closers : cpc[c] = "done") /\ rpc[r] # "idle"
                       ~> rpc[r] = "idle"

(* Close ends every stream handler of the flow, also one that has looked    *)
(* the flow up and not registered its stream yet (readStream's comment).    *)
CloseEndsStreams ==
  \A s \in Streams : (\E c \in Closers : cpc[c] = "done") /\ hpc[s] # "idle"
                       ~> hpc[s] = "done"

(* A Read that waits under a deadline returns, unless the deadline is       *)
(* replaced or the flow closed, which stops the timer.                      *)
DeadlineWakesReaders ==
  \A r \in Readers : \A e \in 1..MaxDeadlines :
    deadlineTimer = e /\ rpc[r] # "idle" ~> rpc[r] = "idle" \/ deadlineTimer # e

(* What WithUnknownFlowBufferSize documents: "the oldest of those flows is  *)
(* evicted and its streams are cancelled with ErrRoQUnknownFlowID".         *)
EvictionCancelsStreams ==
  \A s \in Streams :
    owner = "evicted" /\ s \in streams ~> cancelled[s] # "none" \/ s \notin streams
=============================================================================
