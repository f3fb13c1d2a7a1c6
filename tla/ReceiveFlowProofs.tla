--------------------------- MODULE ReceiveFlowProofs ---------------------------
(***************************************************************************)
(* ReceiveFlow for any number of streams, datagrams, readers, closers,     *)
(* buffers and deadlines: no panic, no shared buffer, no lost wakeup, no   *)
(* stream left behind by Close, and the refinement of PacketQueue.         *)
(***************************************************************************)
EXTENDS ReceiveFlow, TLAPS

-----------------------------------------------------------------------------
(* The inductive invariant, one conjunct per concern.                       *)

(* A handler or reader holds a buffer exactly where its code does, and no   *)
(* buffer is in two places.                                                 *)
BufferInv ==
  /\ BuffersUnshared
  /\ \A h \in Handlers : hpc[h] = "push" <=> held[h] # None
  /\ \A r \in Readers : rpc[r] = "copy" <=> got[r] # None

(* Close works in order: context, buffer, streams. *)
CloseInv ==
  /\ bufClosed = closed
  /\ closed => ctxDone
  /\ \A c \in Closers : cpc[c] # "idle" => ctxDone
  /\ \A c \in Closers : cpc[c] \in {"buffer", "done"} => closed
  /\ ClosedFlowStreamsCancelled
  /\ ClosedReadHasError

(* Every deadline channel but the current one is closed, and that one is    *)
(* closed exactly when its deadline has expired.                            *)
DeadlineInv ==
  /\ \A e \in 0..MaxDeadlines : e < epoch => e \in chClosed
  /\ \A e \in chClosed : e <= epoch
  /\ deadlineExpired <=> epoch \in chClosed
  /\ \A r \in Readers : ch[r] <= epoch /\ due[r] <= epoch
  /\ \A r \in Readers : due[r] # 0 => due[r] \in chClosed
  /\ armed \subseteq {deadlineTimer}
  /\ deadlineTimer <= epoch
  /\ \A e \in fired : e <= epoch
  /\ ExpiredDeadlineBindsRead

IInv == TypeOK /\ BufferInv /\ CloseInv /\ DeadlineInv /\ ~panicked

USE DEF Handlers, Packet, Codes

-----------------------------------------------------------------------------
(* newReceiveFlow establishes the invariant. *)
LEMMA InitInv == Init => IInv
<1> SUFFICES ASSUME Init PROVE IInv
  OBVIOUS
<1> USE ReceiveFlowAssumption DEF Init, ReceiveFlowAssumption
<1>1. TypeOK
  <2>0. bufClosed \in BOOLEAN /\ closed \in BOOLEAN /\ deadlineExpired \in BOOLEAN
    OBVIOUS
  <2>1. QueueTypes /\ StreamTypes
    BY <2>0 DEF QueueTypes, StreamTypes
  <2>2. DeadlineTypes /\ PoolTypes
    BY <2>0 DEF DeadlineTypes, PoolTypes
  <2>3. HandlerTypes /\ ReaderTypes
    BY DEF HandlerTypes, ReaderTypes
  <2> QED BY <2>1, <2>2, <2>3 DEF TypeOK
<1>2. BufferInv
  BY DEF BufferInv, BuffersUnshared, Range
<1>3. CloseInv
  BY DEF CloseInv, ClosedFlowStreamsCancelled, ClosedReadHasError
<1>4. DeadlineInv
  BY DEF DeadlineInv, ExpiredDeadlineBindsRead
<1>5. ~panicked
  OBVIOUS
<1> QED BY <1>1, <1>2, <1>3, <1>4, <1>5 DEF IInv

-----------------------------------------------------------------------------
(* Types.  BufferInv gives a pushed or copied buffer its type.              *)

LEMMA TypesKept ==
  /\ QueueTypes /\ UNCHANGED queueVars => QueueTypes'
  /\ StreamTypes /\ UNCHANGED streamVars => StreamTypes'
  /\ DeadlineTypes /\ UNCHANGED deadlineVars => DeadlineTypes'
  /\ PoolTypes /\ UNCHANGED poolVars => PoolTypes'
  /\ HandlerTypes /\ UNCHANGED handlerVars => HandlerTypes'
  /\ ReaderTypes /\ UNCHANGED readerVars => ReaderTypes'
BY DEF QueueTypes, StreamTypes, DeadlineTypes, PoolTypes, HandlerTypes,
       ReaderTypes, queueVars, streamVars, deadlineVars, poolVars, handlerVars,
       readerVars

(* Every step keeps the types. *)
LEMMA TypeStep ==
  ASSUME TypeOK, BufferInv, Next
  PROVE  TypeOK'
<1> USE TypesKept, ReceiveFlowAssumption DEF ReceiveFlowAssumption, TypeOK
<1>1. ASSUME NEW s \in Streams, Handler(s) PROVE TypeOK'
  <2> USE DEF HandlerTypes, StreamTypes, PoolTypes, poolVars, handlerVars, streamVars
  <2>1. CASE LookUp(s)
    BY <2>1 DEF LookUp
  <2>2. CASE Register(s)
    BY <2>2 DEF Register
  <2>3. CASE Reject(s)
    BY <2>3 DEF Reject, CancelRead
  <2>4. CASE ReadFrame(s)
    BY <2>4 DEF ReadFrame, Fill
  <2>5. CASE EndOfStream(s)
    BY <2>5 DEF EndOfStream
  <2>6. CASE PayloadError(s)
    BY <2>6 DEF PayloadError
  <2>7. CASE Unregister(s)
    BY <2>7 DEF Unregister
  <2> QED BY <1>1, <2>1, <2>2, <2>3, <2>4, <2>5, <2>6, <2>7 DEF Handler
<1>2. ASSUME NEW d \in Datagrams, HandleDatagram(d) PROVE TypeOK'
  BY <1>2 DEF HandleDatagram, Fill, HandlerTypes, PoolTypes
<1>3. ASSUME NEW h \in Handlers, Push(h) PROVE TypeOK'
  <2>1. held[h] \in Buffers
    BY <1>3 DEF Push, BufferInv, HandlerTypes
  <2>2. CASE PushAccepts
    <3>1. queue' \in Seq(Buffers) /\ Len(queue') <= ReceiveBufferSize
      <4>1. queue' = Append(queue, held[h])
        BY <1>3, <2>2, Zenon DEF Push
      <4>2. Len(queue) < ReceiveBufferSize /\ queue \in Seq(Buffers)
        BY <2>2, Zenon DEF PushAccepts, QueueTypes
      <4> QED BY <2>1, <4>1, <4>2
    <3>2. panicked' \in BOOLEAN
      BY <1>3 DEF Push
    <3> QED BY <1>3, <2>2, <3>1, <3>2 DEF Push, QueueTypes, HandlerTypes, PoolTypes
  <2>3. CASE ~PushAccepts
    BY <1>3, <2>1, <2>3 DEF Push, QueueTypes, HandlerTypes, PoolTypes
  <2> QED BY <2>2, <2>3
<1>4. ASSUME NEW r \in Readers, Reader(r) PROVE TypeOK'
  <2>1. CASE Read(r)
    BY <2>1 DEF Read, ReaderTypes, DeadlineTypes, deadlineVars
  <2>2. CASE ReadDeadline(r)
    <3>1. epoch \in 0..MaxDeadlines
      BY DEF DeadlineTypes
    <3>2. ReaderTypes'
      BY <2>2, <3>1 DEF ReadDeadline, Return, ReaderTypes
    <3> QED BY <2>2, <3>2 DEF ReadDeadline
  <2>3. CASE TakePacket(r)
    <3>1. QueueTypes' /\ ReaderTypes'
      BY <2>3 DEF TakePacket, QueueTypes, ReaderTypes
    <3> QED BY <2>3, <3>1 DEF TakePacket
  <2>4. CASE TakeClosed(r)
    BY <2>4 DEF TakeClosed, Return, ReaderTypes
  <2>5. CASE TakeDeadline(r)
    BY <2>5 DEF TakeDeadline, ReaderTypes
  <2>6. CASE CopyPacket(r)
    <3>1. got[r] \in Buffers
      BY <2>6 DEF CopyPacket, BufferInv, ReaderTypes
    <3>2. content[got[r]] \in Packet \cup {None}
      BY <3>1 DEF PoolTypes
    <3>3. ReaderTypes'
      BY <2>6, <3>2 DEF CopyPacket, Return, ReaderTypes
    <3>4. PoolTypes'
      BY <2>6, <3>1 DEF CopyPacket, PoolTypes
    <3> QED BY <2>6, <3>3, <3>4 DEF CopyPacket
  <2> QED BY <1>4, <2>1, <2>2, <2>3, <2>4, <2>5, <2>6 DEF Reader, Select
<1>5. ASSUME NEW t \in {"zero", "past", "future"}, SetReadDeadline(t) PROVE TypeOK'
  <2>1. deadlineExpired' \in BOOLEAN /\ panicked' \in BOOLEAN
    BY <1>5 DEF SetReadDeadline
  <2>2. epoch' \in 1..MaxDeadlines
    BY <1>5 DEF SetReadDeadline, DeadlineTypes
  <2>3. WakeReaders \subseteq 0..MaxDeadlines /\ StopTimer \subseteq 1..MaxDeadlines
    BY DEF WakeReaders, StopTimer, DeadlineTypes
  <2>4. /\ chClosed' \subseteq 0..MaxDeadlines /\ deadlineTimer' \in 0..MaxDeadlines
        /\ armed' \subseteq 1..MaxDeadlines
    <3>1. chClosed' \in {WakeReaders, WakeReaders \cup {epoch'}}
      BY <1>5, Zenon DEF SetReadDeadline
    <3>2. deadlineTimer' \in {0, epoch'} /\ armed' \in {StopTimer, StopTimer \cup {epoch'}}
      BY <1>5, Zenon DEF SetReadDeadline
    <3> QED BY <2>2, <2>3, <3>1, <3>2
  <2>5. DeadlineTypes'
    BY <1>5, <2>1, <2>2, <2>4 DEF SetReadDeadline, DeadlineTypes
  <2> QED BY <1>5, <2>1, <2>5 DEF SetReadDeadline
<1>6. ASSUME NEW e \in 1..MaxDeadlines, Timer(e) PROVE TypeOK'
  <2>1. CASE TimerFires(e)
    BY <2>1 DEF TimerFires, DeadlineTypes
  <2>2. CASE ExpireDeadline(e)
    <3>1. deadlineExpired' \in BOOLEAN /\ panicked' \in BOOLEAN
      BY <2>2 DEF ExpireDeadline, DeadlineTypes
    <3>2. chClosed' \subseteq 0..MaxDeadlines
      <4>1. chClosed' \in {chClosed, chClosed \cup {e}}
        BY <2>2, Zenon DEF ExpireDeadline
      <4> QED BY <4>1 DEF DeadlineTypes
    <3>3. DeadlineTypes'
      BY <2>2, <3>1, <3>2 DEF ExpireDeadline, DeadlineTypes
    <3> QED BY <2>2, <3>1, <3>3 DEF ExpireDeadline
  <2> QED BY <1>6, <2>1, <2>2 DEF Timer
<1>7. ASSUME NEW c \in Closers, Closer(c) PROVE TypeOK'
  <2>1. CASE CancelCtx(c)
    BY <2>1 DEF CancelCtx
  <2>2. CASE CloseBuffer(c)
    <3>1. /\ panicked' \in BOOLEAN /\ closed' \in BOOLEAN /\ bufClosed' \in BOOLEAN
          /\ deadlineExpired' \in BOOLEAN
      BY <2>2 DEF CloseBuffer, QueueTypes, DeadlineTypes
    <3>2. deadlineTimer' \in 0..MaxDeadlines /\ armed' \subseteq 1..MaxDeadlines
      <4>1. deadlineTimer' \in {0, deadlineTimer} /\ armed' \in {armed, StopTimer}
        BY <2>2, Zenon DEF CloseBuffer
      <4> QED BY <4>1 DEF StopTimer, DeadlineTypes
    <3>3. DeadlineTypes' /\ QueueTypes'
      BY <2>2, <3>1, <3>2 DEF CloseBuffer, DeadlineTypes, QueueTypes
    <3> QED BY <2>2, <3>1, <3>3 DEF CloseBuffer
  <2>3. CASE CloseStreams(c)
    BY <2>3 DEF CloseStreams, CancelRead, StreamTypes
  <2> QED BY <1>7, <2>1, <2>2, <2>3 DEF Closer
<1>8. CASE Evict
  BY <1>8 DEF Evict, CancelRead, StreamTypes
<1>9. CASE Adopt
  BY <1>9 DEF Adopt
<1> QED BY <1>1, <1>2, <1>3, <1>4, <1>5, <1>6, <1>7, <1>8, <1>9 DEF Next

-----------------------------------------------------------------------------
(* Buffers.                                                                 *)

LEMMA AvailableIsFree ==
  ASSUME TypeOK, BufferInv, NEW b, Available(b)
  PROVE  /\ b \in Buffers /\ b # None
         /\ \A i \in 1..Len(queue) : queue[i] # b
         /\ \A h \in Handlers : held[h] # b
         /\ \A r \in Readers : got[r] # b
<1>1. b \in Buffers /\ b # None
  BY ReceiveFlowAssumption DEF ReceiveFlowAssumption, Available
<1>2. CASE b \in pool
  BY <1>1, <1>2 DEF BufferInv, BuffersUnshared
<1>3. CASE b \notin InUse
  <2>1. /\ DOMAIN held = Handlers /\ DOMAIN got = Readers /\ DOMAIN queue = 1..Len(queue)
    BY DEF TypeOK, QueueTypes, HandlerTypes, ReaderTypes
  <2> QED BY <1>1, <1>3, <2>1 DEF InUse, Range
<1> QED BY <1>1, <1>2, <1>3 DEF Available

(* A buffer taken from the pool is in the hand of its handler only. *)
LEMMA FillBuffers ==
  ASSUME TypeOK, BufferInv, NEW h \in Handlers, hpc[h] # "push", Fill(h)
  PROVE  BufferInv'
<1>1. PICK b \in Buffers : /\ Available(b) /\ pool' = pool \ {b}
                           /\ held' = [held EXCEPT ![h] = b]
  BY DEF Fill
<1>2. /\ hpc' = [hpc EXCEPT ![h] = "push"]
      /\ UNCHANGED <<queue, rpc, got>>
  BY DEF Fill, queueVars, readerVars
<1>3. /\ b # None /\ \A i \in 1..Len(queue) : queue[i] # b
      /\ \A g \in Handlers : held[g] # b
      /\ \A r \in Readers : got[r] # b
  BY <1>1, AvailableIsFree
<1>4. DOMAIN held = Handlers /\ DOMAIN hpc = Handlers
  BY DEF TypeOK, HandlerTypes
<1> QED BY <1>1, <1>2, <1>3, <1>4 DEF BufferInv, BuffersUnshared

(* Every step keeps the buffers unshared. *)
LEMMA BufferStep ==
  ASSUME TypeOK, BufferInv, Next
  PROVE  BufferInv'
<1> USE DEF queueVars, poolVars, handlerVars, readerVars
<1>0. /\ DOMAIN held = Handlers /\ DOMAIN hpc = Handlers
      /\ DOMAIN got = Readers /\ DOMAIN rpc = Readers
  BY DEF TypeOK, HandlerTypes, ReaderTypes
<1>1. ASSUME NEW s \in Streams, Handler(s) PROVE BufferInv'
  <2>1. CASE ReadFrame(s)
    BY <2>1, FillBuffers DEF ReadFrame
  <2>2. CASE PayloadError(s)
    BY <1>0, <2>2 DEF PayloadError, BufferInv, BuffersUnshared
  <2>3. CASE LookUp(s) \/ Register(s) \/ Reject(s) \/ EndOfStream(s) \/ Unregister(s)
    <3>1. \E to \in {"found", "reject", "reading", "done", "exit"} :
            hpc' = [hpc EXCEPT ![s] = to]
      BY <2>3 DEF LookUp, Register, Reject, EndOfStream, Unregister
    <3>2. hpc[s] # "push" /\ UNCHANGED <<queue, pool, held, got, rpc>>
      BY <2>3 DEF LookUp, Register, Reject, EndOfStream, Unregister
    <3> QED BY <1>0, <3>1, <3>2 DEF BufferInv, BuffersUnshared
  <2> QED BY <1>1, <2>1, <2>2, <2>3 DEF Handler
<1>2. ASSUME NEW d \in Datagrams, HandleDatagram(d) PROVE BufferInv'
  BY <1>2, FillBuffers DEF HandleDatagram
<1>3. ASSUME NEW h \in Handlers, Push(h) PROVE BufferInv'
  <2>1. /\ held[h] # None /\ held' = [held EXCEPT ![h] = None]
        /\ \E to \in {"reading", "idle"} : hpc' = [hpc EXCEPT ![h] = to]
        /\ UNCHANGED <<got, rpc>>
    BY <1>3 DEF Push, BufferInv
  <2>2. CASE PushAccepts
    <3>1. queue' = Append(queue, held[h]) /\ pool' = pool
      BY <1>3, <2>2, Zenon DEF Push
    <3>2. queue \in Seq(Buffers) /\ held[h] \in Buffers
      BY <2>1 DEF TypeOK, QueueTypes, HandlerTypes
    <3>3. /\ Len(queue') = Len(queue) + 1 /\ Len(queue) \in Nat
          /\ \A i \in 1..Len(queue) : queue'[i] = queue[i]
          /\ queue'[Len(queue) + 1] = held[h]
      BY <3>1, <3>2
    <3> QED BY <1>0, <2>1, <3>1, <3>3 DEF BufferInv, BuffersUnshared
  <2>3. CASE ~PushAccepts
    <3>1. queue' = queue /\ pool' = pool \cup {held[h]}
      BY <1>3, <2>3, Zenon DEF Push
    <3> QED BY <1>0, <2>1, <3>1 DEF BufferInv, BuffersUnshared
  <2> QED BY <2>2, <2>3
<1>4. ASSUME NEW r \in Readers, Reader(r) PROVE BufferInv'
  <2>1. CASE Read(r) \/ ReadDeadline(r) \/ TakeClosed(r) \/ TakeDeadline(r)
    <3>1. \E to \in {"check", "idle", "select"} : rpc' = [rpc EXCEPT ![r] = to]
      BY <2>1 DEF Read, ReadDeadline, TakeClosed, TakeDeadline, Return
    <3>2. rpc[r] # "copy" /\ UNCHANGED <<queue, pool, held, got, hpc>>
      BY <2>1 DEF Read, ReadDeadline, TakeClosed, TakeDeadline
    <3> QED BY <1>0, <3>1, <3>2 DEF BufferInv, BuffersUnshared
  <2>2. CASE TakePacket(r)
    <3>1. queue \in Seq(Buffers) /\ queue # <<>>
      BY <2>2 DEF TakePacket, TypeOK, QueueTypes
    <3>2. /\ Len(queue') = Len(queue) - 1 /\ Len(queue) \in Nat \ {0}
          /\ \A i \in 1..Len(queue') : queue'[i] = queue[i + 1] /\ i + 1 \in 1..Len(queue)
          /\ Head(queue) = queue[1] /\ Head(queue) \in Buffers
      BY <2>2, <3>1 DEF TakePacket
    <3>3. Head(queue) # None
      BY <3>2, ReceiveFlowAssumption DEF ReceiveFlowAssumption
    <3>4. /\ rpc' = [rpc EXCEPT ![r] = "copy"] /\ got' = [got EXCEPT ![r] = Head(queue)]
          /\ got[r] = None /\ UNCHANGED <<pool, held, hpc>>
      BY <2>2 DEF TakePacket, BufferInv
    <3>5. BuffersUnshared'
      <4>1. \A i \in 1..Len(queue') :
              /\ queue'[i] \notin pool' /\ queue'[i] # Head(queue)
              /\ \A j \in 1..Len(queue') : queue'[i] = queue'[j] => i = j
        BY <3>2, <3>4 DEF BufferInv, BuffersUnshared
      <4>2. \A h \in Handlers : held[h] # None => held[h] # Head(queue)
        BY <3>2 DEF BufferInv, BuffersUnshared
      <4>3. \A h \in Handlers : held[h] # None =>
              \A i \in 1..Len(queue') : held[h] # queue'[i]
        BY <3>2 DEF BufferInv, BuffersUnshared
      <4>4. \A q \in Readers : got[q] # None =>
              got[q] # Head(queue) /\ \A i \in 1..Len(queue') : got[q] # queue'[i]
        BY <3>2 DEF BufferInv, BuffersUnshared
      <4>5. Head(queue) \notin pool
        BY <3>2 DEF BufferInv, BuffersUnshared
      <4>6. \A q \in Readers : got'[q] = IF q = r THEN Head(queue) ELSE got[q]
        BY <1>0, <3>4, Zenon
      <4>7. ASSUME NEW h \in Handlers, held[h] # None
            PROVE  /\ held[h] \notin pool /\ \A i \in 1..Len(queue') : held[h] # queue'[i]
                   /\ \A q \in Readers : held[h] # got'[q]
                   /\ \A g \in Handlers : held[g] = held[h] => g = h
        <5>1. /\ held[h] \notin pool /\ \A q \in Readers : held[h] # got[q]
              /\ \A g \in Handlers : held[g] = held[h] => g = h
          BY <4>7 DEF BufferInv, BuffersUnshared
        <5> QED BY <4>2, <4>3, <4>6, <4>7, <5>1, Zenon
      <4>8. ASSUME NEW q \in Readers, got'[q] # None
            PROVE  /\ got'[q] \notin pool /\ \A i \in 1..Len(queue') : got'[q] # queue'[i]
                   /\ \A s \in Readers : got'[s] = got'[q] => s = q
        <5>1. CASE q = r
          BY <4>1, <4>4, <4>5, <4>6, <5>1, <3>3, Zenon
        <5>2. CASE q # r
          <6>1. got'[q] = got[q] /\ got[q] # None
            BY <4>6, <4>8, <5>2, Zenon
          <6>2. got[q] \notin pool /\ \A s \in Readers : got[s] = got[q] => s = q
            BY <6>1 DEF BufferInv, BuffersUnshared
          <6> QED BY <4>4, <4>6, <6>1, <6>2, Zenon
        <5> QED BY <5>1, <5>2
      <4> QED BY <3>4, <4>1, <4>7, <4>8, Zenon DEF BuffersUnshared
    <3> QED BY <1>0, <3>3, <3>4, <3>5 DEF BufferInv
  <2>3. CASE CopyPacket(r)
    <3>1. /\ got[r] # None /\ got' = [got EXCEPT ![r] = None]
          /\ rpc' = [rpc EXCEPT ![r] = "idle"] /\ pool' = pool \cup {got[r]}
          /\ UNCHANGED <<queue, held, hpc>>
      BY <2>3 DEF CopyPacket, Return, BufferInv
    <3> QED BY <1>0, <3>1 DEF BufferInv, BuffersUnshared
  <2> QED BY <1>4, <2>1, <2>2, <2>3 DEF Reader, Select
<1>5. CASE \/ \E t \in {"zero", "past", "future"} : SetReadDeadline(t)
           \/ \E e \in 1..MaxDeadlines : Timer(e)
           \/ \E c \in Closers : Closer(c)
           \/ Evict \/ Adopt
  <2>1. UNCHANGED <<queue, pool, held, hpc, got, rpc>>
    BY <1>5 DEF SetReadDeadline, Timer, TimerFires, ExpireDeadline, Closer,
                CancelCtx, CloseBuffer, CloseStreams, Evict, Adopt
  <2> QED BY <2>1 DEF BufferInv, BuffersUnshared
<1> QED BY <1>1, <1>2, <1>3, <1>4, <1>5 DEF Next

-----------------------------------------------------------------------------
(* Close.                                                                   *)

LEMMA CloseStep ==
  ASSUME TypeOK, CloseInv, Next
  PROVE  CloseInv'
<1> USE DEF queueVars, streamVars, readerVars
<1>0. /\ DOMAIN res = Readers /\ DOMAIN cpc = Closers
      /\ bufClosed \in BOOLEAN /\ closed \in BOOLEAN /\ ctxDone \in BOOLEAN
      /\ streams \subseteq Streams
  BY DEF TypeOK, QueueTypes, StreamTypes, ReaderTypes
<1>1. ASSUME UNCHANGED <<bufClosed, closed, ctxDone, cpc, streams, cancelled>>,
             \A r \in Readers : res'[r] # "nil"
      PROVE  CloseInv'
  BY <1>1 DEF CloseInv, ClosedFlowStreamsCancelled, ClosedReadHasError
<1>2. ASSUME UNCHANGED <<bufClosed, closed, ctxDone, cpc, res>>,
             ClosedFlowStreamsCancelled'
      PROVE  CloseInv'
  BY <1>2 DEF CloseInv, ClosedReadHasError
<1>3. ASSUME NEW s \in Streams, Handler(s) PROVE CloseInv'
  <2>1. UNCHANGED <<bufClosed, closed, ctxDone, cpc, res>>
    BY <1>3 DEF Handler, LookUp, Register, Reject, ReadFrame, Fill, EndOfStream,
                PayloadError, Unregister
  <2>2. CASE Register(s) /\ MayRegister
    <3>1. \A c \in Closers : cpc'[c] # "done"
      BY <2>1, <2>2 DEF MayRegister, CloseInv
    <3> QED BY <1>2, <2>1, <3>1 DEF ClosedFlowStreamsCancelled
  <2>3. CASE Unregister(s)
    <3>1. streams' \subseteq streams /\ UNCHANGED <<cancelled, cpc>>
      BY <2>3 DEF Unregister
    <3> QED BY <1>2, <2>1, <3>1 DEF CloseInv, ClosedFlowStreamsCancelled
  <2>4. CASE Reject(s)
    <3>1. /\ \A u \in Streams : cancelled[u] # "none" => cancelled'[u] # "none"
          /\ UNCHANGED <<streams, cpc>>
      BY <2>4 DEF Reject, CancelRead
    <3> QED BY <1>0, <1>2, <2>1, <3>1 DEF CloseInv, ClosedFlowStreamsCancelled
  <2>5. CASE \/ LookUp(s) \/ (Register(s) /\ ~MayRegister) \/ ReadFrame(s)
             \/ EndOfStream(s) \/ PayloadError(s)
    <3>1. UNCHANGED <<streams, cancelled>>
      BY <2>5 DEF LookUp, Register, ReadFrame, Fill, EndOfStream, PayloadError
    <3> QED BY <1>2, <2>1, <3>1 DEF CloseInv, ClosedFlowStreamsCancelled
  <2> QED BY <1>3, <2>2, <2>3, <2>4, <2>5 DEF Handler
<1>4. CASE \/ \E d \in Datagrams : HandleDatagram(d)
           \/ \E h \in Handlers : Push(h)
           \/ \E t \in {"zero", "past", "future"} : SetReadDeadline(t)
           \/ \E e \in 1..MaxDeadlines : Timer(e)
           \/ Adopt
  <2>1. UNCHANGED <<bufClosed, closed, ctxDone, cpc, streams, cancelled, res>>
    BY <1>4 DEF HandleDatagram, Fill, Push, SetReadDeadline, Timer, TimerFires,
                ExpireDeadline, Adopt
  <2> QED BY <1>1, <2>1 DEF CloseInv, ClosedReadHasError
<1>5. ASSUME NEW r \in Readers, Reader(r) PROVE CloseInv'
  <2>1. UNCHANGED <<bufClosed, closed, ctxDone, cpc, streams, cancelled>>
    BY <1>5 DEF Reader, Select, Read, ReadDeadline, TakePacket, TakeClosed,
                TakeDeadline, CopyPacket
  <2>2. CASE TakeClosed(r)
    <3>1. ctxDone
      BY <2>2 DEF TakeClosed, Drained, CloseInv
    <3>2. res' = [res EXCEPT ![r] = "canceled"]
      BY <2>2, <3>1 DEF TakeClosed, Return
    <3> QED BY <1>0, <1>1, <2>1, <3>2 DEF CloseInv, ClosedReadHasError
  <2>3. CASE Read(r) \/ ReadDeadline(r) \/ TakePacket(r) \/ TakeDeadline(r) \/ CopyPacket(r)
    <3>1. \/ \E x \in {"none", "deadline", "packet", "short"} : res' = [res EXCEPT ![r] = x]
          \/ res' = res
      BY <2>3 DEF Read, ReadDeadline, TakePacket, TakeDeadline, CopyPacket, Return
    <3> QED BY <1>0, <1>1, <2>1, <3>1 DEF CloseInv, ClosedReadHasError
  <2> QED BY <1>5, <2>2, <2>3 DEF Reader, Select
<1>6. ASSUME NEW c \in Closers, Closer(c) PROVE CloseInv'
  <2>1. CASE CancelCtx(c)
    BY <1>0, <2>1 DEF CancelCtx, CloseInv, ClosedFlowStreamsCancelled, ClosedReadHasError
  <2>2. CASE CloseBuffer(c)
    <3>1. /\ closed' = TRUE /\ bufClosed' = TRUE
          /\ cpc[c] = "ctx" /\ cpc' = [cpc EXCEPT ![c] = "buffer"]
          /\ UNCHANGED <<ctxDone, streams, cancelled, res>>
      BY <1>0, <2>2 DEF CloseBuffer, CloseInv
    <3> QED BY <1>0, <3>1 DEF CloseInv, ClosedFlowStreamsCancelled, ClosedReadHasError
  <2>3. CASE CloseStreams(c)
    <3>1. /\ cpc[c] = "buffer" /\ cpc' = [cpc EXCEPT ![c] = "done"]
          /\ UNCHANGED <<bufClosed, closed, ctxDone, streams, res>>
      BY <2>3 DEF CloseStreams
    <3>2. ClosedFlowStreamsCancelled'
      BY <1>0, <2>3 DEF CloseStreams, CancelRead, ClosedFlowStreamsCancelled
    <3> QED BY <1>0, <3>1, <3>2 DEF CloseInv, ClosedReadHasError
  <2> QED BY <1>6, <2>1, <2>2, <2>3 DEF Closer
<1>7. CASE Evict
  <2>1. /\ \A u \in Streams : cancelled[u] # "none" => cancelled'[u] # "none"
        /\ UNCHANGED <<bufClosed, closed, ctxDone, cpc, res, streams>>
    BY <1>7 DEF Evict, CancelRead
  <2> QED BY <1>0, <1>2, <2>1 DEF CloseInv, ClosedFlowStreamsCancelled
<1> QED BY <1>3, <1>4, <1>5, <1>6, <1>7 DEF Next

-----------------------------------------------------------------------------
(* Deadlines.                                                               *)

LEMMA DeadlineStep ==
  ASSUME TypeOK, DeadlineInv, Next
  PROVE  DeadlineInv'
<1> USE DEF deadlineVars, readerVars
<1>0. /\ DOMAIN ch = Readers /\ DOMAIN due = Readers /\ DOMAIN rpc = Readers
      /\ epoch \in Nat /\ deadlineTimer \in Nat /\ deadlineExpired \in BOOLEAN
      /\ \A r \in Readers : ch[r] \in Nat /\ due[r] \in Nat
  BY ReceiveFlowAssumption
  DEF ReceiveFlowAssumption, TypeOK, DeadlineTypes, ReaderTypes
<1>1. CASE \/ \E s \in Streams : Handler(s)
           \/ \E d \in Datagrams : HandleDatagram(d)
           \/ \E h \in Handlers : Push(h)
           \/ \E c \in Closers : CancelCtx(c) \/ CloseStreams(c)
           \/ Evict \/ Adopt
  <2>1. UNCHANGED <<epoch, chClosed, deadlineExpired, deadlineTimer, armed, fired,
                    rpc, ch, due>>
    BY <1>1 DEF Handler, LookUp, Register, Reject, ReadFrame, Fill, EndOfStream,
                PayloadError, Unregister, HandleDatagram, Push, CancelCtx,
                CloseStreams, Evict, Adopt
  <2> QED BY <2>1 DEF DeadlineInv, ExpiredDeadlineBindsRead
<1>2. ASSUME NEW r \in Readers, Reader(r) PROVE DeadlineInv'
  <2>1. UNCHANGED <<epoch, chClosed, deadlineExpired, deadlineTimer, armed, fired>>
    BY <1>2 DEF Reader, Select, Read, ReadDeadline, TakePacket, TakeClosed,
                TakeDeadline, CopyPacket
  <2>2. CASE Read(r)
    <3>1. /\ rpc' = [rpc EXCEPT ![r] = "check"] /\ ch' = ch
          /\ due' = [due EXCEPT ![r] = IF deadlineExpired THEN epoch ELSE 0]
      BY <2>2 DEF Read
    <3> QED BY <1>0, <2>1, <3>1 DEF DeadlineInv, ExpiredDeadlineBindsRead
  <2>3. CASE ReadDeadline(r) /\ ~DeadlinePassed
    <3>1. /\ rpc' = [rpc EXCEPT ![r] = "select"] /\ ch' = [ch EXCEPT ![r] = epoch]
          /\ due' = due /\ ~deadlineExpired
      BY <2>3 DEF ReadDeadline, DeadlinePassed
    <3> QED BY <1>0, <2>1, <3>1 DEF DeadlineInv, ExpiredDeadlineBindsRead
  <2>4. CASE \/ ReadDeadline(r) /\ DeadlinePassed
             \/ TakeClosed(r) \/ TakeDeadline(r) \/ CopyPacket(r)
    <3>1. /\ \E to \in {"idle", "check"} : rpc' = [rpc EXCEPT ![r] = to]
          /\ UNCHANGED <<ch, due>>
      BY <2>4 DEF ReadDeadline, TakeClosed, TakeDeadline, CopyPacket, Return
    <3> QED BY <1>0, <2>1, <3>1 DEF DeadlineInv, ExpiredDeadlineBindsRead
  <2>5. CASE TakePacket(r)
    <3>1. /\ rpc[r] = "select" /\ rpc' = [rpc EXCEPT ![r] = "copy"]
          /\ UNCHANGED <<ch, due>>
      BY <2>5 DEF TakePacket
    <3> QED BY <1>0, <2>1, <3>1 DEF DeadlineInv, ExpiredDeadlineBindsRead
  <2> QED BY <1>2, <2>2, <2>3, <2>4, <2>5 DEF Reader, Select
<1>3. ASSUME NEW t \in {"zero", "past", "future"}, SetReadDeadline(t) PROVE DeadlineInv'
  <2>1. epoch' = epoch + 1 /\ UNCHANGED <<fired, rpc, ch, due>>
    BY <1>3 DEF SetReadDeadline
  <2>2. WakeReaders = chClosed \cup {epoch}
    BY <1>0 DEF WakeReaders, DeadlineInv
  <2>3. /\ deadlineTimer' \in {0, epoch'} /\ armed' \subseteq {deadlineTimer'}
    <3>1. StopTimer = {}
      BY DEF StopTimer, DeadlineInv
    <3>2. \/ deadlineTimer' = 0 /\ armed' = StopTimer
          \/ deadlineTimer' = epoch' /\ armed' = StopTimer \cup {epoch'}
      BY <1>3, Zenon DEF SetReadDeadline
    <3> QED BY <3>1, <3>2
  <2>4. \/ ~deadlineExpired' /\ chClosed' = chClosed \cup {epoch}
        \/ deadlineExpired' /\ chClosed' = chClosed \cup {epoch} \cup {epoch'}
    BY <1>3, <2>2, Zenon DEF SetReadDeadline
  <2>5. /\ \A e \in 0..MaxDeadlines : e < epoch' => e \in chClosed'
        /\ \A e \in chClosed' : e <= epoch'
        /\ chClosed \subseteq chClosed'
    <3>1. \/ chClosed' = chClosed \cup {epoch}
          \/ chClosed' = chClosed \cup {epoch} \cup {epoch'}
      BY <2>4, Zenon
    <3>2. \A e \in chClosed : e \in Nat /\ e <= epoch
      BY ReceiveFlowAssumption
      DEF ReceiveFlowAssumption, DeadlineInv, TypeOK, DeadlineTypes
    <3>3. \A e \in 0..MaxDeadlines : e < epoch => e \in chClosed
      BY DEF DeadlineInv
    <3>4. \A e \in 0..MaxDeadlines : e < epoch' => e \in chClosed'
      BY <1>0, <2>1, <3>1, <3>3, ReceiveFlowAssumption DEF ReceiveFlowAssumption
    <3> QED BY <1>0, <2>1, <3>1, <3>2, <3>4
  <2>6. deadlineExpired' <=> epoch' \in chClosed'
    <3>1. epoch' \notin chClosed \cup {epoch}
      BY <1>0, <2>1 DEF DeadlineInv
    <3> QED BY <2>4, <3>1, Zenon
  <2>7. \A e \in fired' : e <= epoch'
    BY <1>0, <2>1 DEF DeadlineInv, TypeOK, DeadlineTypes
  <2>8. /\ \A r \in Readers : ch'[r] <= epoch' /\ due'[r] <= epoch'
        /\ \A r \in Readers : due'[r] # 0 => due'[r] \in chClosed'
        /\ ExpiredDeadlineBindsRead'
    BY <1>0, <2>1, <2>5 DEF DeadlineInv, ExpiredDeadlineBindsRead
  <2>9. deadlineTimer' <= epoch'
    BY <1>0, <2>1, <2>3
  <2> QED BY <2>3, <2>5, <2>6, <2>7, <2>8, <2>9, Zenon DEF DeadlineInv
<1>4. ASSUME NEW e \in 1..MaxDeadlines, TimerFires(e) PROVE DeadlineInv'
  <2>1. /\ armed' = armed \ {e} /\ fired' = fired \cup {e} /\ e \in armed
        /\ UNCHANGED <<epoch, chClosed, deadlineExpired, deadlineTimer, rpc, ch, due>>
    BY <1>4 DEF TimerFires
  <2>2. e <= epoch
    BY <2>1 DEF DeadlineInv
  <2> QED BY <2>1, <2>2 DEF DeadlineInv, ExpiredDeadlineBindsRead
<1>5. ASSUME NEW e \in 1..MaxDeadlines, ExpireDeadline(e) PROVE DeadlineInv'
  <2>1. /\ fired' = fired \ {e} /\ UNCHANGED <<epoch, deadlineTimer, armed, rpc, ch, due>>
    BY <1>5 DEF ExpireDeadline
  <2>2. \/ e = epoch /\ deadlineExpired' /\ chClosed' = chClosed \cup {e}
        \/ UNCHANGED <<deadlineExpired, chClosed>>
    BY <1>5, Zenon DEF ExpireDeadline, Expires
  <2> QED BY <1>0, <2>1, <2>2 DEF DeadlineInv, ExpiredDeadlineBindsRead
<1>6. ASSUME NEW c \in Closers, CloseBuffer(c) PROVE DeadlineInv'
  <2>1. UNCHANGED <<epoch, chClosed, deadlineExpired, fired, rpc, ch, due>>
    BY <1>6 DEF CloseBuffer
  <2>2. \/ UNCHANGED <<deadlineTimer, armed>>
        \/ deadlineTimer' = 0 /\ armed' = StopTimer
    BY <1>6 DEF CloseBuffer
  <2>3. StopTimer = {}
    BY DEF StopTimer, DeadlineInv
  <2>4. deadlineTimer' <= epoch /\ armed' \subseteq {deadlineTimer'}
    <3>1. deadlineTimer <= epoch /\ armed \subseteq {deadlineTimer} /\ 0 <= epoch
      BY <1>0 DEF DeadlineInv
    <3> QED BY <2>2, <2>3, <3>1
  <2> QED BY <2>1, <2>4 DEF DeadlineInv, ExpiredDeadlineBindsRead
<1> QED BY <1>1, <1>2, <1>3, <1>4, <1>5, <1>6 DEF Next, Timer, Closer

-----------------------------------------------------------------------------
(* No action panics.                                                        *)

LEMMA PanicStep ==
  ASSUME IInv, Next
  PROVE  ~panicked'
<1> USE DEF IInv
<1>1. CASE \/ \E s \in Streams : Handler(s)
           \/ \E d \in Datagrams : HandleDatagram(d)
           \/ \E r \in Readers : Reader(r)
           \/ \E e \in 1..MaxDeadlines : TimerFires(e)
           \/ \E c \in Closers : CancelCtx(c) \/ CloseStreams(c)
           \/ Evict \/ Adopt
  <2>1. panicked' = panicked
    BY <1>1 DEF Handler, LookUp, Register, Reject, ReadFrame, Fill, EndOfStream,
                PayloadError, Unregister, HandleDatagram, Reader, Select, Read,
                ReadDeadline, TakePacket, TakeClosed, TakeDeadline, CopyPacket,
                TimerFires, CancelCtx, CloseStreams, Evict, Adopt
  <2> QED BY <2>1
<1>2. ASSUME NEW h \in Handlers, Push(h) PROVE ~panicked'
  BY <1>2, Zenon DEF Push, PushAccepts, CloseInv
<1>3. ASSUME NEW t \in {"zero", "past", "future"}, SetReadDeadline(t) PROVE ~panicked'
  BY <1>3, Zenon DEF SetReadDeadline, DeadlineInv
<1>4. ASSUME NEW e \in 1..MaxDeadlines, ExpireDeadline(e) PROVE ~panicked'
  BY <1>4, Zenon DEF ExpireDeadline, Expires, DeadlineInv
<1>5. ASSUME NEW c \in Closers, CloseBuffer(c) PROVE ~panicked'
  BY <1>5, Zenon DEF CloseBuffer, CloseInv
<1> QED BY <1>1, <1>2, <1>3, <1>4, <1>5 DEF Next, Timer, Closer

(* Stuttering keeps the invariant. *)
LEMMA StutterInv == IInv /\ UNCHANGED vars => IInv'
<1> SUFFICES ASSUME IInv, UNCHANGED vars PROVE IInv'
  OBVIOUS
<1> USE DEF vars, queueVars, streamVars, deadlineVars, poolVars, handlerVars, readerVars
<1>1. TypeOK'
  BY TypesKept DEF IInv, TypeOK
<1>2. BufferInv'
  BY ZenonT(60) DEF IInv, BufferInv, BuffersUnshared
<1>3. CloseInv'
  BY DEF IInv, CloseInv, ClosedFlowStreamsCancelled, ClosedReadHasError
<1>4. DeadlineInv'
  BY DEF IInv, DeadlineInv, ExpiredDeadlineBindsRead
<1> QED BY <1>1, <1>2, <1>3, <1>4 DEF IInv

(* The inductive invariant holds of every reachable state of the flow. *)
THEOREM Invariance == Spec => []IInv
<1>1. IInv /\ [Next]_vars => IInv'
  <2>1. IInv /\ Next => IInv'
    BY TypeStep, BufferStep, CloseStep, DeadlineStep, PanicStep DEF IInv
  <2> QED BY <2>1, StutterInv
<1> QED BY InitInv, <1>1, PTL DEF Spec

(* Every variable of receive_flow.go keeps its type, the queue its bound. *)
THEOREM TypeCorrect == Spec => []TypeOK
<1>1. IInv => TypeOK
  BY DEF IInv
<1> QED BY <1>1, Invariance, PTL

(* push, Close, SetReadDeadline and the timer callback never close a closed *)
(* channel or send on one.                                                  *)
THEOREM NeverPanics == Spec => []NoPanic
<1>1. IInv => NoPanic
  BY DEF IInv, NoPanic
<1> QED BY <1>1, Invariance, PTL

(* The pooled buffers behind push, Read and the handlers are never shared. *)
THEOREM NeverShares == Spec => []BuffersUnshared
<1>1. IInv => BuffersUnshared
  BY DEF IInv, BufferInv
<1> QED BY <1>1, Invariance, PTL

(* Read never waits on a deadline channel nobody will close. *)
THEOREM NeverLosesWakeup == Spec => []NoLostWakeup
<1>1. IInv => NoLostWakeup
  <2> SUFFICES ASSUME IInv, NEW r \in Readers, ch[r] # epoch PROVE ch[r] \in chClosed
    BY DEF NoLostWakeup
  <2>1. ch[r] \in 0..MaxDeadlines /\ ch[r] <= epoch /\ epoch \in 0..MaxDeadlines
    BY DEF IInv, TypeOK, ReaderTypes, DeadlineTypes, DeadlineInv
  <2>2. ch[r] < epoch
    BY <2>1, ReceiveFlowAssumption DEF ReceiveFlowAssumption
  <2> QED BY <2>1, <2>2 DEF IInv, DeadlineInv
<1> QED BY <1>1, Invariance, PTL

(* After SetReadDeadline's deadline has passed, Read hands out no packet. *)
THEOREM DeadlineBinds == Spec => []ExpiredDeadlineBindsRead
<1>1. IInv => ExpiredDeadlineBindsRead
  BY DEF IInv, DeadlineInv
<1> QED BY <1>1, Invariance, PTL

(* Close leaves no registered stream uncancelled, however it interleaves    *)
(* with readStream.                                                         *)
THEOREM CloseCancelsStreams == Spec => []ClosedFlowStreamsCancelled
<1>1. IInv => ClosedFlowStreamsCancelled
  BY DEF IInv, CloseInv
<1> QED BY <1>1, Invariance, PTL

(* A Read ended by Close reports an error. *)
THEOREM CloseReportsError == Spec => []ClosedReadHasError
<1>1. IInv => ClosedReadHasError
  BY DEF IInv, CloseInv
<1> QED BY <1>1, Invariance, PTL

(* SetReadDeadline and closeBuffer leave no timer behind they cannot stop. *)
THEOREM TimersStopped == Spec => []TimersStoppable
<1>1. IInv => TimersStoppable
  BY DEF IInv, DeadlineInv, TimersStoppable
<1> QED BY <1>1, Invariance, PTL

(* A timer callback that lost the race against SetReadDeadline is inert. *)
THEOREM StaleTimers == Spec => StaleTimerIsInert
<1> DEFINE Inert == \A e \in fired \ fired' :
                      e # epoch => UNCHANGED <<deadlineExpired, chClosed>>
<1>1. [Next]_vars => [Inert]_vars
  <2> SUFFICES ASSUME Next PROVE Inert
    OBVIOUS
  <2>1. CASE \/ \E s \in Streams : Handler(s)
             \/ \E d \in Datagrams : HandleDatagram(d)
             \/ \E h \in Handlers : Push(h)
             \/ \E r \in Readers : Reader(r)
             \/ \E t \in {"zero", "past", "future"} : SetReadDeadline(t)
             \/ \E c \in Closers : Closer(c)
             \/ Evict \/ Adopt
    <3>1. fired' = fired
      BY <2>1 DEF Handler, LookUp, Register, Reject, ReadFrame, Fill, EndOfStream,
                  PayloadError, Unregister, HandleDatagram, Push, Reader, Select,
                  Read, ReadDeadline, TakePacket, TakeClosed, TakeDeadline,
                  CopyPacket, SetReadDeadline, Closer, CancelCtx, CloseBuffer,
                  CloseStreams, Evict, Adopt, deadlineVars
    <3> QED BY <3>1
  <2>2. ASSUME NEW e \in 1..MaxDeadlines, TimerFires(e) PROVE Inert
    BY <2>2 DEF TimerFires
  <2>3. ASSUME NEW e \in 1..MaxDeadlines, ExpireDeadline(e) PROVE Inert
    BY <2>3, Zenon DEF ExpireDeadline, Expires
  <2> QED BY <2>1, <2>2, <2>3 DEF Next, Timer
<1> QED BY <1>1, PTL DEF Spec, StaleTimerIsInert

-----------------------------------------------------------------------------
(* A receive flow implements PacketQueue: under the refinement mapping of   *)
(* ReceiveFlow every step is a step of the abstract queue or a stutter.     *)
(* What makes it true is that a queued or copied buffer is not overwritten  *)
(* (BufferInv).                                                             *)
HIDE DEF Codes

(* What a handler is about to push is a packet. *)
ContentInv ==
  \A h \in Handlers : hpc[h] = "push" => content[held[h]] \in Handlers \X (1..MaxPackets)

(* Filling a fresh buffer changes no packet that is queued or in hand. *)
LEMMA FillContent ==
  ASSUME IInv, ContentInv, NEW h \in Handlers, hpc[h] # "push", Fill(h)
  PROVE  /\ ContentInv'
         /\ UNCHANGED <<QueuedPackets, CallState, PacketInHand, bufClosed, res, out>>
<1>1. PICK b \in Buffers : /\ Available(b)
                           /\ content' = [content EXCEPT ![b] = <<h, sent[h] + 1>>]
                           /\ held' = [held EXCEPT ![h] = b]
  BY DEF Fill
<1>2. /\ hpc' = [hpc EXCEPT ![h] = "push"] /\ sent[h] < MaxPackets
      /\ UNCHANGED <<queue, bufClosed, rpc, got, res, out>>
  BY DEF Fill, queueVars, readerVars
<1>3. /\ \A i \in 1..Len(queue) : queue[i] # b
      /\ \A g \in Handlers : held[g] # b
      /\ \A r \in Readers : got[r] # b
  BY <1>1, AvailableIsFree DEF IInv
<1>4. /\ DOMAIN held = Handlers /\ DOMAIN hpc = Handlers /\ DOMAIN content = Buffers
      /\ sent[h] \in 0..MaxPackets
  BY DEF IInv, TypeOK, HandlerTypes, PoolTypes
<1>5. ContentInv'
  <2>1. <<h, sent[h] + 1>> \in Handlers \X (1..MaxPackets)
    <3>1. sent[h] + 1 \in 1..MaxPackets
      BY <1>2, <1>4, ReceiveFlowAssumption DEF ReceiveFlowAssumption
    <3> QED BY <3>1, Zenon
  <2> SUFFICES ASSUME NEW g \in Handlers, hpc'[g] = "push"
               PROVE  content'[held'[g]] \in Handlers \X (1..MaxPackets)
    BY DEF ContentInv
  <2>2. CASE g = h
    <3>1. content'[held'[g]] = <<h, sent[h] + 1>>
      BY <1>1, <1>4, <2>2
    <3> QED BY <2>1, <3>1
  <2>3. CASE g # h
    <3>1. held'[g] = held[g] /\ hpc[g] = "push"
      BY <1>1, <1>2, <1>4, <2>3, Zenon
    <3>2. held[g] \in Buffers /\ held[g] # b
      BY <1>3, <3>1 DEF IInv, BufferInv, TypeOK, HandlerTypes
    <3>3. content'[held'[g]] = content[held[g]]
      BY <1>1, <1>4, <3>1, <3>2, Zenon
    <3> QED BY <3>1, <3>3 DEF ContentInv
  <2> QED BY <2>2, <2>3
<1>6. QueuedPackets' = QueuedPackets
  <2>1. \A i \in 1..Len(queue) : queue[i] \in Buffers /\ queue[i] # b
    <3>1. queue \in Seq(Buffers)
      BY Zenon DEF IInv, TypeOK, QueueTypes
    <3> QED BY <1>3, <3>1
  <2>2. \A i \in 1..Len(queue) : content'[queue[i]] = content[queue[i]]
    BY <1>1, <1>4, <2>1, Zenon
  <2> QED BY <1>2, <2>2, Zenon DEF QueuedPackets
<1>7. PacketInHand' = PacketInHand
  <2>1. \A r \in Readers : rpc[r] = "copy" => got[r] \in Buffers /\ got[r] # b
    <3>1. \A r \in Readers : rpc[r] = "copy" => got[r] # None
      BY Zenon DEF IInv, BufferInv
    <3>2. \A r \in Readers : got[r] \in Buffers \cup {None}
      BY Zenon DEF IInv, TypeOK, ReaderTypes
    <3> QED BY <1>3, <3>1, <3>2, Zenon
  <2>2. \A r \in Readers : rpc[r] = "copy" => content'[got[r]] = content[got[r]]
    BY <1>1, <1>4, <2>1, Zenon
  <2> QED BY <1>2, <2>2, Zenon DEF PacketInHand
<1>8. CallState' = CallState
  BY <1>2 DEF CallState
<1> QED BY <1>2, <1>5, <1>6, <1>7, <1>8

(* Every step keeps ContentInv: only Fill puts a buffer into a hand. *)
LEMMA ContentStep ==
  ASSUME IInv, ContentInv, Next
  PROVE  ContentInv'
<1> USE DEF poolVars, handlerVars
<1>0. DOMAIN held = Handlers /\ DOMAIN hpc = Handlers
  BY DEF IInv, TypeOK, HandlerTypes
<1>1. ASSUME NEW s \in Streams, Handler(s) PROVE ContentInv'
  <2>1. CASE ReadFrame(s)
    <3>1. hpc[s] # "push" /\ Fill(s) /\ s \in Handlers
      BY <2>1 DEF ReadFrame
    <3> QED BY <3>1, FillContent, Zenon
  <2>2. CASE \/ LookUp(s) \/ Register(s) \/ Reject(s) \/ EndOfStream(s)
             \/ PayloadError(s) \/ Unregister(s)
    <3>1. /\ \E to \in {"found", "reject", "reading", "done", "exit"} :
               hpc' = [hpc EXCEPT ![s] = to]
          /\ UNCHANGED <<content, held>>
      BY <2>2 DEF LookUp, Register, Reject, EndOfStream, PayloadError, Unregister
    <3> QED BY <1>0, <3>1 DEF ContentInv
  <2> QED BY <1>1, <2>1, <2>2 DEF Handler
<1>2. ASSUME NEW d \in Datagrams, HandleDatagram(d) PROVE ContentInv'
  <2>1. hpc[d] # "push" /\ Fill(d) /\ d \in Handlers
    BY <1>2 DEF HandleDatagram
  <2> QED BY <2>1, FillContent, Zenon
<1>3. ASSUME NEW h \in Handlers, Push(h) PROVE ContentInv'
  <2>1. /\ \E to \in {"reading", "idle"} : hpc' = [hpc EXCEPT ![h] = to]
        /\ held' = [held EXCEPT ![h] = None]
        /\ content' = content
    BY <1>3 DEF Push
  <2> QED BY <1>0, <2>1 DEF ContentInv
<1>4. CASE \/ \E r \in Readers : Reader(r)
           \/ \E t \in {"zero", "past", "future"} : SetReadDeadline(t)
           \/ \E e \in 1..MaxDeadlines : Timer(e)
           \/ \E c \in Closers : Closer(c)
           \/ Evict \/ Adopt
  <2>1. UNCHANGED <<hpc, held, content>>
    BY <1>4 DEF Reader, Select, Read, ReadDeadline, TakePacket, TakeClosed,
                TakeDeadline, CopyPacket, SetReadDeadline, Timer, TimerFires,
                ExpireDeadline, Closer, CancelCtx, CloseBuffer, CloseStreams,
                Evict, Adopt
  <2> QED BY <2>1 DEF ContentInv
<1> QED BY <1>1, <1>2, <1>3, <1>4 DEF Next

(* The contents f of the buffers s. *)
PacketsOf(s, f) == [i \in 1..Len(s) |-> f[s[i]]]
AddsItsPacket(s, f, e) == PacketsOf(Append(s, e), f) = Append(PacketsOf(s, f), f[e])

(* The packets of a queue of buffers, when a buffer is added or taken. *)
LEMMA PacketsOfAppend ==
  ASSUME NEW S, NEW s \in Seq(S), NEW f, NEW e \in S
  PROVE  AddsItsPacket(s, f, e)
<1> DEFINE T == {f[x] : x \in S}
           p == [i \in 1..Len(s) |-> f[s[i]]]
<1>1. \A x \in S : f[x] \in T
  OBVIOUS
<1>2. \A i \in 1..Len(s) : s[i] \in S
  OBVIOUS
<1> HIDE DEF T
<1>3. p \in Seq(T) /\ Len(p) = Len(s) /\ f[e] \in T
  BY <1>1, <1>2
<1>4. /\ Append(s, e) \in Seq(S) /\ Len(Append(s, e)) = Len(s) + 1
      /\ Append(p, f[e]) \in Seq(T) /\ Len(Append(p, f[e])) = Len(s) + 1
  BY <1>3
<1>5. \A i \in 1..Len(s) + 1 : f[Append(s, e)[i]] = Append(p, f[e])[i]
  BY <1>3
<1> QED BY <1>4, <1>5 DEF PacketsOf, AddsItsPacket

(* The packets of the tail of the queue are the tail of its packets. *)
LEMMA PacketsOfTail ==
  ASSUME NEW S, NEW T, NEW s \in Seq(S), NEW f \in [S -> T], s # <<>>
  PROVE  /\ [i \in 1..Len(Tail(s)) |-> f[Tail(s)[i]]]
              = Tail([i \in 1..Len(s) |-> f[s[i]]])
         /\ f[Head(s)] = Head([i \in 1..Len(s) |-> f[s[i]]])
         /\ [i \in 1..Len(s) |-> f[s[i]]] # <<>>
<1> DEFINE p == [i \in 1..Len(s) |-> f[s[i]]]
<1>1. p \in Seq(T) /\ Len(p) = Len(s) /\ Len(s) \in Nat \ {0}
  OBVIOUS
<1>2. p # <<>> /\ f[Head(s)] = Head(p)
  BY <1>1
<1>3. /\ Tail(s) \in Seq(S) /\ Len(Tail(s)) = Len(s) - 1
      /\ Tail(p) \in Seq(T) /\ Len(Tail(p)) = Len(s) - 1
  BY <1>1, <1>2
<1>4. \A i \in 1..Len(s) - 1 : f[Tail(s)[i]] = Tail(p)[i]
  BY <1>1, <1>2
<1>5. [i \in 1..Len(Tail(s)) |-> f[Tail(s)[i]]] = Tail(p)
  BY <1>3, <1>4
<1> QED BY <1>2, <1>5

-----------------------------------------------------------------------------
(* Initial states map to initial states. *)
LEMMA RefinesInit == Init => PQ!PQInit
<1> SUFFICES ASSUME Init PROVE PQ!PQInit
  OBVIOUS
<1>1. QueuedPackets = <<>>
  BY DEF Init, QueuedPackets
<1>2. CallState = [r \in Readers |-> "idle"] /\ PacketInHand = [r \in Readers |-> None]
  BY DEF Init, CallState, PacketInHand
<1>3. bufClosed = FALSE /\ res = [r \in Readers |-> "none"] /\ out = [r \in Readers |-> None]
  BY DEF Init
<1> QED BY <1>1, <1>2, <1>3 DEF PQ!PQInit

(* Every step of the flow is a step of the queue or leaves it alone. *)
LEMMA RefinesNext ==
  ASSUME IInv, ContentInv, Next
  PROVE  [PQ!PQNext]_(PQ!pqVars)
<1> USE DEF queueVars, poolVars, handlerVars, readerVars
<1>0. /\ DOMAIN rpc = Readers /\ DOMAIN got = Readers
      /\ queue \in Seq(Buffers) /\ content \in [Buffers -> Packet \cup {None}]
  BY DEF IInv, TypeOK, QueueTypes, PoolTypes, ReaderTypes
<1>1. ASSUME UNCHANGED <<queue, content, bufClosed, rpc, got, res, out>>
      PROVE  UNCHANGED PQ!pqVars
  BY <1>1 DEF PQ!pqVars, QueuedPackets, CallState, PacketInHand
<1>2. ASSUME NEW h \in Handlers, hpc[h] # "push", Fill(h)
      PROVE  UNCHANGED PQ!pqVars
  <2>1. UNCHANGED <<QueuedPackets, CallState, PacketInHand, bufClosed, res, out>>
    BY <1>2, FillContent, Zenon
  <2> QED BY <2>1 DEF PQ!pqVars
<1>3. ASSUME NEW s \in Streams, Handler(s) PROVE UNCHANGED PQ!pqVars
  <2>1. CASE ReadFrame(s)
    <3>1. hpc[s] # "push" /\ Fill(s) /\ s \in Handlers
      BY <2>1 DEF ReadFrame
    <3> QED BY <3>1, <1>2, Zenon
  <2>2. CASE \/ LookUp(s) \/ Register(s) \/ Reject(s) \/ EndOfStream(s)
             \/ PayloadError(s) \/ Unregister(s)
    <3>1. UNCHANGED <<queue, content, bufClosed, rpc, got, res, out>>
      BY <2>2 DEF LookUp, Register, Reject, EndOfStream, PayloadError, Unregister
    <3> QED BY <3>1, <1>1, Zenon
  <2> QED BY <1>3, <2>1, <2>2 DEF Handler
<1>4. ASSUME NEW d \in Datagrams, HandleDatagram(d) PROVE UNCHANGED PQ!pqVars
  <2>1. hpc[d] # "push" /\ Fill(d) /\ d \in Handlers
    BY <1>4 DEF HandleDatagram
  <2> QED BY <2>1, <1>2, Zenon
<1>5. ASSUME NEW h \in Handlers, Push(h) PROVE [PQ!PQNext]_(PQ!pqVars)
  <2>1. UNCHANGED <<content, bufClosed, rpc, got, res, out>>
    BY <1>5 DEF Push
  <2>2. CASE PushAccepts
    <3>1. held[h] \in Buffers
      BY <1>5 DEF Push, IInv, BufferInv, TypeOK, HandlerTypes
    <3>2. queue' = Append(queue, held[h])
      BY <1>5, <2>2, Zenon DEF Push
    <3>3. QueuedPackets' = Append(QueuedPackets, content[held[h]])
      <4>1. AddsItsPacket(queue, content, held[h])
        BY <1>0, <3>1, PacketsOfAppend, Zenon
      <4> QED BY <2>1, <3>2, <4>1, Zenon DEF QueuedPackets, PacketsOf, AddsItsPacket
    <3>4. content[held[h]] \in Handlers \X (1..MaxPackets)
      BY <1>5 DEF Push, ContentInv
    <3>5. Len(QueuedPackets) < ReceiveBufferSize
      <4>1. Len(QueuedPackets) = Len(queue)
        BY <1>0 DEF QueuedPackets
      <4>2. Len(queue) < ReceiveBufferSize
        BY <2>2, Zenon DEF PushAccepts
      <4> QED BY <4>1, <4>2
    <3>6. ~bufClosed
      BY <2>2, Zenon DEF PushAccepts, IInv, CloseInv
    <3>7. UNCHANGED <<CallState, PacketInHand>>
      BY <2>1 DEF CallState, PacketInHand
    <3>8. PQ!Enqueue(content[held[h]])
      BY <2>1, <3>3, <3>5, <3>6, <3>7 DEF PQ!Enqueue
    <3> QED BY <3>4, <3>8 DEF PQ!PQNext
  <2>3. CASE ~PushAccepts
    <3>1. queue' = queue
      BY <1>5, <2>3, Zenon DEF Push
    <3> QED BY <1>1, <2>1, <3>1
  <2> QED BY <2>2, <2>3
<1>6. ASSUME NEW r \in Readers, Reader(r) PROVE [PQ!PQNext]_(PQ!pqVars)
  <2>0. UNCHANGED <<content, bufClosed>>
    BY <1>6 DEF Reader, Select, Read, ReadDeadline, TakePacket, TakeClosed,
                TakeDeadline, CopyPacket
  <2>1. CASE Read(r)
    <3>1. /\ rpc[r] = "idle" /\ rpc' = [rpc EXCEPT ![r] = "check"]
          /\ UNCHANGED <<queue, got>>
          /\ res' = [res EXCEPT ![r] = "none"] /\ out' = [out EXCEPT ![r] = None]
      BY <2>1 DEF Read
    <3>2. /\ CallState[r] = "idle" /\ CallState' = [CallState EXCEPT ![r] = "waiting"]
          /\ UNCHANGED <<QueuedPackets, PacketInHand>>
      BY <1>0, <2>0, <3>1 DEF CallState, QueuedPackets, PacketInHand
    <3>3. PQ!Call(r)
      BY <2>0, <3>1, <3>2 DEF PQ!Call
    <3> QED BY <3>3 DEF PQ!PQNext
  <2>2. CASE ReadDeadline(r) /\ DeadlinePassed
    <3>1. /\ rpc[r] = "check" /\ rpc' = [rpc EXCEPT ![r] = "idle"]
          /\ UNCHANGED <<queue, got, out>> /\ res' = [res EXCEPT ![r] = "deadline"]
      BY <2>2 DEF ReadDeadline, Return
    <3>2. /\ CallState[r] = "waiting" /\ CallState' = [CallState EXCEPT ![r] = "idle"]
          /\ UNCHANGED <<QueuedPackets, PacketInHand>>
      BY <1>0, <2>0, <3>1 DEF CallState, QueuedPackets, PacketInHand
    <3>3. PQ!Timeout(r)
      BY <2>0, <3>1, <3>2 DEF PQ!Timeout, PQ!GiveUp
    <3> QED BY <3>3 DEF PQ!PQNext
  <2>3. CASE (ReadDeadline(r) /\ ~DeadlinePassed) \/ TakeDeadline(r)
    <3>1. /\ rpc[r] \in {"check", "select"}
          /\ \E to \in {"check", "select"} : rpc' = [rpc EXCEPT ![r] = to]
          /\ UNCHANGED <<queue, got, res, out>>
      BY <2>3 DEF ReadDeadline, TakeDeadline
    <3>2. UNCHANGED <<CallState, QueuedPackets, PacketInHand>>
      BY <1>0, <2>0, <3>1 DEF CallState, QueuedPackets, PacketInHand
    <3> QED BY <2>0, <3>1, <3>2 DEF PQ!pqVars
  <2>4. CASE TakePacket(r)
    <3>1. /\ rpc[r] = "select" /\ rpc' = [rpc EXCEPT ![r] = "copy"] /\ queue # <<>>
          /\ queue' = Tail(queue) /\ got' = [got EXCEPT ![r] = Head(queue)]
          /\ UNCHANGED <<res, out>>
      BY <2>4 DEF TakePacket
    <3>2. /\ QueuedPackets # <<>> /\ QueuedPackets' = Tail(QueuedPackets)
          /\ content[Head(queue)] = Head(QueuedPackets)
      BY <1>0, <2>0, <3>1, PacketsOfTail DEF QueuedPackets
    <3>3. /\ CallState[r] = "waiting" /\ CallState' = [CallState EXCEPT ![r] = "copying"]
          /\ PacketInHand' = [PacketInHand EXCEPT ![r] = content[Head(queue)]]
      BY <1>0, <2>0, <3>1 DEF CallState, PacketInHand
    <3>4. PQ!Dequeue(r)
      BY <2>0, <3>1, <3>2, <3>3 DEF PQ!Dequeue
    <3> QED BY <3>4 DEF PQ!PQNext
  <2>5. CASE TakeClosed(r)
    <3>1. ctxDone /\ bufClosed /\ queue = <<>>
      BY <2>5 DEF TakeClosed, Drained, IInv, CloseInv
    <3>2. /\ rpc[r] = "select" /\ rpc' = [rpc EXCEPT ![r] = "idle"]
          /\ UNCHANGED <<queue, got, out>> /\ res' = [res EXCEPT ![r] = "canceled"]
      BY <2>5, <3>1 DEF TakeClosed, Return
    <3>3. /\ CallState[r] = "waiting" /\ CallState' = [CallState EXCEPT ![r] = "idle"]
          /\ UNCHANGED <<QueuedPackets, PacketInHand>>
      BY <1>0, <2>0, <3>2 DEF CallState, QueuedPackets, PacketInHand
    <3>4. QueuedPackets = <<>>
      BY <3>1 DEF QueuedPackets
    <3>5. PQ!EndOfFlow(r)
      BY <2>0, <3>1, <3>2, <3>3, <3>4 DEF PQ!EndOfFlow, PQ!GiveUp
    <3> QED BY <3>5 DEF PQ!PQNext
  <2>6. CASE CopyPacket(r)
    <3>1. /\ rpc[r] = "copy" /\ rpc' = [rpc EXCEPT ![r] = "idle"]
          /\ got' = [got EXCEPT ![r] = None] /\ queue' = queue
          /\ \/ res' = [res EXCEPT ![r] = "packet"] /\ out' = [out EXCEPT ![r] = content[got[r]]]
             \/ res' = [res EXCEPT ![r] = "short"] /\ out' = out
      BY <2>6 DEF CopyPacket, Return
    <3>2. /\ CallState[r] = "copying" /\ CallState' = [CallState EXCEPT ![r] = "idle"]
          /\ PacketInHand[r] = content[got[r]]
          /\ PacketInHand' = [PacketInHand EXCEPT ![r] = None]
          /\ QueuedPackets' = QueuedPackets
      BY <1>0, <2>0, <3>1 DEF CallState, QueuedPackets, PacketInHand
    <3>3. PQ!Deliver(r)
      BY <2>0, <3>1, <3>2 DEF PQ!Deliver
    <3> QED BY <3>3 DEF PQ!PQNext
  <2> QED BY <1>6, <2>1, <2>2, <2>3, <2>4, <2>5, <2>6 DEF Reader, Select
<1>7. ASSUME NEW c \in Closers, CloseBuffer(c) PROVE [PQ!PQNext]_(PQ!pqVars)
  <2>1. UNCHANGED <<queue, content, rpc, got, res, out>>
    BY <1>7 DEF CloseBuffer
  <2>2. UNCHANGED <<QueuedPackets, CallState, PacketInHand>>
    BY <2>1 DEF QueuedPackets, CallState, PacketInHand
  <2>3. CASE bufClosed' = bufClosed
    BY <1>1, <2>1, <2>3
  <2>4. CASE bufClosed' = TRUE
    <3>1. PQ!Shut
      BY <2>1, <2>2, <2>4 DEF PQ!Shut
    <3> QED BY <3>1 DEF PQ!PQNext
  <2> QED BY <1>7, <2>3, <2>4 DEF CloseBuffer
<1>8. CASE \/ \E t \in {"zero", "past", "future"} : SetReadDeadline(t)
           \/ \E e \in 1..MaxDeadlines : Timer(e)
           \/ \E c \in Closers : CancelCtx(c) \/ CloseStreams(c)
           \/ Evict \/ Adopt
  <2>1. UNCHANGED <<queue, content, bufClosed, rpc, got, res, out>>
    BY <1>8 DEF SetReadDeadline, Timer, TimerFires, ExpireDeadline, CancelCtx,
                CloseStreams, Evict, Adopt
  <2> QED BY <1>1, <2>1
<1> QED BY <1>3, <1>4, <1>5, <1>6, <1>7, <1>8 DEF Next, Closer

(* push, Read, Close and everything around them implement the bounded FIFO  *)
(* PacketQueue, for every number of goroutines and buffers.                 *)
THEOREM FlowImplementsPacketQueue == Spec => ImplementsPacketQueue
<1>1. Init => ContentInv
  BY DEF Init, ContentInv
<1>2. IInv /\ ContentInv /\ [Next]_vars => ContentInv'
  <2>1. ContentInv /\ UNCHANGED vars => ContentInv'
    BY DEF ContentInv, vars, handlerVars, poolVars
  <2> QED BY <2>1, ContentStep
<1>3. IInv /\ ContentInv /\ [Next]_vars => [PQ!PQNext]_(PQ!pqVars)
  <2>1. UNCHANGED vars => UNCHANGED PQ!pqVars
    BY DEF vars, queueVars, poolVars, readerVars, PQ!pqVars, QueuedPackets,
           CallState, PacketInHand
  <2> QED BY <2>1, RefinesNext
<1> QED BY Invariance, RefinesInit, <1>1, <1>2, <1>3, PTL
        DEF Spec, ImplementsPacketQueue, PQ!PQSpec
=============================================================================
