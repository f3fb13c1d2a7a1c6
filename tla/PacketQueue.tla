------------------------------ MODULE PacketQueue ------------------------------
(***************************************************************************)
(* What a receive flow promises the application (the documentation of      *)
(* ReceiveFlow.Read and Close): a bounded first-in first-out queue.  Each  *)
(* accepted packet goes to at most one Read, whole and unaltered; a Read   *)
(* ends with a packet, a short buffer, a deadline, or - once the flow is   *)
(* closed and every packet accepted before that is gone - its end.         *)
(***************************************************************************)
EXTENDS Naturals, Sequences

CONSTANTS Packets, Readers, Capacity, NoPacket

VARIABLES
  q,       \* accepted packets nobody has taken yet
  open,    \* the flow is not closed
  call,    \* per reader: "idle", "waiting" or "copying"
  hand,    \* per reader: the packet taken, being copied
  answer,  \* per reader: how the last Read ended
  out      \* per reader: the packet the last Read delivered

pqVars == <<q, open, call, hand, answer, out>>

PQInit ==
  /\ q = <<>> /\ open = TRUE
  /\ call = [r \in Readers |-> "idle"]
  /\ hand = [r \in Readers |-> NoPacket]
  /\ answer = [r \in Readers |-> "none"]
  /\ out = [r \in Readers |-> NoPacket]

Enqueue(p) ==
  /\ open /\ Len(q) < Capacity
  /\ q' = Append(q, p)
  /\ UNCHANGED <<open, call, hand, answer, out>>

Shut ==
  /\ open' = FALSE
  /\ UNCHANGED <<q, call, hand, answer, out>>

Call(r) ==
  /\ call[r] = "idle"
  /\ call' = [call EXCEPT ![r] = "waiting"]
  /\ answer' = [answer EXCEPT ![r] = "none"]
  /\ out' = [out EXCEPT ![r] = NoPacket]
  /\ UNCHANGED <<q, open, hand>>

Dequeue(r) ==
  /\ call[r] = "waiting" /\ q # <<>>
  /\ call' = [call EXCEPT ![r] = "copying"]
  /\ hand' = [hand EXCEPT ![r] = Head(q)]
  /\ q' = Tail(q)
  /\ UNCHANGED <<open, answer, out>>

Deliver(r) ==
  /\ call[r] = "copying"
  /\ call' = [call EXCEPT ![r] = "idle"]
  /\ hand' = [hand EXCEPT ![r] = NoPacket]
  /\ \/ /\ answer' = [answer EXCEPT ![r] = "packet"]
        /\ out' = [out EXCEPT ![r] = hand[r]]
     \/ /\ answer' = [answer EXCEPT ![r] = "short"]
        /\ UNCHANGED out
  /\ UNCHANGED <<q, open>>

GiveUp(r, why) ==
  /\ call[r] = "waiting"
  /\ call' = [call EXCEPT ![r] = "idle"]
  /\ answer' = [answer EXCEPT ![r] = why]
  /\ UNCHANGED <<q, open, hand, out>>

EndOfFlow(r) == ~open /\ q = <<>> /\ GiveUp(r, "canceled")

Timeout(r) == GiveUp(r, "deadline")

PQNext ==
  \/ \E p \in Packets : Enqueue(p)
  \/ Shut
  \/ \E r \in Readers :
       Call(r) \/ Dequeue(r) \/ Deliver(r) \/ EndOfFlow(r) \/ Timeout(r)

PQSpec == PQInit /\ [][PQNext]_pqVars
=============================================================================
