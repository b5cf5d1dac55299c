----------------------------- MODULE Outbound ------------------------------
(***************************************************************************)
(* Output to the clients (crates/server/src/outbound.rs), with the parts   *)
(* of transport.rs and session.rs that own its ends: the service thread    *)
(* sends, one task per connection writes to the socket, and every byte of  *)
(* a frame is leased from the connection's own budget and from the pool's  *)
(* from before it is queued until the socket no longer holds it.           *)
(*                                                                         *)
(* One action is one critical section of the pool's mutex, one operation   *)
(* of a connection's semaphore, or one of its queue.  A frame is its size. *)
(***************************************************************************)
EXTENDS Integers, Sequences, FiniteSets, SequencesExt, Functions

CONSTANTS
  Clients,         \* connections; an identity is never used again
  Slots,           \* QUEUE: what a connection's queue can hold
  FrameBytes,      \* OutboundLimits.frame_bytes
  ClientBytes,     \* OutboundLimits.client_bytes
  TotalBytes,      \* OutboundLimits.total_bytes
  MaxConnections,  \* MAX_CONNECTIONS
  Sizes            \* sizes of the logical frames the service may send

\* OutboundLimits::is_valid.
ASSUME LimitsAssumption ==
  /\ Slots \in Nat \ {0} /\ MaxConnections \in Nat \ {0}
  /\ FrameBytes \in Nat \ {0} /\ ClientBytes \in Nat /\ TotalBytes \in Nat
  /\ FrameBytes <= ClientBytes /\ ClientBytes <= TotalBytes
  /\ Sizes \subseteq Nat \ {0}
  /\ IsFiniteSet(Clients)

VARIABLES
  \* struct Accounting, under the mutex, and Allocation::used
  reserved, borrowed, leased,
  used,       \* bytes leased by each connection
  \* each connection
  sender,     \* the service's end: none yet, open, dropped
  receiver,   \* the task's end: open, closing (its queue is dropped), dropped
  allocated,  \* whether the Allocation exists
  permits,    \* free permits of its byte semaphore
  queue,      \* frames in the channel
  writing,    \* the frame the socket holds, 0 for none
  returning,  \* bytes of a dropped frame whose permits are not yet returned
  \* the service thread
  sending     \* the send in progress

vars == <<reserved, borrowed, leased, used, sender, receiver, allocated,
          permits, queue, writing, returning, sending>>

pool == <<reserved, borrowed, leased, used>>

NoSend == [stage |-> "none", client |-> "none", bytes |-> 0]

SumOver(f) == FoldFunction(+, 0, f)
Queued(c) == FoldSeq(+, 0, queue[c])

\* What a connection has leased beyond its guarantee.
Excess(n) == IF n > FrameBytes THEN n - FrameBytes ELSE 0

ConnectionLimit ==
  LET fit == TotalBytes \div FrameBytes
  IN  IF fit < MaxConnections THEN fit ELSE MaxConnections

-----------------------------------------------------------------------------
(* channel: a connection reserves one maximum frame for its lifetime *)

\* (Mutant: what others have borrowed is overlooked.)
RoomBesideReserved == FrameBytes <= TotalBytes - reserved

RoomToConnect == FrameBytes <= TotalBytes - reserved - borrowed

Connect(c) ==
  /\ sender[c] = "none"
  /\ sending = NoSend
  /\ Cardinality({d \in Clients : sender[d] = "open"}) < ConnectionLimit
  /\ reserved \div FrameBytes < ConnectionLimit
  /\ RoomToConnect
  /\ reserved' = reserved + FrameBytes
  /\ sender' = [sender EXCEPT ![c] = "open"]
  /\ receiver' = [receiver EXCEPT ![c] = "open"]
  /\ allocated' = [allocated EXCEPT ![c] = TRUE]
  /\ permits' = [permits EXCEPT ![c] = ClientBytes]
  /\ UNCHANGED <<borrowed, leased, used, queue, writing, returning, sending>>

-----------------------------------------------------------------------------
(* try_send: a slot, then the connection's bytes, then the pool's *)

\* (Mutant: the close is signalled, and the client stays in the table.)
KeepClient(c) == UNCHANGED sender

\* The close is signalled and the service's end is dropped.
Detach(c) == sender' = [sender EXCEPT ![c] = "dropped"]

SlotFree(c) == receiver[c] = "open" /\ Len(queue[c]) < Slots

SendAcquire(c, n) ==
  /\ sender[c] = "open" /\ sending = NoSend
  /\ SlotFree(c)
  /\ n <= permits[c]
  /\ permits' = [permits EXCEPT ![c] = @ - n]
  /\ sending' = [stage |-> "acquired", client |-> c, bytes |-> n]
  /\ UNCHANGED <<pool, sender, receiver, allocated, queue, writing, returning>>

\* No slot, a closed queue or too few bytes: the service disconnects it.
SendRejected(c, n) ==
  /\ sender[c] = "open" /\ sending = NoSend
  /\ ~SlotFree(c) \/ n > permits[c]
  /\ Detach(c)
  /\ UNCHANGED <<pool, receiver, allocated, permits, queue, writing, returning,
                 sending>>

Additional(c, n) == Excess(used[c] + n) - Excess(used[c])

\* Allocation::lease.
SendLease ==
  LET c == sending.client
      n == sending.bytes
  IN  /\ sending.stage = "acquired"
      /\ Additional(c, n) <= TotalBytes - reserved - borrowed
      /\ borrowed' = borrowed + Additional(c, n)
      /\ leased' = leased + n
      /\ used' = [used EXCEPT ![c] = @ + n]
      /\ sending' = [sending EXCEPT !.stage = "leased"]
      /\ UNCHANGED <<reserved, sender, receiver, allocated, permits, queue, writing,
                     returning>>

\* (Mutant: only the pool's error is reported.)
PermitsKept(c, n) == UNCHANGED permits

PermitsRefunded(c, n) == permits' = [permits EXCEPT ![c] = @ + n]

\* The pool is exhausted: the permits go back, and the service disconnects.
SendRefused ==
  LET c == sending.client
      n == sending.bytes
  IN  /\ sending.stage = "acquired"
      /\ Additional(c, n) > TotalBytes - reserved - borrowed
      /\ PermitsRefunded(c, n)
      /\ Detach(c)
      /\ sending' = NoSend
      /\ UNCHANGED <<pool, receiver, allocated, queue, writing, returning>>

\* The reserved slot is filled, whether or not the task still listens.
SendPush ==
  /\ sending.stage = "leased"
  /\ queue' = [queue EXCEPT ![sending.client] = Append(@, sending.bytes)]
  /\ sending' = NoSend
  /\ UNCHANGED <<pool, sender, receiver, allocated, permits, writing, returning>>

\* A mail, a stall or a shutdown makes the service drop the connection.
Disconnect(c) ==
  /\ sender[c] = "open" /\ sending = NoSend
  /\ Detach(c)
  /\ UNCHANGED <<pool, receiver, allocated, permits, queue, writing, returning,
                 sending>>

-----------------------------------------------------------------------------
(* The connection's task, and dropping frames *)

TakeFrame(c) ==
  /\ receiver[c] = "open"
  /\ writing[c] = 0 /\ returning[c] = 0
  /\ queue[c] # <<>>
  /\ writing' = [writing EXCEPT ![c] = Head(queue[c])]
  /\ queue' = [queue EXCEPT ![c] = Tail(@)]
  /\ UNCHANGED <<pool, sender, receiver, allocated, permits, returning, sending>>

\* (Mutant: all of a frame goes back, with what the guarantee covered.)
GivenBackWhole(c, n) == n

GivenBack(c, n) == Excess(used[c]) - Excess(used[c] - n)

\* FrameLease::drop; the permits follow.
DropLease(c, n) ==
  /\ borrowed' = borrowed - GivenBack(c, n)
  /\ leased' = leased - n
  /\ used' = [used EXCEPT ![c] = @ - n]
  /\ returning' = [returning EXCEPT ![c] = n]
  /\ UNCHANGED reserved

\* The frame is flushed; or the socket that held it is dropped.
Written(c) ==
  /\ writing[c] > 0 /\ returning[c] = 0
  /\ DropLease(c, writing[c])
  /\ writing' = [writing EXCEPT ![c] = 0]
  /\ UNCHANGED <<sender, receiver, allocated, permits, queue, sending>>

ReturnPermits(c) ==
  /\ returning[c] > 0
  /\ permits' = [permits EXCEPT ![c] = @ + returning[c]]
  /\ returning' = [returning EXCEPT ![c] = 0]
  /\ UNCHANGED <<pool, sender, receiver, allocated, queue, writing, sending>>

\* The task ends: the service detached it, the peer left, a write timed out.
TaskEnds(c) ==
  /\ receiver[c] = "open" /\ returning[c] = 0
  /\ receiver' = [receiver EXCEPT ![c] = "closing"]
  /\ UNCHANGED <<pool, sender, allocated, permits, queue, writing, returning,
                 sending>>

\* The closing receiver drops what is queued; what is pushed after that is
\* dropped with the channel, when the sender is gone too.
QueueDropped(c) ==
  \/ receiver[c] = "closing"
  \/ receiver[c] = "dropped" /\ sender[c] = "dropped"

DropQueued(c) ==
  /\ QueueDropped(c)
  /\ returning[c] = 0 /\ queue[c] # <<>>
  /\ DropLease(c, Head(queue[c]))
  /\ queue' = [queue EXCEPT ![c] = Tail(@)]
  /\ UNCHANGED <<sender, receiver, allocated, permits, writing, sending>>

ReceiverDropped(c) ==
  /\ receiver[c] = "closing" /\ returning[c] = 0 /\ queue[c] = <<>>
  /\ receiver' = [receiver EXCEPT ![c] = "dropped"]
  /\ UNCHANGED <<pool, sender, allocated, permits, queue, writing, returning,
                 sending>>

\* Allocation::drop, when neither end nor any frame refers to it.
Release(c) ==
  /\ allocated[c]
  /\ sender[c] = "dropped" /\ receiver[c] = "dropped"
  /\ queue[c] = <<>> /\ writing[c] = 0
  /\ reserved' = reserved - FrameBytes
  /\ allocated' = [allocated EXCEPT ![c] = FALSE]
  /\ UNCHANGED <<borrowed, leased, used, sender, receiver, permits, queue,
                 writing, returning, sending>>

-----------------------------------------------------------------------------
Init ==
  /\ reserved = 0 /\ borrowed = 0 /\ leased = 0
  /\ used = [c \in Clients |-> 0]
  /\ sender = [c \in Clients |-> "none"]
  /\ receiver = [c \in Clients |-> "none"]
  /\ allocated = [c \in Clients |-> FALSE]
  /\ permits = [c \in Clients |-> 0]
  /\ queue = [c \in Clients |-> <<>>]
  /\ writing = [c \in Clients |-> 0]
  /\ returning = [c \in Clients |-> 0]
  /\ sending = NoSend

SendStep == SendLease \/ SendRefused \/ SendPush

Task(c) ==
  \/ TakeFrame(c) \/ Written(c) \/ ReturnPermits(c) \/ DropQueued(c)
  \/ ReceiverDropped(c) \/ Release(c)

Next ==
  \/ \E c \in Clients : Connect(c) \/ Disconnect(c) \/ TaskEnds(c) \/ Task(c)
  \/ \E c \in Clients, n \in Sizes : SendAcquire(c, n) \/ SendRejected(c, n)
  \/ SendStep

Spec == Init /\ [][Next]_vars

\* A started send goes on; a write is flushed or times out; a detached task
\* ends, and the service hears of a task that has ended.
Fairness ==
  /\ WF_vars(SendStep)
  /\ \A c \in Clients :
       /\ WF_vars(Task(c))
       /\ WF_vars(sender[c] = "dropped" /\ TaskEnds(c))
       /\ SF_vars(receiver[c] # "open" /\ Disconnect(c))

FairSpec == Spec /\ Fairness

-----------------------------------------------------------------------------
(* Properties *)

\* The type invariant; a count below zero would be an overflow in the code.
TypeOK ==
  /\ reserved \in Nat /\ borrowed \in Nat /\ leased \in Nat
  /\ used \in [Clients -> Nat] /\ permits \in [Clients -> Nat]
  /\ sender \in [Clients -> {"none", "open", "dropped"}]
  /\ receiver \in [Clients -> {"none", "open", "closing", "dropped"}]
  /\ allocated \in [Clients -> BOOLEAN]
  /\ writing \in [Clients -> Nat] /\ returning \in [Clients -> Nat]
  /\ queue \in [Clients -> Seq(Sizes)] /\ \A c \in Clients : Len(queue[c]) <= Slots
  /\ sending \in {NoSend} \cup [stage : {"acquired", "leased"}, client : Clients,
                                bytes : Sizes]

InSend(c, stages) ==
  IF sending.client = c /\ sending.stage \in stages THEN sending.bytes ELSE 0

\* The counters say what is held, at every step of every thread: no byte is
\* lost or freed twice between the semaphore, the pool and the frames.
AccountingExact ==
  /\ reserved = FrameBytes * Cardinality({c \in Clients : allocated[c]})
  /\ borrowed = SumOver([c \in Clients |-> Excess(used[c])])
  /\ leased = SumOver(used)
  /\ \A c \in Clients :
       /\ used[c] = Queued(c) + writing[c] + InSend(c, {"leased"})
       /\ sender[c] # "none" =>
            ClientBytes = permits[c] + Queued(c) + writing[c] + returning[c]
                          + InSend(c, {"acquired", "leased"})

\* Whatever others have borrowed, every connection could still be given the
\* rest of its guaranteed frame, all of them at once ("Connections retain one
\* maximum-frame guarantee for their entire output lifetime").
GuaranteesBacked ==
  leased + SumOver([c \in Clients |->
                      IF allocated[c] /\ used[c] < FrameBytes
                        THEN FrameBytes - used[c] ELSE 0]) <= TotalBytes

\* A connection that ends at either side gives back everything it held.
EndedReleases ==
  \A c \in Clients :
    (sender[c] = "dropped" \/ receiver[c] = "closing") ~>
      (~allocated[c] /\ used[c] = 0 /\ permits[c] = ClientBytes)
=============================================================================
