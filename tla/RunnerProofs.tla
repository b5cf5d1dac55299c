---------------------------- MODULE RunnerProofs ----------------------------
(***************************************************************************)
(* Proofs about the owner loop: commands are handled in the order in which *)
(* they arrived, whatever is held back.                                    *)
(*                                                                         *)
(* The inductive invariant has three parts: the types of the loop, those   *)
(* of the service, and Queues, which says of the two queues together that  *)
(* the commands in them are numbered in the order of their arrival, held   *)
(* ones first.  A step does one of five things to the queues (Quiet,       *)
(* Holding, Handling, Releasing, Sending), and each keeps them in order.   *)
(***************************************************************************)
EXTENDS Runner, SequenceTheorems, TLAPS

-----------------------------------------------------------------------------
(* The inductive invariant *)

LoopTypes ==
  /\ pc \in {"top", "release", "batch", "poll", "step", "act", "stall", "select",
             "stopped"}
  /\ left \in 0..Capacity
  /\ stalled \in [Clients -> {None} \cup 0..Stall] /\ full \subseteq Clients
  /\ pollDue \in BOOLEAN

ServiceTypes ==
  /\ clients \subseteq Clients /\ roomy \subseteq clients /\ pausing \in BOOLEAN
  /\ saving \subseteq Clients /\ late \subseteq saving /\ unmet \subseteq saving
  /\ task \in [Clients -> {"outside", "connecting", "open", "closing", "ended"}]
  /\ unsaved \in 0..2 /\ overdue \in BOOLEAN /\ failed \in BOOLEAN

QueueTypes ==
  /\ mailbox \in Seq(Mails) /\ Len(mailbox) <= Capacity
  /\ senders \in BOOLEAN /\ arrived \in 0..MaxCommands
  /\ held \in Seq(Mails) /\ \A i \in DOMAIN held : held[i].kind = "command"
  /\ handled \in 0..MaxCommands

\* Everything but a shutdown is sent by the task of a client.
Sent == \A i \in DOMAIN mailbox : mailbox[i].kind # "shutdown" => mailbox[i].client \in Clients

\* What is held, what is in the mailbox and the one against the other: commands
\* have the numbers of their arrival.
HeldOrdered ==
  /\ \A i \in DOMAIN held : held[i].number > handled
  /\ \A i, j \in DOMAIN held : i < j => held[i].number < held[j].number

MailOrdered ==
  /\ \A i \in DOMAIN mailbox : IsCommand(mailbox[i]) => mailbox[i].number > handled
  /\ \A i, j \in DOMAIN mailbox :
       IsCommand(mailbox[i]) /\ IsCommand(mailbox[j]) /\ i < j
         => mailbox[i].number < mailbox[j].number

HeldFirst ==
  \A i \in DOMAIN held, j \in DOMAIN mailbox :
    IsCommand(mailbox[j]) => held[i].number < mailbox[j].number

\* Nothing has a number that no command has been given.
Numbered ==
  /\ handled <= arrived
  /\ \A i \in DOMAIN held : held[i].number <= arrived
  /\ \A i \in DOMAIN mailbox : mailbox[i].number <= arrived

Queues == QueueTypes /\ Sent /\ HeldOrdered /\ MailOrdered /\ HeldFirst /\ Numbered

IInv == LoopTypes /\ ServiceTypes /\ Queues

-----------------------------------------------------------------------------
(* The queues *)

\* What a step does to them: nothing;
Quiet == UNCHANGED <<mailVars, held, handled>>

\* a command is held;
Holding ==
  /\ mailbox # <<>> /\ Head(mailbox).kind = "command"
  /\ mailbox' = Tail(mailbox) /\ held' = Append(held, Head(mailbox))
  /\ UNCHANGED <<senders, arrived, handled>>

\* the first mail is handled, which is no command that should have been held;
Handling ==
  /\ mailbox # <<>>
  /\ mailbox' = Tail(mailbox)
  /\ handled' = IF Head(mailbox).kind = "command" THEN Head(mailbox).number ELSE handled
  /\ Head(mailbox).kind = "command" => held = <<>>
  /\ UNCHANGED <<senders, arrived, held>>

\* the first held command is handled;
Releasing ==
  /\ held # <<>>
  /\ held' = Tail(held)
  /\ handled' = Head(held).number
  /\ UNCHANGED mailVars

\* mail arrives.
Sending(m) ==
  /\ Len(mailbox) < Capacity
  /\ mailbox' = Append(mailbox, m)
  /\ m.kind # "shutdown" => m.client \in Clients
  /\ \/ m.kind = "command" /\ m.number = arrived' /\ arrived' = arrived + 1
        /\ arrived < MaxCommands
     \/ m.kind # "command" /\ m.number = 0 /\ arrived' = arrived
  /\ UNCHANGED <<senders, held, handled>>

\* A sequence without its first element.
LEMMA TailOf ==
  ASSUME NEW S, NEW s \in Seq(S), s # <<>>
  PROVE  /\ Tail(s) \in Seq(S) /\ Len(Tail(s)) = Len(s) - 1
         /\ DOMAIN s = 1..Len(s) /\ Len(s) \in Nat
         /\ 1 \in DOMAIN s /\ Head(s) = s[1] /\ s[1] \in S
         /\ \A i \in DOMAIN Tail(s) :
              i \in Nat /\ i > 0 /\ i + 1 \in DOMAIN s /\ Tail(s)[i] = s[i + 1]
<1>1. /\ Tail(s) \in Seq(S) /\ Len(Tail(s)) = Len(s) - 1
      /\ \A i \in 1..Len(Tail(s)) : Tail(s)[i] = s[i + 1]
  BY HeadTailProperties
<1>2. Len(s) \in Nat /\ DOMAIN s = 1..Len(s) /\ Len(s) # 0
  BY LenProperties, EmptySeq
<1>3. DOMAIN Tail(s) = 1..Len(Tail(s))
  BY <1>1, LenProperties
<1>4. 1 \in DOMAIN s /\ Head(s) = s[1] /\ s[1] \in S
  BY <1>2, ElementOfSeq
<1>5. QED
  BY <1>1, <1>2, <1>3, <1>4

\* A sequence with one element more.
LEMMA WithLast ==
  ASSUME NEW S, NEW s \in Seq(S), NEW e \in S
  PROVE  /\ Append(s, e) \in Seq(S) /\ Len(Append(s, e)) = Len(s) + 1
         /\ Len(s) \in Nat /\ DOMAIN s \subseteq Nat
         /\ \A i \in DOMAIN Append(s, e) :
              \/ i \in DOMAIN s /\ Append(s, e)[i] = s[i] /\ i <= Len(s)
              \/ i = Len(s) + 1 /\ Append(s, e)[i] = e
<1>1. Append(s, e) \in Seq(S) /\ Len(Append(s, e)) = Len(s) + 1
  BY AppendProperties
<1>2. /\ \A i \in 1..Len(s) : Append(s, e)[i] = s[i]
      /\ Append(s, e)[Len(s) + 1] = e
  BY AppendProperties
<1>3. Len(s) \in Nat /\ DOMAIN s = 1..Len(s)
  BY LenProperties
<1>4. DOMAIN Append(s, e) = 1..(Len(s) + 1)
  BY <1>1, LenProperties
<1>5. QED
  BY <1>1, <1>2, <1>3, <1>4

LEMMA MailTypes ==
  ASSUME NEW m \in Mails
  PROVE  /\ m.kind \in Kinds /\ m.client \in Clients \cup {None}
         /\ m.number \in 0..MaxCommands /\ m.number \in Nat
  BY RunnerAssumption DEF Mails

\* The numbers of commands are numbers.
LEMMA QueueNumbers ==
  ASSUME QueueTypes
  PROVE  /\ \A i \in DOMAIN held : held[i] \in Mails /\ held[i].number \in Nat
         /\ \A i \in DOMAIN mailbox : mailbox[i] \in Mails /\ mailbox[i].number \in Nat
         /\ arrived \in Nat /\ handled \in Nat /\ Len(mailbox) \in Nat
<1>1. \A i \in DOMAIN held : held[i] \in Mails
  BY LenProperties, ElementOfSeq DEF QueueTypes
<1>2. \A i \in DOMAIN mailbox : mailbox[i] \in Mails
  BY LenProperties, ElementOfSeq DEF QueueTypes
<1>3. Len(mailbox) \in Nat
  BY LenProperties DEF QueueTypes
<1>4. QED
  BY <1>1, <1>2, <1>3, MailTypes, RunnerAssumption DEF QueueTypes

LEMMA HoldingKeeps ==
  ASSUME Queues, Holding PROVE Queues'
<1> DEFINE m == Head(mailbox)
<1>0. QueueTypes
  BY DEF Queues
<1>1. /\ Tail(mailbox) \in Seq(Mails) /\ Len(Tail(mailbox)) = Len(mailbox) - 1
      /\ 1 \in DOMAIN mailbox /\ m = mailbox[1] /\ m \in Mails
      /\ \A i \in DOMAIN Tail(mailbox) :
           i \in Nat /\ i > 0 /\ i + 1 \in DOMAIN mailbox /\ Tail(mailbox)[i] = mailbox[i + 1]
  BY <1>0, TailOf DEF QueueTypes, Holding
<1>2. /\ Append(held, m) \in Seq(Mails)
      /\ Len(held) \in Nat /\ DOMAIN held \subseteq Nat
      /\ \A i \in DOMAIN Append(held, m) :
           \/ i \in DOMAIN held /\ Append(held, m)[i] = held[i] /\ i <= Len(held)
           \/ i = Len(held) + 1 /\ Append(held, m)[i] = m
  <2>1. m \in Mails
    BY <1>1
  <2>2. QED
    BY <1>0, <2>1, WithLast DEF QueueTypes
<1>3. IsCommand(mailbox[1])
  BY <1>1 DEF Holding, IsCommand
<1>4. /\ \A i \in DOMAIN held : held[i].number \in Nat
      /\ \A i \in DOMAIN mailbox : mailbox[i].number \in Nat
      /\ Len(mailbox) \in Nat /\ handled \in Nat /\ arrived \in Nat
  BY <1>0, QueueNumbers
<1>5. /\ mailbox' = Tail(mailbox) /\ held' = Append(held, m)
      /\ senders' = senders /\ arrived' = arrived /\ handled' = handled
  BY DEF Holding
<1>6. QueueTypes'
  BY <1>0, <1>1, <1>2, <1>3, <1>4, <1>5, RunnerAssumption DEF QueueTypes, IsCommand
<1>7. Sent'
  BY <1>1, <1>5 DEF Queues, Sent
<1>8. HeldOrdered'
  <2>1. ASSUME NEW i \in DOMAIN Append(held, m) PROVE Append(held, m)[i].number > handled
    BY <1>1, <1>2, <1>3 DEF Queues, HeldOrdered, MailOrdered
  <2>2. ASSUME NEW i \in DOMAIN Append(held, m), NEW j \in DOMAIN Append(held, m), i < j
        PROVE  Append(held, m)[i].number < Append(held, m)[j].number
    <3>1. i \in DOMAIN held /\ Append(held, m)[i] = held[i]
      BY <1>2, <2>2
    <3>2. CASE j \in DOMAIN held /\ Append(held, m)[j] = held[j]
      BY <3>1, <3>2, <2>2 DEF Queues, HeldOrdered
    <3>3. CASE Append(held, m)[j] = m
      BY <3>1, <3>3, <1>1, <1>3 DEF Queues, HeldFirst
    <3>4. QED
      BY <1>2, <3>2, <3>3
  <2>3. QED
    BY <1>5, <2>1, <2>2 DEF HeldOrdered
<1>9. MailOrdered'
  BY <1>1, <1>5 DEF Queues, MailOrdered
<1>10. HeldFirst'
  <2>1. ASSUME NEW i \in DOMAIN Append(held, m), NEW j \in DOMAIN Tail(mailbox),
               IsCommand(Tail(mailbox)[j])
        PROVE  Append(held, m)[i].number < Tail(mailbox)[j].number
    <3>1. j + 1 \in DOMAIN mailbox /\ Tail(mailbox)[j] = mailbox[j + 1] /\ 1 < j + 1
      BY <1>1
    <3>2. CASE i \in DOMAIN held /\ Append(held, m)[i] = held[i]
      BY <2>1, <3>1, <3>2 DEF Queues, HeldFirst
    <3>3. CASE Append(held, m)[i] = m
      BY <2>1, <3>1, <3>3, <1>1, <1>3 DEF Queues, MailOrdered
    <3>4. QED
      BY <1>2, <3>2, <3>3
  <2>2. QED
    BY <1>5, <2>1 DEF HeldFirst
<1>11. Numbered'
  BY <1>1, <1>2, <1>5 DEF Queues, Numbered
<1>12. QED
  BY <1>6, <1>7, <1>8, <1>9, <1>10, <1>11 DEF Queues

LEMMA HandlingKeeps ==
  ASSUME Queues, Handling PROVE Queues'
<1>0. QueueTypes
  BY DEF Queues
<1>1. /\ Tail(mailbox) \in Seq(Mails) /\ Len(Tail(mailbox)) = Len(mailbox) - 1
      /\ 1 \in DOMAIN mailbox /\ Head(mailbox) = mailbox[1] /\ mailbox[1] \in Mails
      /\ \A i \in DOMAIN Tail(mailbox) :
           i \in Nat /\ i > 0 /\ i + 1 \in DOMAIN mailbox /\ Tail(mailbox)[i] = mailbox[i + 1]
  BY <1>0, TailOf DEF QueueTypes, Handling
<1>2. /\ \A i \in DOMAIN held : held[i].number \in Nat
      /\ \A i \in DOMAIN mailbox : mailbox[i].number \in Nat
      /\ Len(mailbox) \in Nat /\ handled \in Nat /\ arrived \in Nat
  BY <1>0, QueueNumbers
<1>3. /\ mailbox' = Tail(mailbox) /\ held' = held
      /\ senders' = senders /\ arrived' = arrived
  BY DEF Handling
<1>4. CASE mailbox[1].kind = "command"
  <2>1. handled' = mailbox[1].number /\ held = <<>> /\ IsCommand(mailbox[1])
    BY <1>1, <1>4 DEF Handling, IsCommand
  <2>2. DOMAIN held = {}
    BY <2>1
  <2>3. handled' \in 0..MaxCommands
    BY <1>1, <2>1, MailTypes
  <2>4. QueueTypes'
    BY <1>0, <1>1, <1>2, <1>3, <2>3, RunnerAssumption DEF QueueTypes
  <2>5. Sent' /\ HeldOrdered' /\ HeldFirst'
    BY <1>1, <1>3, <2>2 DEF Queues, Sent, HeldOrdered, HeldFirst
  <2>6. MailOrdered'
    BY <1>1, <1>3, <2>1 DEF Queues, MailOrdered
  <2>7. Numbered'
    BY <1>1, <1>3, <2>1, <2>2 DEF Queues, Numbered
  <2>8. QED
    BY <2>4, <2>5, <2>6, <2>7 DEF Queues
<1>5. CASE mailbox[1].kind # "command"
  <2>1. handled' = handled
    BY <1>1, <1>5 DEF Handling
  <2>2. QueueTypes'
    BY <1>0, <1>1, <1>2, <1>3, <2>1, RunnerAssumption DEF QueueTypes
  <2>3. Sent' /\ HeldOrdered' /\ HeldFirst' /\ MailOrdered' /\ Numbered'
    BY <1>1, <1>3, <2>1
    DEF Queues, Sent, HeldOrdered, HeldFirst, MailOrdered, Numbered
  <2>4. QED
    BY <2>2, <2>3 DEF Queues
<1>6. QED
  BY <1>4, <1>5

LEMMA ReleasingKeeps ==
  ASSUME Queues, Releasing PROVE Queues'
<1>0. QueueTypes
  BY DEF Queues
<1>1. /\ Tail(held) \in Seq(Mails)
      /\ 1 \in DOMAIN held /\ Head(held) = held[1] /\ held[1] \in Mails
      /\ \A i \in DOMAIN Tail(held) :
           i \in Nat /\ i > 0 /\ i + 1 \in DOMAIN held /\ Tail(held)[i] = held[i + 1]
  BY <1>0, TailOf DEF QueueTypes, Releasing
<1>2. /\ \A i \in DOMAIN held : held[i].number \in Nat
      /\ \A i \in DOMAIN mailbox : mailbox[i].number \in Nat
      /\ handled \in Nat /\ arrived \in Nat
  BY <1>0, QueueNumbers
<1>3. /\ held' = Tail(held) /\ mailbox' = mailbox /\ handled' = held[1].number
      /\ senders' = senders /\ arrived' = arrived
  BY <1>1 DEF Releasing, mailVars
<1>4. handled' \in 0..MaxCommands
  BY <1>1, <1>3, MailTypes
<1>5. QueueTypes'
  BY <1>0, <1>1, <1>3, <1>4 DEF QueueTypes
<1>6. Sent' /\ HeldFirst' /\ Numbered'
  BY <1>1, <1>3 DEF Queues, Sent, HeldFirst, Numbered
<1>7. HeldOrdered'
  <2>1. \A i \in DOMAIN Tail(held) : Tail(held)[i].number > held[1].number
    BY <1>1, <1>2 DEF Queues, HeldOrdered
  <2>2. QED
    BY <1>1, <1>3, <2>1 DEF Queues, HeldOrdered
<1>8. MailOrdered'
  <2>1. \A j \in DOMAIN mailbox : IsCommand(mailbox[j]) => mailbox[j].number > held[1].number
    BY <1>1, <1>2 DEF Queues, HeldFirst
  <2>2. QED
    BY <1>3, <2>1 DEF Queues, MailOrdered
<1>9. QED
  BY <1>5, <1>6, <1>7, <1>8 DEF Queues

LEMMA SendingKeeps ==
  ASSUME Queues, NEW m \in Mails, Sending(m) PROVE Queues'
<1>0. QueueTypes
  BY DEF Queues
<1>1. /\ Append(mailbox, m) \in Seq(Mails) /\ Len(Append(mailbox, m)) = Len(mailbox) + 1
      /\ Len(mailbox) \in Nat /\ DOMAIN mailbox \subseteq Nat
      /\ \A i \in DOMAIN Append(mailbox, m) :
           \/ i \in DOMAIN mailbox /\ Append(mailbox, m)[i] = mailbox[i] /\ i <= Len(mailbox)
           \/ i = Len(mailbox) + 1 /\ Append(mailbox, m)[i] = m
  BY <1>0, WithLast DEF QueueTypes
<1>2. /\ \A i \in DOMAIN held : held[i].number \in Nat
      /\ \A i \in DOMAIN mailbox : mailbox[i].number \in Nat
      /\ handled \in Nat /\ arrived \in Nat
  BY <1>0, QueueNumbers
<1>3. /\ mailbox' = Append(mailbox, m) /\ held' = held /\ handled' = handled
      /\ senders' = senders /\ Len(mailbox) < Capacity
  BY DEF Sending
<1>4. /\ arrived' \in 0..MaxCommands /\ arrived <= arrived' /\ m.number <= arrived'
      /\ IsCommand(m) => m.number = arrived + 1
      /\ m.number \in Nat
  BY <1>0, RunnerAssumption DEF Sending, IsCommand, QueueTypes
<1>5. QueueTypes'
  BY <1>0, <1>1, <1>3, <1>4, RunnerAssumption DEF QueueTypes
<1>6. Sent'
  BY <1>1, <1>3 DEF Queues, Sent, Sending
<1>7. HeldOrdered'
  BY <1>3 DEF Queues, HeldOrdered
<1>8. Numbered'
  <2>1. handled' <= arrived' /\ \A i \in DOMAIN held' : held'[i].number <= arrived'
    BY <1>2, <1>3, <1>4 DEF Queues, Numbered
  <2>2. \A i \in DOMAIN mailbox' : mailbox'[i].number <= arrived'
    BY <1>1, <1>2, <1>3, <1>4 DEF Queues, Numbered
  <2>3. QED
    BY <2>1, <2>2 DEF Numbered
<1>9. IsCommand(m) => /\ m.number > handled
                      /\ \A i \in DOMAIN held : held[i].number < m.number
                      /\ \A i \in DOMAIN mailbox : mailbox[i].number < m.number
  BY <1>2, <1>4 DEF Queues, Numbered
<1>10. HeldFirst'
  BY <1>1, <1>3, <1>9 DEF Queues, HeldFirst
<1>11. MailOrdered'
  <2>1. ASSUME NEW i \in DOMAIN Append(mailbox, m), IsCommand(Append(mailbox, m)[i])
        PROVE  Append(mailbox, m)[i].number > handled
    BY <1>1, <1>9, <2>1 DEF Queues, MailOrdered
  <2>2. ASSUME NEW i \in DOMAIN Append(mailbox, m), NEW j \in DOMAIN Append(mailbox, m),
               IsCommand(Append(mailbox, m)[i]), IsCommand(Append(mailbox, m)[j]), i < j
        PROVE  Append(mailbox, m)[i].number < Append(mailbox, m)[j].number
    <3>1. i \in DOMAIN mailbox /\ Append(mailbox, m)[i] = mailbox[i]
      BY <1>1, <2>2
    <3>2. CASE j \in DOMAIN mailbox /\ Append(mailbox, m)[j] = mailbox[j]
      BY <3>1, <3>2, <2>2 DEF Queues, MailOrdered
    <3>3. CASE Append(mailbox, m)[j] = m
      BY <3>1, <3>3, <1>9, <2>2
    <3>4. QED
      BY <1>1, <3>2, <3>3
  <2>3. QED
    BY <1>3, <2>1, <2>2 DEF MailOrdered
<1>12. QED
  BY <1>5, <1>6, <1>7, <1>8, <1>10, <1>11 DEF Queues

LEMMA QuietKeeps ==
  ASSUME Queues, Quiet PROVE Queues'
  BY DEF Quiet, mailVars, Queues, QueueTypes, Sent, HeldOrdered, MailOrdered, HeldFirst,
         Numbered

LEMMA DeliverQueues ==
  ASSUME Queues, NEW next, Deliver(next) PROVE Queues'
<1>1. Holding \/ Handling
  <2>1. CASE Holds(Head(mailbox))
    BY <2>1 DEF Deliver, Holding, Holds
  <2>2. CASE ~Holds(Head(mailbox)) /\ Head(mailbox).kind = "shutdown"
    BY <2>2 DEF Deliver, Handling
  <2>3. CASE ~Holds(Head(mailbox)) /\ Head(mailbox).kind # "shutdown"
    BY <2>3 DEF Deliver, Handling, Holds, Receive
  <2>4. QED
    BY <2>1, <2>2, <2>3
<1>2. QED
  BY <1>1, HoldingKeeps, HandlingKeeps

LEMMA MailsSent ==
  ASSUME NEW kind \in Kinds, NEW c \in Clients \cup {None}, NEW n \in 0..MaxCommands
  PROVE  /\ Mail(kind, c, n) \in Mails
         /\ Mail(kind, c, n).kind = kind /\ Mail(kind, c, n).client = c
         /\ Mail(kind, c, n).number = n
  BY DEF Mail, Mails

\* Every step keeps the queues in order.
LEMMA QueuesStep ==
  ASSUME Queues, [Next]_vars PROVE Queues'
<1>0. 0 \in 0..MaxCommands
  BY RunnerAssumption
<1>1. CASE UNCHANGED vars
  BY <1>1, QuietKeeps DEF vars, Quiet, mailVars, loopVars
<1>2. CASE Top
  BY <1>2, QuietKeeps DEF Top, Go, Quiet
<1>3. CASE Release
  <2>1. CASE held # <<>>
    <3>1. Head(held).kind = "command"
      BY <2>1, TailOf DEF Queues, QueueTypes
    <3>2. Releasing
      BY <1>3, <2>1, <3>1 DEF Release, Releasing, Receive
    <3>3. QED
      BY <3>2, ReleasingKeeps
  <2>2. CASE held = <<>>
    BY <1>3, <2>2, QuietKeeps DEF Release, Go, Quiet
  <2>3. QED
    BY <2>1, <2>2
<1>4. CASE Batch
  <2>1. CASE Deliver("batch")
    BY <2>1, DeliverQueues
  <2>2. CASE StopDisconnected
    BY <2>2, QuietKeeps DEF StopDisconnected, Quiet
  <2>3. CASE Go("poll")
    BY <2>3, QuietKeeps DEF Go, Quiet
  <2>4. QED
    BY <1>4, <2>1, <2>2, <2>3 DEF Batch
<1>5. CASE Poll
  BY <1>5, QuietKeeps DEF Poll, StopDisconnected, Quiet
<1>6. CASE StepPauses \/ StepActs \/ StallCheck
  BY <1>6, QuietKeeps DEF StepPauses, StepActs, StallCheck, Quiet
<1>7. CASE Select
  <2>1. CASE Deliver("top")
    BY <2>1, DeliverQueues
  <2>2. CASE StopDisconnected
    BY <2>2, QuietKeeps DEF StopDisconnected, Quiet
  <2>3. CASE Go("top")
    BY <2>3, QuietKeeps DEF Go, Quiet
  <2>4. QED
    BY <1>7, <2>1, <2>2, <2>3 DEF Select
<1>8. ASSUME NEW c \in Clients, Connect(c) \/ Request(c) \/ TaskEnds(c) \/ Drain(c)
      PROVE  Queues'
  <2>1. CASE Connect(c)
    <3> DEFINE m == Mail("connect", c, 0)
    <3>1. m \in Mails /\ m.kind = "connect" /\ m.client = c /\ m.number = 0
      BY <1>0, MailsSent DEF Kinds
    <3>2. Sending(m)
      BY <2>1, <3>1 DEF Connect, Post, Sending, loopVars
    <3>3. QED
      BY <3>1, <3>2, SendingKeeps
  <2>2. CASE Request(c)
    <3>1. CASE /\ arrived < MaxCommands /\ Post(Mail("command", c, arrived + 1))
               /\ arrived' = arrived + 1
      <4> DEFINE m == Mail("command", c, arrived + 1)
      <4>1. arrived + 1 \in 0..MaxCommands
        BY <3>1, RunnerAssumption DEF Queues, QueueTypes
      <4>2. m \in Mails /\ m.kind = "command" /\ m.client = c /\ m.number = arrived + 1
        BY <4>1, MailsSent DEF Kinds
      <4>3. Sending(m)
        BY <2>2, <3>1, <4>2 DEF Request, Post, Sending, loopVars
      <4>4. QED
        BY <4>2, <4>3, SendingKeeps
    <3>2. ASSUME NEW kind \in Requests, Post(Mail(kind, c, 0)), arrived' = arrived
          PROVE  Queues'
      <4> DEFINE m == Mail(kind, c, 0)
      <4>1. kind \in Kinds /\ kind # "command"
        BY RunnerAssumption DEF Kinds
      <4>2. m \in Mails /\ m.kind = kind /\ m.client = c /\ m.number = 0
        BY <1>0, <4>1, MailsSent
      <4>3. Sending(m)
        BY <2>2, <3>2, <4>1, <4>2 DEF Request, Post, Sending, loopVars
      <4>4. QED
        BY <4>2, <4>3, SendingKeeps
    <3>3. QED
      BY <2>2, <3>1, <3>2 DEF Request
  <2>3. CASE TaskEnds(c)
    <3> DEFINE m == Mail("disconnect", c, 0)
    <3>1. m \in Mails /\ m.kind = "disconnect" /\ m.client = c /\ m.number = 0
      BY <1>0, MailsSent DEF Kinds
    <3>2. Sending(m)
      BY <2>3, <3>1 DEF TaskEnds, Post, Sending, loopVars
    <3>3. QED
      BY <3>1, <3>2, SendingKeeps
  <2>4. CASE Drain(c)
    BY <2>4, QuietKeeps DEF Drain, Quiet, loopVars
  <2>5. QED
    BY <1>8, <2>1, <2>2, <2>3, <2>4
<1>9. CASE Shutdown
  <2> DEFINE m == Mail("shutdown", None, 0)
  <2>1. m \in Mails /\ m.kind = "shutdown" /\ m.number = 0
    BY <1>0, MailsSent DEF Kinds
  <2>2. Sending(m)
    BY <1>9, <2>1 DEF Shutdown, Post, Sending, loopVars
  <2>3. QED
    BY <2>1, <2>2, SendingKeeps
<1>10. CASE SendersGone
  BY <1>10 DEF SendersGone, loopVars, Queues, QueueTypes, Sent, HeldOrdered, MailOrdered,
               HeldFirst, Numbered
<1>11. CASE SaveCommits \/ SaveFails \/ SaveLate \/ Tick
  BY <1>11, QuietKeeps DEF SaveCommits, SaveFails, SaveLate, Tick, Quiet, loopVars
<1>12. QED
  BY <1>1, <1>2, <1>3, <1>4, <1>5, <1>6, <1>7, <1>8, <1>9, <1>10, <1>11 DEF Next, Loop

-----------------------------------------------------------------------------
(* The types of the loop and of the service *)

PCs == {"top", "release", "batch", "poll", "step", "act", "stall", "select", "stopped"}

LEMMA DeliverLoop ==
  ASSUME NEW next \in PCs, Deliver(next)
  PROVE  pc' \in PCs /\ full' = {} /\ UNCHANGED <<stalled, pollDue>>
  BY DEF Deliver, Stop, PCs

LEMMA SeenTypes ==
  ASSUME LoopTypes
  PROVE  Seen \in [Clients -> {None} \cup 0..Stall]
<1>1. ASSUME NEW c \in Clients, c \in full PROVE FirstSeen(c) \in 0..Stall
  BY RunnerAssumption DEF LoopTypes, FirstSeen, None
<1>2. QED
  BY <1>1 DEF Seen

LEMMA LoopStep ==
  ASSUME LoopTypes, ServiceTypes, [Next]_vars PROVE LoopTypes'
<1>0. /\ Capacity \in 0..Capacity /\ Stall \in Nat
      /\ \A c \in Clients : stalled[c] \in {None} \cup 0..Stall
      /\ [c \in Clients |-> None] \in [Clients -> {None} \cup 0..Stall]
  BY RunnerAssumption DEF LoopTypes
<1>1. CASE UNCHANGED vars
  BY <1>1 DEF vars, loopVars, LoopTypes
<1>2. CASE Top
  BY <1>2 DEF Top, Go, LoopTypes
<1>3. CASE Release
  BY <1>3 DEF Release, Go, LoopTypes
<1>4. CASE Batch
  <2>1. CASE left > 0 /\ Deliver("batch") /\ left' = OneFewer
    <3>1. pc' \in PCs /\ full' = {} /\ UNCHANGED <<stalled, pollDue>>
      BY <2>1, DeliverLoop DEF PCs
    <3>2. left' \in 0..Capacity
      BY <2>1, RunnerAssumption DEF OneFewer, LoopTypes
    <3>3. QED
      BY <3>1, <3>2 DEF PCs, LoopTypes
  <2>2. CASE StopDisconnected
    BY <2>2 DEF StopDisconnected, Stop, LoopTypes
  <2>3. CASE Go("poll") /\ left' = Capacity
    BY <2>3, <1>0 DEF Go, LoopTypes
  <2>4. QED
    BY <1>4, <2>1, <2>2, <2>3 DEF Batch
<1>5. CASE Poll
  BY <1>5 DEF Poll, StopDisconnected, Stop, LoopTypes
<1>6. CASE StepPauses
  BY <1>6, <1>0 DEF StepPauses, ClearClocks, LoopTypes
<1>7. CASE StepActs
  BY <1>7, <1>0 DEF StepActs, ClearClocks, LoopTypes, ServiceTypes, Lacking
<1>8. CASE StallCheck
  <2>1. Seen \in [Clients -> {None} \cup 0..Stall]
    BY SeenTypes
  <2>2. stalled' \in [Clients -> {None} \cup 0..Stall]
    BY <1>8, <2>1 DEF StallCheck
  <2>3. QED
    BY <1>8, <2>2 DEF StallCheck, LoopTypes
<1>9. CASE Select
  <2>1. CASE Deliver("top") /\ UNCHANGED left
    <3>1. pc' \in PCs /\ full' = {} /\ UNCHANGED <<stalled, pollDue>>
      BY <2>1, DeliverLoop DEF PCs
    <3>2. QED
      BY <2>1, <3>1 DEF PCs, LoopTypes
  <2>2. CASE StopDisconnected
    BY <2>2 DEF StopDisconnected, Stop, LoopTypes
  <2>3. CASE Go("top") /\ UNCHANGED left
    BY <2>3 DEF Go, LoopTypes
  <2>4. QED
    BY <1>9, <2>1, <2>2, <2>3 DEF Select
<1>10. ASSUME NEW c \in Clients, Connect(c) \/ Request(c) \/ TaskEnds(c) \/ Drain(c)
       PROVE  LoopTypes'
  BY <1>10 DEF Connect, Request, TaskEnds, Drain, loopVars, LoopTypes
<1>11. CASE Shutdown \/ SendersGone \/ SaveCommits \/ SaveFails \/ SaveLate
  BY <1>11 DEF Shutdown, SendersGone, SaveCommits, SaveFails, SaveLate, loopVars, LoopTypes
<1>12. CASE Tick
  <2>1. \A n \in {None} \cup 0..Stall : Older(n) \in {None} \cup 0..Stall
    BY <1>0 DEF Older, None
  <2>2. stalled' \in [Clients -> {None} \cup 0..Stall]
    BY <1>0, <1>12, <2>1 DEF Tick
  <2>3. QED
    BY <1>12, <2>2 DEF Tick, LoopTypes
<1>13. QED
  BY <1>1, <1>2, <1>3, <1>4, <1>5, <1>6, <1>7, <1>8, <1>9, <1>10, <1>11, <1>12
  DEF Next, Loop

\* The part of the types that closing connections changes, and the save's.
Connections ==
  /\ clients \subseteq Clients /\ roomy \subseteq clients /\ pausing \in BOOLEAN
  /\ task \in [Clients -> {"outside", "connecting", "open", "closing", "ended"}]

Waiting == saving \subseteq Clients /\ late \subseteq saving /\ unmet \subseteq saving

SaveTypes == unsaved \in 0..2 /\ overdue \in BOOLEAN /\ failed \in BOOLEAN

LEMMA TypesJoin == ServiceTypes <=> Connections /\ Waiting /\ SaveTypes
  BY DEF ServiceTypes, Connections, Waiting, SaveTypes

LEMMA TypesJoinNext == ServiceTypes' <=> Connections' /\ Waiting' /\ SaveTypes'
  BY DEF ServiceTypes, Connections, Waiting, SaveTypes

LEMMA CloseTypes ==
  ASSUME Connections, NEW gone, Close(gone)
  PROVE  /\ clients' = clients \ gone
         /\ task' \in [Clients -> {"outside", "connecting", "open", "closing", "ended"}]
  BY DEF Connections, Close

LEMMA DepartTypes ==
  ASSUME Connections, NEW gone, Depart(gone) PROVE Connections'
<1>1. PICK tight \in SUBSET (clients \ gone), cut \in SUBSET (clients \ gone) :
        /\ roomy' = roomy \ (tight \cup cut \cup gone)
        /\ Close(cut \cup gone)
        /\ PauseAfter(cut \cup gone)
  BY DEF Depart
<1>2. /\ clients' = clients \ (cut \cup gone)
      /\ task' \in [Clients -> {"outside", "connecting", "open", "closing", "ended"}]
  BY <1>1, CloseTypes
<1>3. pausing' \in BOOLEAN
  BY <1>1 DEF PauseAfter, Connections
<1>4. QED
  BY <1>1, <1>2, <1>3 DEF Connections

LEMMA PublishTypes ==
  ASSUME Connections, Publish PROVE Connections'
  BY DepartTypes DEF Publish

LEMMA StopTypes ==
  ASSUME Connections, Stop PROVE Connections'
<1>1. /\ clients' = clients \ clients
      /\ task' \in [Clients -> {"outside", "connecting", "open", "closing", "ended"}]
  BY CloseTypes DEF Stop
<1>2. pausing' \in BOOLEAN
  BY DEF Stop, PauseAfter, Connections
<1>3. QED
  BY <1>1, <1>2 DEF Stop, Connections

LEMMA SameConnections ==
  ASSUME Connections, UNCHANGED <<clients, roomy, pausing, task>> PROVE Connections'
  BY DEF Connections

LEMMA RecordTypes ==
  ASSUME SaveTypes, MayRecord PROVE unsaved' \in 0..2
  BY DEF SaveTypes, MayRecord

LEMMA ReceiveTypes ==
  ASSUME ServiceTypes, NEW m \in Mails, Receive(m), m.kind # "shutdown",
         m.kind = "connect" => m.client \in Clients
  PROVE  ServiceTypes'
<1>0. Connections /\ Waiting /\ SaveTypes
  BY TypesJoin
<1>1. CASE /\ m.kind = "connect"
           /\ \/ /\ clients' = clients \cup {m.client}
                 /\ roomy' = roomy \cup {m.client}
                 /\ task' = [task EXCEPT ![m.client] = "open"]
              \/ /\ task' = [task EXCEPT ![m.client] = "ended"]
                 /\ UNCHANGED <<clients, roomy>>
           /\ UNCHANGED <<pausing, saving, late, unmet, saveVars>>
  BY <1>1 DEF ServiceTypes, saveVars
<1>2. CASE /\ IF m.client \in clients THEN Publish /\ MayRecord
              ELSE UNCHANGED <<clients, roomy, pausing, task, unsaved>>
           /\ UNCHANGED <<saving, late, unmet, overdue, failed>>
  <2>1. Connections'
    BY <1>0, <1>2, PublishTypes, SameConnections
  <2>2. unsaved' \in 0..2
    BY <1>0, <1>2, RecordTypes DEF SaveTypes
  <2>3. QED
    BY <1>0, <1>2, <2>1, <2>2, TypesJoinNext DEF Waiting, SaveTypes
<1>3. CASE HandleSave(m.client)
  <2>1. Connections'
    BY <1>0, <1>3, PublishTypes, SameConnections DEF HandleSave
  <2>2. SaveTypes'
    BY <1>0, <1>3 DEF HandleSave, SaveTypes, saveVars
  <2>3. Waiting'
    BY <1>0, <1>3 DEF HandleSave, Waiting, Connections
  <2>4. QED
    BY <2>1, <2>2, <2>3, TypesJoinNext
<1>4. CASE /\ IF m.client \in clients THEN Depart({m.client})
              ELSE UNCHANGED <<clients, roomy, pausing, task>>
           /\ UNCHANGED <<saving, late, unmet, saveVars>>
  <2>1. Connections'
    BY <1>0, <1>4, DepartTypes, SameConnections
  <2>2. QED
    BY <1>0, <1>4, <2>1, TypesJoinNext DEF Waiting, SaveTypes, saveVars
<1>5. QED
  BY <1>1, <1>2, <1>3, <1>4 DEF Receive

LEMMA DeliverTypes ==
  ASSUME ServiceTypes, Queues, NEW next, Deliver(next) PROVE ServiceTypes'
<1>0. Connections /\ Waiting /\ SaveTypes
  BY TypesJoin
<1> DEFINE m == Head(mailbox)
<1>1. m \in Mails /\ (m.kind # "shutdown" => m.client \in Clients)
  <2>1. 1 \in DOMAIN mailbox /\ m = mailbox[1] /\ mailbox[1] \in Mails
    BY TailOf DEF Deliver, Queues, QueueTypes
  <2>2. QED
    BY <2>1 DEF Queues, Sent
<1>2. CASE Holds(m)
  BY <1>2 DEF Deliver, ServiceTypes, serviceVars, saveVars, Holds
<1>3. CASE ~Holds(m) /\ m.kind = "shutdown"
  <2>1. Stop /\ UNCHANGED <<saving, late, unmet, saveVars>>
    BY <1>3 DEF Deliver
  <2>2. Connections'
    BY <1>0, <2>1, StopTypes
  <2>3. QED
    BY <1>0, <2>1, <2>2, TypesJoinNext DEF Waiting, SaveTypes, saveVars
<1>4. CASE ~Holds(m) /\ m.kind # "shutdown"
  <2>1. Receive(m)
    BY <1>4 DEF Deliver
  <2>2. QED
    BY <1>1, <1>4, <2>1, ReceiveTypes
<1>5. QED
  BY <1>2, <1>3, <1>4

LEMMA StopDisconnectedTypes ==
  ASSUME ServiceTypes, StopDisconnected PROVE ServiceTypes'
<1>1. Connections /\ Waiting /\ SaveTypes
  BY TypesJoin
<1>2. Connections'
  BY <1>1, StopTypes DEF StopDisconnected
<1>3. QED
  BY <1>1, <1>2, TypesJoinNext DEF StopDisconnected, Waiting, SaveTypes, saveVars

LEMMA ServiceStep ==
  ASSUME ServiceTypes, Queues, [Next]_vars PROVE ServiceTypes'
<1>0. Connections /\ Waiting /\ SaveTypes
  BY TypesJoin
<1>1. CASE UNCHANGED vars
  BY <1>1 DEF vars, serviceVars, saveVars, ServiceTypes
<1>2. CASE Top
  BY <1>2 DEF Top, Go, serviceVars, saveVars, ServiceTypes
<1>3. CASE Release
  <2>1. CASE held # <<>>
    <3>1. Head(held) \in Mails /\ Head(held).kind = "command"
      BY <2>1, TailOf DEF Queues, QueueTypes
    <3>2. QED
      BY <1>3, <2>1, <3>1, ReceiveTypes DEF Release
  <2>2. CASE held = <<>>
    BY <1>3, <2>2 DEF Release, Go, serviceVars, saveVars, ServiceTypes
  <2>3. QED
    BY <2>1, <2>2
<1>4. CASE Batch
  <2>1. CASE Go("poll")
    BY <2>1 DEF Go, serviceVars, saveVars, ServiceTypes
  <2>2. QED
    BY <1>4, <2>1, DeliverTypes, StopDisconnectedTypes DEF Batch
<1>5. CASE Poll
  <2>1. CASE StopDisconnected
    BY <2>1, StopDisconnectedTypes
  <2>2. CASE PollSaves /\ UNCHANGED saveVars
    <3>1. Connections'
      BY <1>0, <2>2, PublishTypes DEF PollSaves
    <3>2. Waiting'
      BY <1>0, <2>2 DEF PollSaves, Waiting
    <3>3. QED
      BY <1>0, <2>2, <3>1, <3>2, TypesJoinNext DEF SaveTypes, saveVars
  <2>3. CASE UNCHANGED <<clients, roomy, pausing, saving, late, unmet, task, saveVars>>
    BY <2>3 DEF ServiceTypes, saveVars
  <2>4. QED
    BY <1>5, <2>1, <2>2, <2>3 DEF Poll
<1>6. CASE StepPauses
  <2>1. UNCHANGED <<saving, late, unmet, overdue, failed>>
    BY <1>6 DEF StepPauses
  <2>2. unsaved' \in 0..2
    BY <1>0, <1>6, RecordTypes DEF StepPauses, SaveTypes
  <2>3. Connections'
    <3>1. CASE UNCHANGED <<clients, roomy, pausing, task>>
      BY <1>0, <3>1, SameConnections
    <3>2. CASE Publish
      BY <1>0, <3>2, PublishTypes
    <3>3. ASSUME NEW tight, NEW cut, roomy' = roomy \ (tight \cup cut), Close(cut),
                 pausing' = FALSE
          PROVE  Connections'
      <4>1. /\ clients' = clients \ cut
            /\ task' \in [Clients -> {"outside", "connecting", "open", "closing", "ended"}]
        BY <1>0, <3>3, CloseTypes
      <4>2. QED
        BY <1>0, <3>3, <4>1 DEF Connections
    <3>4. QED
      BY <1>6, <3>1, <3>2, <3>3 DEF StepPauses
  <2>4. QED
    BY <1>0, <2>1, <2>2, <2>3, TypesJoinNext DEF Waiting, SaveTypes
<1>7. CASE StepActs
  <2>1. Connections'
    BY <1>0, <1>7, PublishTypes DEF StepActs
  <2>2. unsaved' \in 0..2
    BY <1>0, <1>7, RecordTypes DEF StepActs, SaveTypes
  <2>3. QED
    BY <1>0, <1>7, <2>1, <2>2, TypesJoinNext DEF StepActs, Waiting, SaveTypes
<1>8. CASE StallCheck
  <2>1. Connections'
    BY <1>0, <1>8, DepartTypes, SameConnections DEF StallCheck
  <2>2. QED
    BY <1>0, <1>8, <2>1, TypesJoinNext DEF StallCheck, Waiting, SaveTypes, saveVars
<1>9. CASE Select
  <2>1. CASE Go("top")
    BY <2>1 DEF Go, serviceVars, saveVars, ServiceTypes
  <2>2. QED
    BY <1>9, <2>1, DeliverTypes, StopDisconnectedTypes DEF Select
<1>10. ASSUME NEW c \in Clients, Connect(c) \/ Request(c) \/ TaskEnds(c) \/ Drain(c)
       PROVE  ServiceTypes'
  BY <1>10 DEF Connect, Request, TaskEnds, Drain, serviceVars, saveVars, ServiceTypes
<1>11. CASE Shutdown \/ SendersGone
  BY <1>11 DEF Shutdown, SendersGone, serviceVars, saveVars, ServiceTypes
<1>12. CASE SaveCommits
  <2>1. unsaved' \in {0, 1} /\ unmet' \subseteq saving /\ overdue' = FALSE
    BY <1>12 DEF SaveCommits, ServiceTypes
  <2>2. UNCHANGED <<clients, roomy, pausing, saving, late, task, failed>>
    BY <1>12 DEF SaveCommits
  <2>3. unsaved' \in 0..2
    BY <2>1
  <2>4. QED
    BY <2>1, <2>2, <2>3 DEF ServiceTypes
<1>13. CASE SaveFails \/ SaveLate \/ Tick
  BY <1>13 DEF SaveFails, SaveLate, Tick, serviceVars, saveVars, ServiceTypes
<1>14. QED
  BY <1>1, <1>2, <1>3, <1>4, <1>5, <1>6, <1>7, <1>8, <1>9, <1>10, <1>11, <1>12, <1>13
  DEF Next, Loop

-----------------------------------------------------------------------------
(* The theorems *)

LEMMA IInvInit == Init => IInv
<1> SUFFICES ASSUME Init PROVE IInv
  OBVIOUS
<1>1. <<>> \in Seq(Mails) /\ Len(<<>>) = 0 /\ DOMAIN <<>> = {}
  BY EmptySeq
<1>2. 0 \in 0..MaxCommands /\ Capacity \in 0..Capacity /\ 0 <= Capacity
  BY RunnerAssumption
<1>3. LoopTypes
  BY <1>2 DEF Init, LoopTypes
<1>4. ServiceTypes
  <2>1. task \in [Clients -> {"outside", "connecting", "open", "closing", "ended"}]
    BY DEF Init
  <2>2. unsaved \in 0..2
    BY DEF Init
  <2>3. QED
    BY <2>1, <2>2 DEF Init, ServiceTypes
<1>5. Queues
  BY <1>1, <1>2 DEF Init, Queues, QueueTypes, Sent, HeldOrdered, MailOrdered, HeldFirst,
                    Numbered
<1>6. QED
  BY <1>3, <1>4, <1>5 DEF IInv

LEMMA IInvStep == IInv /\ [Next]_vars => IInv'
  BY LoopStep, ServiceStep, QueuesStep DEF IInv

\* The order of the two queues makes that of what waits in them.
LEMMA OrderFollows == Queues => CommandsInOrder
<1> SUFFICES ASSUME Queues PROVE CommandsInOrder
  OBVIOUS
<1> DEFINE waiting == held \o mailbox
           commands == {i \in DOMAIN waiting : IsCommand(waiting[i])}
           H == Len(held)
<1>1. held \in Seq(Mails) /\ mailbox \in Seq(Mails)
  BY DEF Queues, QueueTypes
<1>2. H \in Nat /\ Len(mailbox) \in Nat /\ DOMAIN held = 1..H
      /\ DOMAIN mailbox = 1..Len(mailbox)
  BY <1>1, LenProperties
<1>3. /\ waiting \in Seq(Mails) /\ Len(waiting) = H + Len(mailbox)
      /\ \A i \in 1..H + Len(mailbox) :
           waiting[i] = IF i <= H THEN held[i] ELSE mailbox[i - H]
  BY <1>1, ConcatProperties
<1>4. DOMAIN waiting = 1..H + Len(mailbox)
  BY <1>3, LenProperties
<1>5. \A i \in DOMAIN waiting :
        \/ i \in DOMAIN held /\ waiting[i] = held[i] /\ i <= H
        \/ i - H \in DOMAIN mailbox /\ waiting[i] = mailbox[i - H] /\ i > H /\ i \in Int
  BY <1>2, <1>3, <1>4
<1> HIDE DEF waiting
<1>6. ASSUME NEW i \in commands PROVE waiting[i].number > handled
  <2>1. CASE i \in DOMAIN held /\ waiting[i] = held[i]
    BY <2>1 DEF Queues, HeldOrdered
  <2>2. CASE i - H \in DOMAIN mailbox /\ waiting[i] = mailbox[i - H]
    <3>1. IsCommand(mailbox[i - H])
      BY <1>6, <2>2
    <3>2. QED
      BY <2>2, <3>1 DEF Queues, MailOrdered
  <2>3. QED
    BY <1>5, <1>6, <2>1, <2>2
<1>7. ASSUME NEW i \in commands, NEW j \in commands, i < j
      PROVE  waiting[i].number < waiting[j].number
  <2>1. CASE j \in DOMAIN held /\ waiting[j] = held[j] /\ j <= H
    <3>1. i \in DOMAIN held /\ waiting[i] = held[i]
      BY <1>2, <1>5, <1>7, <2>1
    <3>2. QED
      BY <1>7, <2>1, <3>1 DEF Queues, HeldOrdered
  <2>2. CASE j - H \in DOMAIN mailbox /\ waiting[j] = mailbox[j - H] /\ j > H /\ j \in Int
    <3>1. IsCommand(mailbox[j - H])
      BY <2>2
    <3>2. CASE i \in DOMAIN held /\ waiting[i] = held[i]
      BY <2>2, <3>1, <3>2 DEF Queues, HeldFirst
    <3>3. CASE i - H \in DOMAIN mailbox /\ waiting[i] = mailbox[i - H] /\ i \in Int
      <4>1. IsCommand(mailbox[i - H])
        BY <1>7, <3>3
      <4>2. i - H < j - H
        BY <1>2, <1>7, <2>2, <3>3
      <4>3. QED
        BY <2>2, <3>1, <3>3, <4>1, <4>2 DEF Queues, MailOrdered
    <3>4. QED
      BY <1>5, <3>2, <3>3
  <2>3. QED
    BY <1>5, <2>1, <2>2
<1>8. QED
  BY <1>6, <1>7 DEF CommandsInOrder, waiting

\* The types, and the queues: what is held and what is in the mailbox are
\* numbered in the order of arrival, after what was handled (run, deliver and
\* holds in runner.rs).
THEOREM InvariantHolds == Spec => []IInv
  BY IInvInit, IInvStep, PTL DEF Spec

\* Every variable has its type.
THEOREM TypeCorrect == Spec => []TypeOK
<1>1. IInv => TypeOK
  BY DEF IInv, LoopTypes, ServiceTypes, Queues, QueueTypes, TypeOK
<1>2. QED
  BY <1>1, InvariantHolds, PTL

\* Commands are handled in the order of their arrival, for any number of
\* clients, any capacity of the mailbox and however often saving is overdue:
\* none overtakes a held one (holds).
THEOREM HandledInOrder == Spec => []CommandsInOrder
<1>1. IInv => CommandsInOrder
  BY OrderFollows DEF IInv
<1>2. QED
  BY <1>1, InvariantHolds, PTL
=============================================================================
