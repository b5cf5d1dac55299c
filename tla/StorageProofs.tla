--------------------------- MODULE StorageProofs ---------------------------
(***************************************************************************)
(* Proofs about the save, in five parts. First what State says compared    *)
(* with what the file holds: the inductive invariant joins the types,      *)
(* where the worker stands while it holds a batch, and the order of the    *)
(* queue. Then the worker and those who wait for it: no wakeup is lost on  *)
(* the one condition variable they share, and a failure stops admission    *)
(* until a request forgives it. Then the bytes of the queue: pending_bytes *)
(* is always the size of what is queued or in flight, and passes the limit *)
(* only for an entry admitted alone.                                       *)
(*                                                                         *)
(* The fourth part is the proof that the save implements DurableLog. The   *)
(* refinement mapping reads the log in two places: the file up to the      *)
(* durable sequence, memory behind it. What has to be shown is that it     *)
(* does not matter where an entry is read, because the file and the queue  *)
(* agree on every sequence both hold. On the same invariant rests the last *)
(* part, about the file itself: at every moment it is one that load        *)
(* accepts, and a transaction that is tried again never meets a row or a   *)
(* checkpoint it conflicts with. Both need the order in which checkpoints  *)
(* are requested, and their counts, which are compared with the log of the *)
(* refinement.                                                             *)
(***************************************************************************)
EXTENDS Storage, Functions, FiniteSetTheorems, SequenceTheorems, WellFoundedInduction, TLAPS

-----------------------------------------------------------------------------
(* The parts of the inductive invariant *)

\* The worker holds a batch exactly from the drain to the end of the attempt.
Attempting == worker \in {"encoding", "committing", "committed", "failed"}

BatchHeld ==
  /\ Attempting => batch # <<>>
  /\ Open /\ ~Attempting => batch = <<>>

\* No entry is given a sequence above the limit, also by a producer that has
\* only begun.
WithinLimit ==
  /\ accepted <= MaxSequence
  /\ producer.stage # "none" => accepted < MaxSequence

\* The file holds exactly the sequences 0 to LastSequence, and at least what
\* State calls durable and what a flush has reported.
FileAhead ==
  /\ IsFiniteSet(journal) /\ IsFiniteSet(history)
  /\ LastSequence \in 0..MaxSequence
  /\ Sequences = 0..LastSequence
  /\ Open => durable <= LastSequence
  /\ worker = "committed" => Last(batch).sequence <= LastSequence
  /\ promised <= LastSequence

\* No thread is inside flush once the last handle is dropped or the process
\* has ended.
FlushersLeave ==
  closing \/ ~Open => \A f \in Flushers : flusher[f] = "idle"

ExitedClosing == worker = "exited" => closing

IInv ==
  /\ TypeOK /\ WithinLimit /\ BatchHeld
  /\ QueueInOrder
  /\ FileAhead
  /\ FlushersLeave /\ ExitedClosing

-----------------------------------------------------------------------------
(* Lemmas about the operators *)

\* The greatest element of an interval of sequences is its end.
LEMMA EndOfInterval ==
  ASSUME NEW S, NEW n \in Nat, S = 0..n
  PROVE  (CHOOSE m \in S : \A s \in S : s <= m) = n
<1>1. n \in S /\ \A s \in S : s <= n
  OBVIOUS
<1>2. \A m \in S : (\A s \in S : s <= m) => m = n
  BY <1>1
<1>3. QED
  BY <1>1, <1>2

\* The elements of a sequence form a finite set.
LEMMA FiniteElements ==
  ASSUME NEW S, NEW s \in Seq(S)
  PROVE  IsFiniteSet(ToSet(s))
<1>1. s \in [1..Len(s) -> ToSet(s)] /\ Len(s) \in Nat
  BY LenProperties DEF ToSet
<1>2. s \in Surjection(1..Len(s), ToSet(s))
  BY <1>1 DEF Surjection, ToSet
<1>3. IsFiniteSet(1..Len(s))
  BY <1>1, FS_Interval
<1>4. QED
  BY <1>2, <1>3, FS_Surjection

\* The constant records are of their types.
LEMMA ConstantTypes ==
  /\ NoCheckpoint \in Checkpoints
  /\ NoFailure \in Failures /\ Retryable \in Failures
  /\ \A s \in Nat : CheckpointCapacity(s) \in Failures
  /\ NoProducer \in Producers
  /\ Base \in Entries
BY ConstantsAssumption DEF NoCheckpoint, Checkpoints, NoFailure, Retryable,
   CheckpointCapacity, Failures, NoProducer, Producers, Base, Entries

\* A notification moves threads, and only from waiting.
LEMMA NotifyOneMoves ==
  ASSUME NEW fl \in [Flushers -> {"idle", "woken", "waiting"}], NotifyOne(fl)
  PROVE  /\ flusher' \in [Flushers -> {"idle", "woken", "waiting"}]
         /\ \/ worker' = worker
            \/ WorkerWaits /\ worker' = "running"
BY DEF NotifyOne, WorkerWaits

\* ... so it starts no worker that has ended.
LEMMA NotifyKeepsOpen ==
  ASSUME NEW fl, NotifyOne(fl)
  PROVE  Open' <=> Open
BY DEF NotifyOne, WorkerWaits, Open

\* The last entry of a non-empty sequence of entries.
LEMMA LastEntry ==
  ASSUME NEW s \in Seq(Entries), s # <<>>
  PROVE  /\ Len(s) \in Nat \ {0}
         /\ Last(s) = s[Len(s)]
         /\ Last(s) \in Entries
         /\ Last(s).sequence \in 0..MaxSequence
<1>1. Len(s) \in Nat \ {0}
  BY EmptySeq
<1>2. s[Len(s)] \in Entries
  BY <1>1, ElementOfSeq
<1>3. QED
  BY <1>1, <1>2 DEF Last, Entries

-----------------------------------------------------------------------------
(* Types *)

LEMMA InitTypes == Init => TypeOK /\ WithinLimit /\ BatchHeld
<1> SUFFICES ASSUME Init PROVE TypeOK /\ WithinLimit /\ BatchHeld
  OBVIOUS
<1>1. <<>> \in Seq(Entries)
  BY EmptySeq
<1>2. {Base} \subseteq Entries /\ {} \subseteq Entries
  BY ConstantTypes
<1>3. opens \in 0..MaxOpens
  BY ConstantsAssumption DEF Init
<1>4. TypeOK
  <2>1. pending \in Seq(Entries) /\ batch \in Seq(Entries)
    BY <1>1 DEF Init
  <2>2. /\ flusher \in [Flushers -> {"idle", "woken", "waiting"}]
        /\ target \in [Flushers -> Nat]
    BY DEF Init
  <2>3. journal \subseteq Entries /\ history \subseteq Entries
    BY <1>2 DEF Init
  <2>4. /\ checkpoint \in Checkpoints /\ taken \in Checkpoints /\ stored \in Checkpoints
        /\ failure \in Failures /\ outcome \in Failures /\ producer \in Producers
    BY ConstantTypes DEF Init
  <2>5. /\ requested \in Nat /\ accepted \in Nat /\ durable \in Nat /\ force \in Nat
        /\ age \in 0..2 /\ worker = "running" /\ records \in Nat /\ promised \in Nat
    BY SMT DEF Init
  <2>6. closing \in BOOLEAN
    BY Zenon DEF Init
  <2>7. QED
    BY <1>3, <2>1, <2>2, <2>3, <2>4, <2>5, <2>6 DEF TypeOK
<1>5. producer.stage = "none"
  BY DEF Init, NoProducer
<1>6. QED
  BY <1>4, <1>5, ConstantsAssumption DEF Init, WithinLimit, BatchHeld, Attempting

LEMMA PushTypes ==
  ASSUME IInv, Push
  PROVE  (TypeOK /\ WithinLimit /\ BatchHeld)'
<1> USE ConstantTypes, ConstantsAssumption
    DEF IInv, TypeOK, WithinLimit, BatchHeld, Attempting, Open, vars, stateVars,
        workerVars, gateVars, flushVars, diskVars
<1>1. ASSUME NEW kind \in {"record", "marker"}, NEW copied \in {0} \cup CopiedSizes,
             NEW admit \in BOOLEAN, PushBegin(kind, copied, admit)
      PROVE  (TypeOK /\ WithinLimit /\ BatchHeld)'
  BY <1>1 DEF PushBegin, SequenceLeft, Producers
<1>2. ASSUME NEW oversized \in BOOLEAN, PushPrepare(oversized)
      PROVE  (TypeOK /\ WithinLimit /\ BatchHeld)'
  <2>1. producer' \in Producers
    <3>1. Captured(oversized) \in Checkpoints
      BY DEF Captured, Checkpoints
    <3>2. CASE producer' = NoProducer
      BY <3>2
    <3> DEFINE wants == (producer.needs \/ producer.admit) /\ producer.kind = "record"
               kept == IF wants /\ producer.needs THEN Captured(oversized)
                       ELSE NoCheckpoint
    <3>3. CASE producer' = [stage |-> "prepared", kind |-> producer.kind,
                            copied |-> producer.copied, needs |-> FALSE,
                            admit |-> FALSE, captured |-> kept]
      <4>1. kept \in Checkpoints
        BY <3>1
      <4>2. producer.kind \in {"record", "marker"} /\ producer.copied \in {0} \cup CopiedSizes
        BY DEF Producers
      <4> HIDE DEF kept
      <4>3. QED
        BY <3>3, <4>1, <4>2 DEF Producers
    <3>4. QED
      BY <1>2, <3>2, <3>3 DEF PushPrepare, RefuseFailed, RefuseFull, MayJoin
  <2>2. /\ flusher' \in [Flushers -> {"idle", "woken", "waiting"}]
        /\ (worker' = worker \/ (WorkerWaits /\ worker' = "running"))
        /\ force' \in Nat
    <3>1. CASE RefuseFailed(producer)
      BY <3>1 DEF RefuseFailed
    <3>2. CASE RefuseFull(producer)
      <4>1. NotifyOne(flusher) /\ force' = accepted
        BY <3>2 DEF RefuseFull
      <4>2. QED
        BY <4>1, NotifyOneMoves
    <3>3. CASE UNCHANGED <<force, worker, flusher>>
      BY <3>3
    <3>4. QED
      BY <1>2, <3>1, <3>2, <3>3 DEF PushPrepare
  <2>3. producer.stage = "begun"
    BY <1>2 DEF PushPrepare
  <2>4. QED
    BY <1>2, <2>1, <2>2, <2>3 DEF PushPrepare, WorkerWaits
<1>3. ASSUME PushRefused PROVE (TypeOK /\ WithinLimit /\ BatchHeld)'
  BY <1>3, NotifyOneMoves DEF PushRefused, RefuseFailed, RefuseFull, WorkerWaits,
     NoProducer
<1>4. ASSUME PushAccept PROVE (TypeOK /\ WithinLimit /\ BatchHeld)'
  <2> DEFINE entry == [sequence |-> accepted + 1, kind |-> producer.kind,
                       copied |-> producer.copied, opening |-> opens]
  <2>1. accepted + 1 \in 0..MaxSequence
    BY <1>4 DEF PushAccept
  <2>2. entry \in Entries
    BY <2>1 DEF Entries, Producers
  <2>3. pending' \in Seq(Entries)
    BY <1>4, <2>2 DEF PushAccept
  <2>4. /\ flusher' \in [Flushers -> {"idle", "woken", "waiting"}]
        /\ (worker' = worker \/ (WorkerWaits /\ worker' = "running"))
    <3>1. NotifyOne(flusher)
      BY <1>4 DEF PushAccept
    <3>2. QED
      BY <3>1, NotifyOneMoves
  <2>5. checkpoint' \in Checkpoints /\ requested' \in Nat
    BY <1>4, <2>1 DEF PushAccept, Producers
  <2>6. producer'.stage = "none"
    BY <1>4 DEF PushAccept, NoProducer
  <2>7. records' \in Nat /\ accepted' = accepted + 1 /\ producer' \in Producers
    BY <1>4 DEF PushAccept
  <2>8. QED
    BY <1>4, <2>1, <2>3, <2>4, <2>5, <2>6, <2>7 DEF PushAccept, WorkerWaits
<1>5. QED
  BY <1>1, <1>2, <1>3, <1>4 DEF Push

LEMMA WorkerTypes ==
  ASSUME IInv, Worker
  PROVE  (TypeOK /\ WithinLimit /\ BatchHeld)'
<1> USE ConstantTypes
    DEF IInv, TypeOK, WithinLimit, BatchHeld, Attempting, Open, vars, stateVars,
        workerVars, gateVars, flushVars, diskVars
<1>1. ASSUME WorkerExit \/ WorkerWait \/ WorkerWaitTimeout \/ WorkerTimeout
      PROVE  (TypeOK /\ WithinLimit /\ BatchHeld)'
  BY <1>1 DEF WorkerExit, WorkerWait, WorkerWaitTimeout, WorkerTimeout
<1>2. ASSUME WorkerTake PROVE (TypeOK /\ WithinLimit /\ BatchHeld)'
  BY <1>2, EmptySeq DEF WorkerTake
<1>3. ASSUME EncodeCheckpoint PROVE (TypeOK /\ WithinLimit /\ BatchHeld)'
  BY <1>3 DEF EncodeCheckpoint, Checkpoints
<1>4. ASSUME CommitBatch PROVE (TypeOK /\ WithinLimit /\ BatchHeld)'
  <2>1. ToSet(batch) \subseteq Entries
    BY ElementOfSeq, LenProperties DEF ToSet
  <2>2. journal' \subseteq Entries /\ history' \subseteq Entries /\ stored' \in Checkpoints
    BY <1>4, <2>1 DEF CommitBatch, ApplyBatch, Appended, Covered
  <2>3. QED
    BY <1>4, <2>2 DEF CommitBatch
<1>5. ASSUME FinishCommitted PROVE (TypeOK /\ WithinLimit /\ BatchHeld)'
  <2>1. durable' \in Nat
    BY <1>5, LastEntry DEF FinishCommitted, DurableThrough
  <2>2. age' \in 0..2
    BY <1>5 DEF FinishCommitted
  <2>3. flusher' \in [Flushers -> {"idle", "woken", "waiting"}]
    BY <1>5 DEF FinishCommitted, NotifyAll
  <2>4. QED
    BY <1>5, <2>1, <2>2, <2>3, EmptySeq DEF FinishCommitted
<1>6. ASSUME FinishFailed PROVE (TypeOK /\ WithinLimit /\ BatchHeld)'
  <2>1. pending' \in Seq(Entries)
    BY <1>6, ConcatProperties DEF FinishFailed, Requeued
  <2>2. QED
    BY <1>6, <2>1, EmptySeq DEF FinishFailed
<1>7. ASSUME NotifyFailure PROVE (TypeOK /\ WithinLimit /\ BatchHeld)'
  BY <1>7 DEF NotifyFailure, NotifyAll
<1>8. QED
  BY <1>1, <1>2, <1>3, <1>4, <1>5, <1>6, <1>7 DEF Worker

LEMMA ForgottenTypes ==
  ASSUME ForgetMemory
  PROVE  /\ pending' \in Seq(Entries) /\ batch' = <<>> /\ batch' \in Seq(Entries)
         /\ checkpoint' \in Checkpoints /\ taken' \in Checkpoints
         /\ failure' \in Failures /\ outcome' \in Failures
         /\ closing' \in BOOLEAN /\ age' \in 0..2
         /\ producer' \in Producers /\ producer'.stage = "none"
         /\ flusher' \in [Flushers -> {"idle", "woken", "waiting"}]
         /\ target' \in [Flushers -> Nat]
<1>1. pending' \in Seq(Entries) /\ batch' = <<>> /\ batch' \in Seq(Entries)
  BY EmptySeq DEF ForgetMemory
<1>2. /\ checkpoint' \in Checkpoints /\ taken' \in Checkpoints
      /\ failure' \in Failures /\ outcome' \in Failures /\ producer' \in Producers
  BY ConstantTypes DEF ForgetMemory
<1>3. closing' \in BOOLEAN
  BY Zenon DEF ForgetMemory
<1>4. producer'.stage = "none" /\ age' \in 0..2
  BY DEF ForgetMemory, NoProducer
<1>5. /\ flusher' \in [Flushers -> {"idle", "woken", "waiting"}]
      /\ target' \in [Flushers -> Nat]
  BY DEF ForgetMemory
<1>6. QED
  BY <1>1, <1>2, <1>3, <1>4, <1>5

LEMMA OtherTypes ==
  ASSUME IInv,
         \/ Age \/ RequestFlush \/ SpuriousWake \/ Close \/ Crash \/ Reopen
         \/ \E f \in Flushers : Flush(f) \/ FlushCheck(f)
  PROVE  (TypeOK /\ WithinLimit /\ BatchHeld)'
<1> USE ConstantTypes
    DEF IInv, TypeOK, WithinLimit, BatchHeld, Attempting, Open, vars, stateVars,
        workerVars, gateVars, flushVars, diskVars
<1>1. ASSUME Age PROVE (TypeOK /\ WithinLimit /\ BatchHeld)'
  BY <1>1 DEF Age
<1>3. ASSUME RequestFlush PROVE (TypeOK /\ WithinLimit /\ BatchHeld)'
  <2>1. /\ flusher' \in [Flushers -> {"idle", "woken", "waiting"}]
        /\ (worker' = worker \/ (WorkerWaits /\ worker' = "running"))
    <3>1. \/ flusher' = flusher /\ worker' = worker
          \/ NotifyOne(flusher)
      BY <1>3 DEF RequestFlush, RequestFlushThen
    <3>2. QED
      BY <3>1, NotifyOneMoves
  <2>2. failure' \in Failures
    BY <1>3 DEF RequestFlush, RequestFlushThen
  <2>3. QED
    BY <1>3, <2>1, <2>2 DEF RequestFlush, RequestFlushThen, WorkerWaits
<1>4. ASSUME NEW f \in Flushers, Flush(f)
      PROVE  (TypeOK /\ WithinLimit /\ BatchHeld)'
  <2>1. /\ flusher' \in [Flushers -> {"idle", "woken", "waiting"}]
        /\ (worker' = worker \/ (WorkerWaits /\ worker' = "running"))
    <3> DEFINE fl == [flusher EXCEPT ![f] = "woken"]
    <3>1. \/ flusher' = fl /\ worker' = worker
          \/ NotifyOne(fl)
      BY <1>4 DEF Flush, RequestFlushThen
    <3>2. fl \in [Flushers -> {"idle", "woken", "waiting"}]
      OBVIOUS
    <3> HIDE DEF fl
    <3>3. QED
      BY <3>1, <3>2, NotifyOneMoves
  <2>2. failure' \in Failures /\ target' \in [Flushers -> Nat]
    BY <1>4 DEF Flush, RequestFlushThen
  <2>3. QED
    BY <1>4, <2>1, <2>2 DEF Flush, RequestFlushThen, WorkerWaits
<1>5. ASSUME NEW f \in Flushers, FlushCheck(f)
      PROVE  (TypeOK /\ WithinLimit /\ BatchHeld)'
  <2>1. flusher' \in [Flushers -> {"idle", "woken", "waiting"}]
    BY <1>5 DEF FlushCheck
  <2>2. target' \in [Flushers -> Nat] /\ promised' \in Nat
    BY <1>5 DEF FlushCheck
  <2>3. QED
    BY <1>5, <2>1, <2>2 DEF FlushCheck
<1>6. ASSUME SpuriousWake PROVE (TypeOK /\ WithinLimit /\ BatchHeld)'
  BY <1>6 DEF SpuriousWake
<1>7. ASSUME Close PROVE (TypeOK /\ WithinLimit /\ BatchHeld)'
  BY <1>7, NotifyOneMoves DEF Close, WorkerWaits
<1>8. ASSUME Crash PROVE (TypeOK /\ WithinLimit /\ BatchHeld)'
  <2>1. worker' = "down" /\ ForgetMemory
    BY <1>8 DEF Crash
  <2>2. UNCHANGED <<requested, accepted, durable, force, records, journal,
                    history, stored, opens, promised>>
    BY <1>8 DEF Crash
  <2>3. QED
    BY <2>1, <2>2, ForgottenTypes
<1>9. ASSUME Reopen PROVE (TypeOK /\ WithinLimit /\ BatchHeld)'
  <2>1. LastSequence \in 0..MaxSequence
    BY DEF FileAhead
  <2>2. opens' \in 0..MaxOpens
    BY <1>9, ConstantsAssumption DEF Reopen
  <2>3. stored.sequence \in Nat
    BY DEF Checkpoints
  <2>4. IsFiniteSet({row \in Rows : row.kind = "record"})
    BY FS_Union, FS_Subset DEF FileAhead, Rows
  <2>5. records' \in Nat
    BY <1>9, <2>4, FS_CardinalityType DEF Reopen
  <2>6. worker' = "running" /\ ForgetMemory
    BY <1>9 DEF Reopen
  <2>7. /\ accepted' = LastSequence /\ durable' = LastSequence
        /\ force' = LastSequence /\ requested' = stored.sequence
        /\ UNCHANGED <<journal, history, stored, promised>>
    BY <1>9 DEF Reopen
  <2>8. QED
    BY <2>1, <2>2, <2>3, <2>5, <2>6, <2>7, ForgottenTypes, ConstantsAssumption
<1>10. QED
  BY <1>1, <1>3, <1>4, <1>5, <1>6, <1>7, <1>8, <1>9

-----------------------------------------------------------------------------
(* The queue *)

LEMMA UnsavedType ==
  ASSUME TypeOK
  PROVE  /\ Unsaved \in Seq(Entries)
         /\ Len(Unsaved) = Len(batch) + Len(pending)
         /\ \A i \in DOMAIN batch : i \in DOMAIN Unsaved /\ Unsaved[i] = batch[i]
         /\ \A i \in DOMAIN pending :
              /\ Len(batch) + i \in DOMAIN Unsaved
              /\ Unsaved[Len(batch) + i] = pending[i]
<1>1. batch \in Seq(Entries) /\ pending \in Seq(Entries)
  BY DEF TypeOK
<1>2. QED
  BY <1>1, ConcatProperties, LenProperties DEF Unsaved

\* The batch in flight ends where the durable log and its length say.
LEMMA BatchEnd ==
  ASSUME TypeOK, QueueInOrder, Open, batch # <<>>
  PROVE  Last(batch).sequence = durable + Len(batch)
<1>1. Len(batch) \in DOMAIN batch /\ Last(batch) = batch[Len(batch)]
  BY LastEntry, LenProperties DEF TypeOK
<1>2. QED
  BY <1>1, UnsavedType DEF QueueInOrder

\* A step that leaves Unsaved and both ends of its range alone.
LEMMA SameQueue ==
  ASSUME IInv, Open' => Open, Unsaved' = Unsaved, UNCHANGED <<accepted, durable>>
  PROVE  QueueInOrder'
BY DEF IInv, QueueInOrder

\* What push appends is an entry with the next sequence, of the kind and
\* with the copies the producer began with.
LEMMA AcceptedEntry ==
  ASSUME IInv, PushAccept
  PROVE  \E entry \in Entries : /\ Unsaved' = Append(Unsaved, entry)
                                /\ entry.sequence = accepted + 1
                                /\ entry.kind = producer.kind
                                /\ entry.copied = producer.copied
<1> DEFINE entry == [sequence |-> accepted + 1, kind |-> producer.kind,
                     copied |-> producer.copied, opening |-> opens]
<1>1. entry \in Entries
  <2>1. accepted + 1 \in 0..MaxSequence
    BY ConstantsAssumption DEF IInv, TypeOK, WithinLimit, PushAccept
  <2>2. /\ producer.kind \in {"record", "marker"}
        /\ producer.copied \in {0} \cup CopiedSizes /\ opens \in 0..MaxOpens
    BY DEF IInv, TypeOK, Producers
  <2>3. QED
    BY <2>1, <2>2 DEF Entries
<1>2. /\ entry.sequence = accepted + 1 /\ entry.kind = producer.kind
      /\ entry.copied = producer.copied
  OBVIOUS
<1>3. pending' = Append(pending, entry) /\ batch' = batch
  BY DEF PushAccept
<1> HIDE DEF entry
<1>4. pending \in Seq(Entries) /\ batch \in Seq(Entries) /\ <<entry>> \in Seq(Entries)
  BY <1>1 DEF IInv, TypeOK
<1>5. batch \o (pending \o <<entry>>) = (batch \o pending) \o <<entry>>
  BY <1>4, ConcatAssociative
<1>6. batch \o pending \in Seq(Entries)
  BY <1>4, ConcatProperties
<1>7. Unsaved' = Append(Unsaved, entry)
  BY <1>1, <1>3, <1>4, <1>5, <1>6, AppendIsConcat DEF Unsaved
<1>8. QED
  BY <1>1, <1>2, <1>7

LEMMA QueueStep ==
  ASSUME IInv, Next
  PROVE  QueueInOrder'
<1>1. TypeOK /\ BatchHeld /\ QueueInOrder
  BY DEF IInv
<1>2. ASSUME UNCHANGED <<batch, pending, accepted, durable>>, Open' => Open
      PROVE  QueueInOrder'
  BY <1>2, SameQueue DEF Unsaved
<1>3. CASE Push
  <2>1. ASSUME NEW kind \in {"record", "marker"}, NEW copied \in {0} \cup CopiedSizes,
               NEW admit \in BOOLEAN, PushBegin(kind, copied, admit)
        PROVE  QueueInOrder'
    BY <2>1, <1>2 DEF PushBegin, stateVars, workerVars, Open
  <2>2. ASSUME NEW oversized \in BOOLEAN, PushPrepare(oversized)
        PROVE  QueueInOrder'
    BY <2>2, <1>2, NotifyKeepsOpen DEF PushPrepare, RefuseFailed, RefuseFull, Open
  <2>3. CASE PushRefused
    BY <2>3, <1>2, NotifyKeepsOpen DEF PushRefused, RefuseFailed, RefuseFull, Open
  <2>4. CASE PushAccept
    <3>1. PICK entry \in Entries : /\ Unsaved' = Append(Unsaved, entry)
                                   /\ entry.sequence = accepted + 1
      BY <2>4, AcceptedEntry
    <3>2. accepted' = accepted + 1 /\ durable' = durable /\ (Open' => Open)
      BY <2>4, NotifyKeepsOpen DEF PushAccept
    <3>3. /\ Len(Unsaved') = Len(Unsaved) + 1
          /\ \A i \in 1..Len(Unsaved) : Unsaved'[i] = Unsaved[i]
          /\ Unsaved'[Len(Unsaved) + 1] = entry
          /\ DOMAIN Unsaved' = 1..(Len(Unsaved) + 1)
      BY <1>1, <3>1, UnsavedType, AppendProperties, LenProperties
    <3>4. accepted \in Nat /\ durable \in Nat /\ Len(Unsaved) \in Nat
          /\ DOMAIN Unsaved = 1..Len(Unsaved)
      BY <1>1, UnsavedType, LenProperties DEF TypeOK
    <3>5. QED
      BY <1>1, <3>1, <3>2, <3>3, <3>4 DEF QueueInOrder
  <2>5. QED
    BY <1>3, <2>1, <2>2, <2>3, <2>4 DEF Push
<1>4. CASE Worker
  <2>1. CASE WorkerExit
    BY <2>1 DEF WorkerExit, QueueInOrder, Open
  <2>2. CASE WorkerWait \/ WorkerWaitTimeout \/ WorkerTimeout
    BY <2>2, <1>2 DEF WorkerWait, WorkerWaitTimeout, WorkerTimeout, stateVars, Open
  <2>3. CASE WorkerTake
    <3>1. batch = <<>> /\ batch' = pending /\ pending' = <<>> /\ pending \in Seq(Entries)
      BY <1>1, <2>3 DEF WorkerTake, BatchHeld, Attempting, Open, TypeOK
    <3>2. Unsaved' = Unsaved
      BY <3>1, ConcatEmptySeq DEF Unsaved
    <3>3. QED
      BY <2>3, <3>2, SameQueue DEF WorkerTake, Open
  <2>4. CASE EncodeCheckpoint \/ CommitBatch \/ NotifyFailure
    BY <2>4, <1>2 DEF EncodeCheckpoint, CommitBatch, NotifyFailure, stateVars, Open
  <2>5. CASE FinishCommitted
    <3>1. /\ batch' = <<>> /\ pending' = pending /\ accepted' = accepted
          /\ durable' = Last(batch).sequence /\ worker' = "running"
      BY <2>5 DEF FinishCommitted, DurableThrough
    <3>2. Open /\ batch # <<>>
      BY <1>1, <2>5 DEF FinishCommitted, Open, BatchHeld, Attempting
    <3>3. /\ Unsaved' = pending /\ pending \in Seq(Entries) /\ batch \in Seq(Entries)
          /\ Len(pending) \in Nat /\ DOMAIN pending = 1..Len(pending)
      BY <1>1, <3>1, ConcatEmptySeq, LenProperties DEF Unsaved, TypeOK
    <3>4. durable' = durable + Len(batch) /\ Len(batch) \in Nat
      BY <1>1, <3>1, <3>2, LastEntry, UnsavedType, BatchEnd DEF TypeOK
    <3> /\ Len(Unsaved) = Len(batch) + Len(pending)
        /\ \A i \in DOMAIN pending : /\ Len(batch) + i \in DOMAIN Unsaved
                                     /\ Unsaved[Len(batch) + i] = pending[i]
      BY <1>1, UnsavedType
    <3> accepted \in Nat /\ durable \in Nat
      BY <1>1 DEF TypeOK
    <3>5. Len(pending) = accepted' - durable'
      BY <1>1, <3>1, <3>2, <3>3, <3>4 DEF QueueInOrder
    <3>6. \A i \in DOMAIN pending : pending[i].sequence = durable' + i
      BY <1>1, <3>2, <3>3, <3>4 DEF QueueInOrder
    <3>7. QED
      BY <3>3, <3>5, <3>6 DEF QueueInOrder
  <2>6. CASE FinishFailed
    <3>1. /\ batch' = <<>> /\ pending' = Unsaved
          /\ batch \in Seq(Entries) /\ pending \in Seq(Entries)
      BY <1>1, <2>6 DEF FinishFailed, Requeued, Unsaved, TypeOK
    <3>2. Unsaved' = Unsaved
      BY <1>1, <3>1, UnsavedType, ConcatEmptySeq DEF Unsaved
    <3>3. QED
      BY <2>6, <3>2, SameQueue DEF FinishFailed, Open
  <2>7. QED
    BY <1>4, <2>1, <2>2, <2>3, <2>4, <2>5, <2>6 DEF Worker
<1>5. CASE Age \/ RequestFlush \/ SpuriousWake \/ Close \/ Crash \/ Reopen
  <2>1. CASE Age
    BY <2>1, <1>2 DEF Age, workerVars, Open
  <2>2. CASE RequestFlush
    BY <2>2, <1>2, NotifyKeepsOpen DEF RequestFlush, RequestFlushThen, Open
  <2>3. CASE SpuriousWake
    BY <2>3, <1>2 DEF SpuriousWake, stateVars, Open
  <2>4. CASE Close
    BY <2>4, <1>2, NotifyKeepsOpen DEF Close
  <2>5. CASE Crash
    BY <2>5 DEF Crash, QueueInOrder, Open
  <2>6. CASE Reopen
    <3>1. batch' = <<>> /\ pending' = <<>> /\ accepted' = durable'
          /\ durable' = LastSequence /\ LastSequence \in Nat
      BY <2>6 DEF Reopen, ForgetMemory, IInv, FileAhead
    <3>2. Unsaved' = <<>>
      BY <3>1, EmptySeq, ConcatEmptySeq DEF Unsaved
    <3>3. QED
      BY <3>1, <3>2 DEF QueueInOrder
  <2>7. QED
    BY <1>5, <2>1, <2>2, <2>3, <2>4, <2>5, <2>6
<1>6. CASE \E f \in Flushers : Flush(f) \/ FlushCheck(f)
  <2>1. ASSUME NEW f \in Flushers, Flush(f)
        PROVE  QueueInOrder'
    <3> DEFINE fl == [flusher EXCEPT ![f] = "woken"]
    <3>1. RequestFlushThen(fl)
      BY <2>1 DEF Flush
    <3> HIDE DEF fl
    <3>2. QED
      BY <3>1, <1>2, NotifyKeepsOpen DEF RequestFlushThen, Open
  <2>2. ASSUME NEW f \in Flushers, FlushCheck(f)
        PROVE  QueueInOrder'
    BY <2>2, <1>2 DEF FlushCheck, stateVars, workerVars, Open
  <2>3. QED
    BY <1>6, <2>1, <2>2
<1>7. QED
  BY <1>3, <1>4, <1>5, <1>6 DEF Next

-----------------------------------------------------------------------------
(* The file *)

\* A transaction that takes effect adds the batch to the rows, wherever its
\* checkpoint rotates them.
LEMMA CommittedRows ==
  ASSUME ApplyBatch
  PROVE  Rows' = Rows \cup ToSet(batch)
<1>1. Covered \subseteq Appended
  BY DEF Covered
<1>2. Appended \cup history = Rows \cup ToSet(batch)
  BY DEF Appended, Rows
<1>3. CASE taken = NoCheckpoint
  BY <1>2, <1>3 DEF ApplyBatch, Rows
<1>4. CASE taken # NoCheckpoint
  BY <1>1, <1>2, <1>4 DEF ApplyBatch, Rows
<1>5. QED
  BY <1>3, <1>4

\* So the file still holds an interval of sequences, which reaches at least
\* the end of the batch.
LEMMA CommittedFile ==
  ASSUME IInv, worker = "committing", ApplyBatch
  PROVE  /\ IsFiniteSet(journal') /\ IsFiniteSet(history')
         /\ LastSequence' \in 0..MaxSequence
         /\ Sequences' = 0..LastSequence'
         /\ LastSequence <= LastSequence'
         /\ Last(batch).sequence <= LastSequence'
<1>1. /\ batch \in Seq(Entries) /\ batch # <<>> /\ Open
      /\ durable \in Nat /\ LastSequence \in 0..MaxSequence
      /\ durable <= LastSequence /\ Sequences = 0..LastSequence
  BY DEF IInv, TypeOK, BatchHeld, Attempting, Open, FileAhead
<1>2. /\ Last(batch).sequence = durable + Len(batch) /\ Len(batch) \in Nat
      /\ Last(batch).sequence \in 0..MaxSequence
  BY <1>1, BatchEnd, LastEntry DEF IInv
<1>3. \A i \in 1..Len(batch) : batch[i].sequence = durable + i
  BY <1>1, UnsavedType, LenProperties DEF IInv, QueueInOrder
<1>4. {row.sequence : row \in ToSet(batch)} = (durable + 1)..(durable + Len(batch))
  <2>1. ToSet(batch) = {batch[i] : i \in 1..Len(batch)}
    BY <1>1, LenProperties DEF ToSet
  <2>2. ASSUME NEW n \in (durable + 1)..(durable + Len(batch))
        PROVE  n \in {row.sequence : row \in ToSet(batch)}
    <3>1. n - durable \in 1..Len(batch) /\ durable + (n - durable) = n
      BY <1>1, <1>2
    <3>2. batch[n - durable].sequence = n
      BY <1>3, <3>1
    <3>3. QED
      BY <2>1, <3>1, <3>2
  <2>3. ASSUME NEW row \in ToSet(batch)
        PROVE  row.sequence \in (durable + 1)..(durable + Len(batch))
    BY <1>1, <1>2, <1>3, <2>1
  <2>4. QED
    BY <2>2, <2>3
<1>5. Sequences' = (0..LastSequence) \cup (durable + 1)..(durable + Len(batch))
  <2>1. Sequences' = Sequences \cup {row.sequence : row \in ToSet(batch)}
    BY CommittedRows DEF Sequences
  <2>2. QED
    BY <1>1, <1>4, <2>1
<1> DEFINE m == IF LastSequence < durable + Len(batch) THEN durable + Len(batch)
                ELSE LastSequence
<1>6. m \in 0..MaxSequence /\ LastSequence <= m /\ Last(batch).sequence <= m
  BY <1>1, <1>2, ConstantsAssumption
<1>7. Sequences' = 0..m
  BY <1>1, <1>2, <1>5
<1> HIDE DEF m
<1>8. LastSequence' = m
  BY <1>6, <1>7, EndOfInterval DEF LastSequence
<1>9. IsFiniteSet(journal') /\ IsFiniteSet(history')
  <2>1. IsFiniteSet(ToSet(batch)) /\ IsFiniteSet(journal) /\ IsFiniteSet(history)
    BY <1>1, FiniteElements DEF IInv, FileAhead
  <2>2. IsFiniteSet(Appended)
    BY <2>1, FS_Union, FS_Subset DEF Appended
  <2>3. /\ journal' \subseteq Appended
        /\ history' \subseteq history \cup Appended
    BY DEF ApplyBatch, Covered
  <2>4. QED
    BY <2>1, <2>2, <2>3, FS_Union, FS_Subset
<1>10. QED
  BY <1>6, <1>7, <1>8, <1>9

\* A step that leaves the file alone leaves FileAhead to the other fields.
LEMMA SameFile ==
  ASSUME UNCHANGED diskVars
  PROVE  /\ Sequences' = Sequences /\ LastSequence' = LastSequence
         /\ journal' = journal /\ history' = history
BY DEF diskVars, Sequences, LastSequence, Rows

\* The steps that neither write the file, nor acknowledge it, nor read it.
LEMMA NoFileStep ==
  ASSUME \/ Push \/ Age \/ RequestFlush \/ SpuriousWake \/ Close \/ Crash
         \/ \E f \in Flushers : Flush(f)
         \/ WorkerExit \/ WorkerWait \/ WorkerWaitTimeout \/ WorkerTimeout
         \/ WorkerTake \/ EncodeCheckpoint \/ FinishFailed \/ NotifyFailure
  PROVE  /\ UNCHANGED <<diskVars, durable, promised>>
         /\ Open' => Open
         /\ worker' = "committed" => worker = "committed" /\ batch' = batch
<1> DEFINE Framed == /\ UNCHANGED <<diskVars, durable, promised>>
                     /\ Open' => Open
                     /\ worker' = "committed" => worker = "committed" /\ batch' = batch
<1>1. ASSUME UNCHANGED <<diskVars, durable, promised, worker, batch>> PROVE Framed
  BY <1>1 DEF Open
<1>2. ASSUME UNCHANGED <<diskVars, durable, promised, batch>>, NEW fl, NotifyOne(fl)
      PROVE  Framed
  BY <1>2, NotifyKeepsOpen DEF NotifyOne
<1>3. CASE Push
  <2>1. ASSUME NEW kind, NEW copied, NEW admit, PushBegin(kind, copied, admit)
        PROVE  Framed
    BY <2>1, <1>1 DEF PushBegin, stateVars, workerVars
  <2>2. ASSUME NEW oversized, PushPrepare(oversized) PROVE Framed
    BY <2>2, <1>1, <1>2 DEF PushPrepare, RefuseFailed, RefuseFull
  <2>3. CASE PushRefused
    BY <2>3, <1>1, <1>2 DEF PushRefused, RefuseFailed, RefuseFull
  <2>4. CASE PushAccept
    BY <2>4, <1>2 DEF PushAccept
  <2>5. QED
    BY <1>3, <2>1, <2>2, <2>3, <2>4 DEF Push
<1>4. CASE Age \/ EncodeCheckpoint
  BY <1>4 DEF Age, EncodeCheckpoint, workerVars, stateVars, Open
<1>5. CASE RequestFlush
  BY <1>5, <1>1, <1>2 DEF RequestFlush, RequestFlushThen
<1>6. ASSUME NEW f \in Flushers, Flush(f) PROVE Framed
  <2> DEFINE fl == [flusher EXCEPT ![f] = "woken"]
  <2>1. RequestFlushThen(fl)
    BY <1>6 DEF Flush
  <2> HIDE DEF fl
  <2>2. QED
    BY <2>1, <1>1, <1>2 DEF RequestFlushThen
<1>7. CASE SpuriousWake
  BY <1>7 DEF SpuriousWake, stateVars, Open
<1>8. CASE Close
  BY <1>8, <1>2 DEF Close
<1>9. CASE Crash
  BY <1>9 DEF Crash, Open
<1>10. CASE WorkerExit \/ WorkerWait \/ WorkerWaitTimeout \/ WorkerTimeout \/ WorkerTake
  BY <1>10 DEF WorkerExit, WorkerWait, WorkerWaitTimeout, WorkerTimeout, WorkerTake,
     stateVars, Open
<1>11. CASE FinishFailed \/ NotifyFailure
  BY <1>11 DEF FinishFailed, NotifyFailure, stateVars, Open
<1>12. QED
  BY <1>3, <1>4, <1>5, <1>6, <1>7, <1>8, <1>9, <1>10, <1>11

LEMMA FileStep ==
  ASSUME IInv, Next
  PROVE  FileAhead'
<1>1. FileAhead
  BY DEF IInv
<1>2. CASE CommitBatch
  <2>1. CASE ApplyBatch /\ worker = "committing"
    <3>1. durable' = durable /\ promised' = promised /\ batch' = batch /\ Open
      BY <1>2, <2>1 DEF CommitBatch, stateVars, Open
    <3>2. durable \in Nat /\ promised \in Nat /\ LastSequence \in Nat
      BY <1>1 DEF IInv, TypeOK, FileAhead
    <3>3. QED
      BY <1>1, <2>1, <3>1, <3>2, CommittedFile, ConstantsAssumption DEF FileAhead
  <2>2. CASE UNCHANGED diskVars /\ worker' = "failed"
    <3>1. /\ durable' = durable /\ promised' = promised /\ Open
      BY <1>2 DEF CommitBatch, stateVars, Open
    <3>2. QED
      BY <1>1, <2>2, <3>1, SameFile DEF FileAhead
  <2>3. QED
    BY <1>2, <2>1, <2>2 DEF CommitBatch
<1>3. CASE FinishCommitted
  BY <1>1, <1>3, SameFile DEF FinishCommitted, DurableThrough, FileAhead
<1>4. ASSUME NEW f \in Flushers, FlushCheck(f) PROVE FileAhead'
  <2>1. Open
    BY <1>4 DEF IInv, FlushersLeave, FlushCheck
  <2>2. promised' <= LastSequence
    BY <1>1, <1>4, <2>1 DEF FlushCheck, FileAhead, IInv, TypeOK
  <2>3. UNCHANGED <<diskVars, durable, worker, batch>>
    BY <1>4 DEF FlushCheck, stateVars, workerVars
  <2>4. QED
    BY <1>1, <2>1, <2>2, <2>3, SameFile DEF FileAhead
<1>5. CASE Reopen
  <2>1. UNCHANGED <<diskVars, promised>> /\ durable' = LastSequence /\ worker' = "running"
    BY <1>5 DEF Reopen
  <2>2. QED
    BY <1>1, <2>1, SameFile DEF FileAhead
<1>6. ASSUME UNCHANGED <<diskVars, durable, promised>>, Open' => Open,
             worker' = "committed" => worker = "committed" /\ batch' = batch
      PROVE  FileAhead'
  BY <1>1, <1>6, SameFile DEF FileAhead
<1>7. QED
  BY <1>2, <1>3, <1>4, <1>5, <1>6, NoFileStep DEF Next, Worker

-----------------------------------------------------------------------------
(* Flushers *)

LEMMA NotifyKeepsIdle ==
  ASSUME NEW fl \in [Flushers -> {"idle", "woken", "waiting"}], NotifyOne(fl),
         NEW f \in Flushers, fl[f] = "idle"
  PROVE  flusher'[f] = "idle"
<1>1. CASE flusher' = fl
  BY <1>1
<1>2. ASSUME NEW g \in Flushers, fl[g] = "waiting", flusher' = [fl EXCEPT ![g] = "woken"]
      PROVE  flusher'[f] = "idle"
  BY <1>2
<1>3. QED
  BY <1>1, <1>2 DEF NotifyOne

LEMMA FlushersStep ==
  ASSUME IInv, Next
  PROVE  (FlushersLeave /\ ExitedClosing)'
<1> DEFINE Gone == (FlushersLeave /\ ExitedClosing)'
<1>1. FlushersLeave /\ ExitedClosing /\ flusher \in [Flushers -> {"idle", "woken", "waiting"}]
  BY DEF IInv, TypeOK
<1>2. ASSUME UNCHANGED <<closing, flusher>>, Open' <=> Open, worker' # "exited" \/ worker' = worker
      PROVE  Gone
  BY <1>1, <1>2 DEF FlushersLeave, ExitedClosing
<1>3. ASSUME UNCHANGED closing, NotifyOne(flusher)
      PROVE  Gone
  <2>1. \A f \in Flushers : flusher[f] = "idle" => flusher'[f] = "idle"
    BY <1>1, <1>3, NotifyKeepsIdle
  <2>2. Open' <=> Open
    BY <1>3, NotifyKeepsOpen
  <2>3. worker' = worker \/ worker' = "running"
    BY <1>3 DEF NotifyOne
  <2>4. QED
    BY <1>1, <1>3, <2>1, <2>2, <2>3 DEF FlushersLeave, ExitedClosing
<1>4. CASE Push
  <2>1. ASSUME NEW kind, NEW copied, NEW admit, PushBegin(kind, copied, admit)
        PROVE  Gone
    BY <2>1, <1>2 DEF PushBegin, stateVars, workerVars, flushVars, Open
  <2>2. ASSUME NEW oversized, PushPrepare(oversized) PROVE Gone
    BY <2>2, <1>2, <1>3 DEF PushPrepare, RefuseFailed, RefuseFull, Open
  <2>3. CASE PushRefused
    BY <2>3, <1>2, <1>3 DEF PushRefused, RefuseFailed, RefuseFull, Open
  <2>4. CASE PushAccept
    BY <2>4, <1>3 DEF PushAccept
  <2>5. QED
    BY <1>4, <2>1, <2>2, <2>3, <2>4 DEF Push
<1>5. CASE Age
  BY <1>5, <1>2 DEF Age, workerVars, flushVars, Open
<1>6. CASE RequestFlush
  <2>1. UNCHANGED closing
    BY <1>6 DEF RequestFlush, RequestFlushThen
  <2>2. NotifyOne(flusher) \/ UNCHANGED <<flusher, worker>>
    BY <1>6 DEF RequestFlush, RequestFlushThen
  <2>3. QED
    BY <2>1, <2>2, <1>2, <1>3 DEF Open
<1>7. ASSUME NEW f \in Flushers, Flush(f) PROVE Gone
  <2> DEFINE fl == [flusher EXCEPT ![f] = "woken"]
  <2>1. Open /\ ~closing /\ closing' = closing
    BY <1>7 DEF Flush, RequestFlushThen
  <2>2. NotifyOne(fl) \/ worker' = worker
    BY <1>7 DEF Flush, RequestFlushThen
  <2> HIDE DEF fl
  <2>3. Open'
    BY <2>1, <2>2, NotifyKeepsOpen DEF Open
  <2>4. QED
    BY <2>1, <2>3 DEF FlushersLeave, ExitedClosing, Open
<1>8. ASSUME NEW f \in Flushers, FlushCheck(f) PROVE Gone
  <2>1. ~closing /\ Open /\ UNCHANGED <<closing, worker>>
    BY <1>1, <1>8 DEF FlushCheck, FlushersLeave, stateVars, workerVars
  <2>2. QED
    BY <2>1 DEF FlushersLeave, ExitedClosing, Open
<1>9. CASE SpuriousWake
  <2>1. UNCHANGED closing /\ (Open' <=> Open)
    BY <1>9 DEF SpuriousWake, stateVars, Open
  <2>2. \A f \in Flushers : flusher[f] = "idle" => flusher'[f] = "idle"
    BY <1>1, <1>9 DEF SpuriousWake
  <2>3. worker' = worker \/ worker' = "running"
    BY <1>9 DEF SpuriousWake
  <2>4. QED
    BY <1>1, <2>1, <2>2, <2>3 DEF FlushersLeave, ExitedClosing
<1>10. CASE Worker
  <2>1. CASE WorkerExit
    BY <2>1, <1>1 DEF WorkerExit, Exits, FlushersLeave, ExitedClosing, stateVars, flushVars
  <2>2. CASE \/ WorkerWait \/ WorkerWaitTimeout \/ WorkerTimeout \/ WorkerTake
             \/ EncodeCheckpoint \/ CommitBatch \/ FinishFailed
    BY <2>2, <1>2 DEF WorkerWait, WorkerWaitTimeout, WorkerTimeout, WorkerTake,
       EncodeCheckpoint, CommitBatch, FinishFailed, stateVars, flushVars, Open
  <2>3. CASE FinishCommitted \/ NotifyFailure
    <3>1. UNCHANGED closing /\ Open /\ worker' = "running"
      BY <2>3 DEF FinishCommitted, NotifyFailure, stateVars, Open
    <3>2. \A f \in Flushers : flusher[f] = "idle" => flusher'[f] = "idle"
      BY <2>3 DEF FinishCommitted, NotifyFailure, NotifyAll
    <3>3. QED
      BY <1>1, <3>1, <3>2 DEF FlushersLeave, ExitedClosing, Open
  <2>4. QED
    BY <1>10, <2>1, <2>2, <2>3 DEF Worker
<1>11. CASE Close
  <2>1. NotifyOne(flusher) /\ Open /\ \A f \in Flushers : flusher[f] = "idle"
    BY <1>11 DEF Close
  <2>2. \A f \in Flushers : flusher'[f] = "idle"
    BY <1>1, <2>1, NotifyKeepsIdle
  <2>3. Open'
    BY <2>1, NotifyKeepsOpen
  <2>4. QED
    BY <2>2, <2>3 DEF FlushersLeave, ExitedClosing, Open
<1>12. CASE Crash \/ Reopen
  <2>1. flusher' = [f \in Flushers |-> "idle"] /\ worker' # "exited"
    BY <1>12 DEF Crash, Reopen, ForgetMemory
  <2>2. QED
    BY <2>1 DEF FlushersLeave, ExitedClosing
<1>13. QED
  BY <1>4, <1>5, <1>6, <1>7, <1>8, <1>9, <1>10, <1>11, <1>12 DEF Next

-----------------------------------------------------------------------------
(* The theorems *)

LEMMA IInvInit == Init => IInv
<1> SUFFICES ASSUME Init PROVE IInv
  OBVIOUS
<1>1. TypeOK /\ WithinLimit /\ BatchHeld
  BY InitTypes
<1>2. QueueInOrder
  BY EmptySeq, ConcatEmptySeq DEF Init, QueueInOrder, Unsaved
<1>3. FileAhead
  <2>1. Sequences = 0..0
    BY DEF Init, Sequences, Rows, Base
  <2>2. LastSequence = 0
    BY <2>1, EndOfInterval DEF LastSequence
  <2>3. IsFiniteSet(journal) /\ IsFiniteSet(history)
    BY FS_EmptySet, FS_Singleton DEF Init
  <2>4. QED
    BY <2>1, <2>2, <2>3, ConstantsAssumption DEF Init, FileAhead
<1>4. FlushersLeave /\ ExitedClosing
  BY DEF Init, FlushersLeave, ExitedClosing
<1>5. QED
  BY <1>1, <1>2, <1>3, <1>4 DEF IInv

LEMMA IInvStep == IInv /\ [Next]_vars => IInv'
<1> SUFFICES ASSUME IInv, [Next]_vars PROVE IInv'
  OBVIOUS
<1>1. CASE Next
  <2>1. (TypeOK /\ WithinLimit /\ BatchHeld)'
    BY <1>1, PushTypes, WorkerTypes, OtherTypes DEF Next
  <2>2. QED
    BY <1>1, <2>1, QueueStep, FileStep, FlushersStep DEF IInv
<1>2. CASE UNCHANGED vars
  BY <1>2 DEF vars, stateVars, workerVars, gateVars, flushVars, diskVars, IInv,
     TypeOK, WithinLimit, BatchHeld, Attempting, Open, QueueInOrder, Unsaved,
     FileAhead, LastSequence, Sequences, Rows, FlushersLeave, ExitedClosing
<1>3. QED
  BY <1>1, <1>2

\* The inductive invariant holds of every behaviour of the save.
THEOREM InductiveInvariant == Spec => []IInv
BY IInvInit, IInvStep, PTL DEF Spec

\* Every field of State, every thread and every table keeps its type, for
\* any number of flushers, entries and openings.
THEOREM TypeCorrect == Spec => []TypeOK
<1>1. IInv => TypeOK
  BY DEF IInv
<1>2. QED
  BY InductiveInvariant, <1>1, PTL

\* The queue always holds exactly the accepted entries that are not reported
\* durable, in order, through failed saves and later pushes.
THEOREM QueueStaysInOrder == Spec => []QueueInOrder
<1>1. IInv => QueueInOrder
  BY DEF IInv
<1>2. QED
  BY InductiveInvariant, <1>1, PTL

\* No crash or reopening loses what a flush has reported saved, and State
\* never calls durable what the file does not hold.
THEOREM PromisesAreKept == Spec => []PromiseKept
<1>1. IInv => PromiseKept
  BY DEF IInv, FileAhead, PromiseKept
<1>2. QED
  BY InductiveInvariant, <1>1, PTL

-----------------------------------------------------------------------------
(* The strengthening of IInv for the worker *)

\* What a flusher inside flush waits for has been asked of the worker, and
\* was accepted; a close asks for everything.
TargetsAsked ==
  /\ force <= accepted
  /\ closing => force = accepted
  /\ Open => \A f \in Flushers : flusher[f] # "idle" => target[f] <= force

\* A flusher sleeps only over entries that are not durable, and not over a
\* failure, except while the worker is on its way to report it.
SleepersHaveWork ==
  \A f \in Flushers :
    flusher[f] = "waiting" =>
      durable < target[f] /\ (Failed => worker = "notifying")

\* An attempt is only made without a failure, and ends with one or a commit.
AttemptUnfailed ==
  /\ Attempting => ~Failed
  /\ worker = "failed" => outcome # NoFailure

WInv == /\ IInv /\ TargetsAsked /\ SleepersHaveWork /\ AttemptUnfailed
        /\ WakeupReachesWorker

-----------------------------------------------------------------------------
(* A notification *)

\* While nobody waits for a worker that waits, one notification is enough:
\* it reaches the worker if the worker waits.
LEMMA NotifyReachesWorker ==
  ASSUME WInv, NEW fl \in [Flushers -> {"idle", "woken", "waiting"}], NotifyOne(fl),
         \A f \in Flushers : fl[f] = "waiting" => flusher[f] = "waiting"
  PROVE  /\ WakeupReachesWorker'
         /\ \A f \in Flushers : flusher'[f] = "waiting" => fl[f] = "waiting"
         /\ \A f \in Flushers : flusher'[f] = "idle" <=> fl[f] = "idle"
         /\ Open' <=> Open
         /\ worker' = worker \/ worker' = "running"
         /\ worker = "notifying" => worker' = "notifying"
<1>1. /\ \A f \in Flushers : flusher'[f] = "waiting" => fl[f] = "waiting"
      /\ \A f \in Flushers : flusher'[f] = "idle" <=> fl[f] = "idle"
  <2>1. CASE flusher' = fl
    BY <2>1
  <2>2. ASSUME NEW g \in Flushers, fl[g] = "waiting", flusher' = [fl EXCEPT ![g] = "woken"]
        PROVE  /\ \A f \in Flushers : flusher'[f] = "waiting" => fl[f] = "waiting"
               /\ \A f \in Flushers : flusher'[f] = "idle" <=> fl[f] = "idle"
    BY <2>2
  <2>3. QED
    BY <2>1, <2>2 DEF NotifyOne
<1>2. (\E f \in Flushers : fl[f] = "waiting") => ~WorkerWaits
  BY DEF WInv, WakeupReachesWorker
<1>3. worker' \notin {"waiting", "waiting_timeout"}
  BY <1>2 DEF NotifyOne, WorkerWaits
<1>4. WakeupReachesWorker'
  BY <1>3 DEF WakeupReachesWorker, WorkerWaits
<1>5. /\ worker' = worker \/ worker' = "running"
      /\ worker = "notifying" => worker' = "notifying"
  BY DEF NotifyOne, WorkerWaits
<1>6. QED
  BY <1>1, <1>4, <1>5, NotifyKeepsOpen

\* A notification that changes at most the queue's end, the force and the
\* closing flag keeps the rest of the invariant.
LEMMA NotifyStep ==
  ASSUME WInv, NotifyOne(flusher), UNCHANGED <<durable, target, failure, outcome>>,
         force' \in Nat, accepted' \in Nat, force <= force', force' <= accepted',
         closing' => force' = accepted'
  PROVE  (TargetsAsked /\ SleepersHaveWork /\ AttemptUnfailed /\ WakeupReachesWorker)'
<1>1. flusher \in [Flushers -> {"idle", "woken", "waiting"}]
      /\ target \in [Flushers -> Nat] /\ force \in Nat
  BY DEF WInv, IInv, TypeOK
<1>2. /\ WakeupReachesWorker'
      /\ \A f \in Flushers : flusher'[f] = "waiting" => flusher[f] = "waiting"
      /\ \A f \in Flushers : flusher'[f] = "idle" <=> flusher[f] = "idle"
      /\ Open' <=> Open
      /\ worker' = worker \/ worker' = "running"
      /\ worker = "notifying" => worker' = "notifying"
  BY <1>1, NotifyReachesWorker
<1>3. TargetsAsked'
  BY <1>1, <1>2 DEF WInv, TargetsAsked
<1>4. SleepersHaveWork'
  BY <1>2 DEF WInv, SleepersHaveWork, Failed
<1>5. AttemptUnfailed'
  BY <1>2 DEF WInv, AttemptUnfailed, Attempting, Failed
<1>6. QED
  BY <1>2, <1>3, <1>4, <1>5

\* A step that moves none of what the invariant speaks of.
LEMMA UnnoticedStep ==
  ASSUME WInv, UNCHANGED <<pending, accepted, durable, bytes, failure, force, closing,
                           worker, outcome, flusher, target>>
  PROVE  (TargetsAsked /\ SleepersHaveWork /\ AttemptUnfailed /\ WakeupReachesWorker)'
BY DEF WInv, TargetsAsked, SleepersHaveWork, AttemptUnfailed, WakeupReachesWorker,
   Attempting, Failed, Open, WorkerWaits

-----------------------------------------------------------------------------
(* The steps *)

LEMMA PushWakes ==
  ASSUME WInv, Push
  PROVE  (TargetsAsked /\ SleepersHaveWork /\ AttemptUnfailed /\ WakeupReachesWorker)'
<1> DEFINE Kept == (TargetsAsked /\ SleepersHaveWork /\ AttemptUnfailed
                    /\ WakeupReachesWorker)'
<1>1. force \in Nat /\ accepted \in Nat /\ force <= accepted
  BY DEF WInv, IInv, TypeOK, TargetsAsked
<1>2. ASSUME NEW kind, NEW copied, NEW admit, PushBegin(kind, copied, admit) PROVE Kept
  BY <1>2, UnnoticedStep DEF PushBegin, stateVars, workerVars, flushVars
<1>3. ASSUME NEW oversized, PushPrepare(oversized) PROVE Kept
  <2>1. UNCHANGED <<pending, accepted, durable, bytes, failure, closing, outcome, target>>
    BY <1>3 DEF PushPrepare
  <2>2. CASE UNCHANGED <<force, worker, flusher>>
    BY <2>1, <2>2, UnnoticedStep
  <2>3. CASE RefuseFull(producer)
    BY <1>1, <2>1, <2>3, NotifyStep DEF RefuseFull
  <2>4. QED
    BY <1>3, <2>2, <2>3 DEF PushPrepare, RefuseFailed
<1>4. CASE PushRefused
  <2>1. UNCHANGED <<pending, accepted, durable, bytes, failure, closing, outcome, target>>
    BY <1>4 DEF PushRefused
  <2>2. CASE UNCHANGED <<force, worker, flusher>>
    BY <2>1, <2>2, UnnoticedStep
  <2>3. CASE RefuseFull(producer)
    BY <1>1, <2>1, <2>3, NotifyStep DEF RefuseFull
  <2>4. QED
    BY <1>4, <2>2, <2>3 DEF PushRefused, RefuseFailed
<1>5. CASE PushAccept
  <2>1. /\ NotifyOne(flusher) /\ UNCHANGED <<durable, target, failure, outcome, force>>
        /\ accepted' = accepted + 1 /\ ~closing'
    BY <1>5 DEF PushAccept, MayStillJoin, MayJoin
  <2>2. QED
    BY <1>1, <2>1, NotifyStep
<1>6. QED
  BY <1>2, <1>3, <1>4, <1>5 DEF Push

\* A request for a save forgives the failure and tells the worker, or leaves
\* both as they are.
LEMMA RequestWakes ==
  ASSUME WInv, NEW fl \in [Flushers -> {"idle", "woken", "waiting"}],
         RequestFlushThen(fl), Open,
         \A f \in Flushers : fl[f] = "waiting" => flusher[f] = "waiting",
         target' \in [Flushers -> Nat],
         \A f \in Flushers : fl[f] # "idle" => target'[f] <= accepted,
         \A f \in Flushers : fl[f] = "waiting" => target'[f] = target[f]
  PROVE  (TargetsAsked /\ SleepersHaveWork /\ AttemptUnfailed /\ WakeupReachesWorker)'
<1>1. /\ force' = accepted /\ accepted \in Nat
      /\ UNCHANGED <<pending, accepted, durable, bytes, closing, outcome>>
  BY DEF RequestFlushThen, WInv, IInv, TypeOK
<1>2. CASE BlocksRetry /\ flusher' = fl /\ UNCHANGED <<failure, worker>>
  <2>1. Failed /\ Failed'
    BY <1>2 DEF BlocksRetry, Failed, NoFailure
  <2>2. TargetsAsked'
    BY <1>1, <1>2 DEF TargetsAsked
  <2>3. SleepersHaveWork'
    BY <1>1, <1>2 DEF WInv, SleepersHaveWork, Failed
  <2>4. AttemptUnfailed'
    BY <1>1, <1>2 DEF WInv, AttemptUnfailed, Attempting, Failed
  <2>5. ~\E f \in Flushers : flusher'[f] = "waiting" /\ WorkerWaits'
    BY <1>2 DEF WInv, WakeupReachesWorker, WorkerWaits
  <2>6. WakeupReachesWorker'
    BY <2>1, <2>5 DEF WakeupReachesWorker
  <2>7. QED
    BY <2>2, <2>3, <2>4, <2>6
<1>3. CASE failure' = NoFailure /\ NotifyOne(fl)
  <2>1. /\ WakeupReachesWorker'
        /\ \A f \in Flushers : flusher'[f] = "waiting" => fl[f] = "waiting"
        /\ \A f \in Flushers : flusher'[f] = "idle" <=> fl[f] = "idle"
        /\ worker' = worker \/ worker' = "running"
    BY <1>3, NotifyReachesWorker
  <2>2. TargetsAsked'
    BY <1>1, <2>1 DEF TargetsAsked
  <2>3. SleepersHaveWork'
    BY <1>1, <1>3, <2>1 DEF WInv, SleepersHaveWork, Failed
  <2>4. AttemptUnfailed'
    BY <1>1, <1>3, <2>1 DEF WInv, AttemptUnfailed, Attempting, Failed
  <2>5. QED
    BY <2>1, <2>2, <2>3, <2>4
<1>4. QED
  BY <1>2, <1>3 DEF RequestFlushThen

\* A flusher goes to sleep only when the worker is awake: what it waits for
\* is queued and forced, so a waiting worker would owe it.
LEMMA FlushCheckWakes ==
  ASSUME WInv, NEW f \in Flushers, FlushCheck(f)
  PROVE  (TargetsAsked /\ SleepersHaveWork /\ AttemptUnfailed /\ WakeupReachesWorker)'
<1>1. /\ UNCHANGED <<pending, accepted, durable, bytes, failure, force, closing,
                     worker, outcome>>
      /\ flusher[f] = "woken"
  BY DEF FlushCheck, stateVars, workerVars
<1>2. /\ flusher \in [Flushers -> {"idle", "woken", "waiting"}]
      /\ target \in [Flushers -> Nat] /\ durable \in Nat /\ force \in Nat
      /\ accepted \in Nat /\ Open
  BY <1>1 DEF WInv, IInv, TypeOK, FlushersLeave
<1>3. CASE /\ flusher' = [flusher EXCEPT ![f] = "idle"]
           /\ target' = [target EXCEPT ![f] = 0]
  BY <1>1, <1>2, <1>3 DEF WInv, TargetsAsked, SleepersHaveWork, AttemptUnfailed,
     WakeupReachesWorker, Attempting, Failed, Open, WorkerWaits
<1>4. CASE /\ durable < target[f] /\ ~Failed
           /\ flusher' = [flusher EXCEPT ![f] = "waiting"]
           /\ target' = target
  <2>1. target[f] <= force /\ force <= accepted /\ target[f] \in Nat
    BY <1>1, <1>2 DEF WInv, TargetsAsked
  <2>2. force > durable /\ accepted > durable
    BY <1>2, <1>4, <2>1
  <2>3. ~WorkerWaits
    <3> SUFFICES ASSUME WorkerWaits PROVE FALSE
      OBVIOUS
    <3>1. batch = <<>> /\ pending \in Seq(Entries)
      BY DEF WInv, IInv, BatchHeld, Attempting, Open, WorkerWaits, TypeOK
    <3>2. Unsaved = pending
      BY <3>1, ConcatEmptySeq DEF Unsaved
    <3>3. Len(Unsaved) = accepted - durable
      BY <1>2 DEF WInv, IInv, QueueInOrder
    <3>4. pending # <<>>
      BY <1>2, <2>2, <3>2, <3>3
    <3>5. QED
      BY <1>4, <2>2, <3>4 DEF WInv, WakeupReachesWorker
  <2>4. TargetsAsked'
    BY <1>1, <1>2, <1>4, <2>1 DEF WInv, TargetsAsked
  <2>5. SleepersHaveWork'
    BY <1>1, <1>2, <1>4 DEF WInv, SleepersHaveWork, Failed
  <2>6. AttemptUnfailed'
    BY <1>1 DEF WInv, AttemptUnfailed, Attempting, Failed
  <2>7. WakeupReachesWorker'
    BY <1>1, <2>3 DEF WakeupReachesWorker, WorkerWaits
  <2>8. QED
    BY <2>4, <2>5, <2>6, <2>7
<1>5. QED
  BY <1>3, <1>4 DEF FlushCheck

\* The worker waits only without work, and when nobody waits for it.
LEMMA WorkerWaitsIdle ==
  ASSUME WInv, WorkerWait \/ WorkerWaitTimeout
  PROVE  (TargetsAsked /\ SleepersHaveWork /\ AttemptUnfailed /\ WakeupReachesWorker)'
<1>1. /\ UNCHANGED <<stateVars, batch, outcome, flushVars>>
      /\ worker = "running" /\ ~Exits /\ worker' \in {"waiting", "waiting_timeout"}
  BY DEF WorkerWait, WorkerWaitTimeout
<1>2. /\ \A f \in Flushers : target[f] \in Nat
      /\ durable \in Nat /\ force \in Nat /\ accepted \in Nat /\ Open
      /\ batch = <<>> /\ pending \in Seq(Entries)
  BY <1>1 DEF WInv, IInv, TypeOK, BatchHeld, Attempting, Open
<1>3. \A f \in Flushers : flusher[f] # "waiting"
  <2> SUFFICES ASSUME NEW f \in Flushers, flusher[f] = "waiting" PROVE FALSE
    OBVIOUS
  <2>1. durable < target[f] /\ ~Failed
    BY <1>1 DEF WInv, SleepersHaveWork
  <2>2. target[f] <= force /\ force <= accepted
    BY <1>2 DEF WInv, TargetsAsked
  <2>3. force > durable /\ accepted > durable
    BY <1>2, <2>1, <2>2
  <2>4. CASE WorkerWait
    <3>1. pending = <<>>
      BY <2>1, <2>4 DEF WorkerWait
    <3>2. Len(Unsaved) = 0 /\ Len(Unsaved) = accepted - durable
      BY <1>2, <3>1, EmptySeq, ConcatEmptySeq DEF Unsaved, WInv, IInv, QueueInOrder
    <3>3. QED
      BY <1>2, <2>3, <3>2
  <2>5. CASE WorkerWaitTimeout
    BY <2>3, <2>5 DEF WorkerWaitTimeout, Due
  <2>6. QED
    BY <2>4, <2>5
<1>4. \/ worker' = "waiting" /\ (pending = <<>> \/ Failed)
      \/ worker' = "waiting_timeout" /\ ~Due(FALSE)
  BY DEF WorkerWait, WorkerWaitTimeout
<1>5. ~Failed => ~closing
  <2>1. CASE WorkerWait
    BY <1>1, <2>1 DEF WorkerWait, Exits
  <2>2. CASE WorkerWaitTimeout
    <3> SUFFICES ASSUME closing PROVE FALSE
      OBVIOUS
    <3>1. force = accepted /\ ~(force > durable)
      BY <2>2 DEF WorkerWaitTimeout, Due, WInv, TargetsAsked
    <3>2. Len(Unsaved) = accepted - durable /\ Unsaved = pending /\ pending # <<>>
      BY <1>2, <2>2, ConcatEmptySeq DEF WorkerWaitTimeout, Unsaved, WInv, IInv, QueueInOrder
    <3>3. Len(pending) \in Nat \ {0}
      BY <1>2, <3>2, EmptySeq
    <3>4. QED
      BY <1>2, <3>1, <3>2, <3>3
  <2>3. QED
    BY <2>1, <2>2
<1>6. WakeupReachesWorker'
  BY <1>1, <1>3, <1>4, <1>5 DEF WakeupReachesWorker, WorkerWaits, stateVars, flushVars,
     Failed, Due
<1>7. (TargetsAsked /\ SleepersHaveWork /\ AttemptUnfailed)'
  BY <1>1, <1>2, <1>3 DEF WInv, TargetsAsked, SleepersHaveWork, AttemptUnfailed,
     Attempting, Failed, stateVars, flushVars
<1>8. QED
  BY <1>6, <1>7

\* The worker acknowledges, or reports a failure, to everyone.
LEMMA WorkerNotifies ==
  ASSUME WInv, FinishCommitted \/ NotifyFailure
  PROVE  (TargetsAsked /\ SleepersHaveWork /\ AttemptUnfailed /\ WakeupReachesWorker)'
<1>1. /\ NotifyAll /\ worker' = "running" /\ Open /\ Open'
      /\ UNCHANGED <<force, accepted, closing, failure, target>>
  BY DEF FinishCommitted, NotifyFailure, stateVars, Open
<1>2. flusher \in [Flushers -> {"idle", "woken", "waiting"}]
  BY DEF WInv, IInv, TypeOK
<1>3. \A f \in Flushers : /\ flusher'[f] # "waiting"
                          /\ flusher'[f] = "idle" <=> flusher[f] = "idle"
  BY <1>1, <1>2 DEF NotifyAll
<1>4. QED
  BY <1>1, <1>3 DEF WInv, TargetsAsked, SleepersHaveWork, AttemptUnfailed,
     WakeupReachesWorker, Attempting, WorkerWaits

LEMMA WorkerWakes ==
  ASSUME WInv, Worker
  PROVE  (TargetsAsked /\ SleepersHaveWork /\ AttemptUnfailed /\ WakeupReachesWorker)'
<1> DEFINE Kept == (TargetsAsked /\ SleepersHaveWork /\ AttemptUnfailed
                    /\ WakeupReachesWorker)'
<1>1. ASSUME UNCHANGED <<durable, failure, force, accepted, closing, flusher, target>>,
             Open' => Open, ~WorkerWaits', worker = "notifying" => worker' = "notifying",
             AttemptUnfailed'
      PROVE  Kept
  <2>1. TargetsAsked'
    BY <1>1 DEF WInv, TargetsAsked
  <2>2. SleepersHaveWork'
    BY <1>1 DEF WInv, SleepersHaveWork, Failed
  <2>3. WakeupReachesWorker'
    BY <1>1 DEF WakeupReachesWorker
  <2>4. QED
    BY <1>1, <2>1, <2>2, <2>3
<1>2. CASE WorkerExit \/ WorkerTimeout
  <2>1. AttemptUnfailed'
    BY <1>2 DEF WorkerExit, WorkerTimeout, AttemptUnfailed, Attempting
  <2>2. QED
    BY <1>1, <1>2, <2>1 DEF WorkerExit, WorkerTimeout, stateVars, flushVars, Open, WorkerWaits
<1>3. CASE WorkerTake
  <2>1. AttemptUnfailed'
    BY <1>3 DEF WorkerTake, AttemptUnfailed, Attempting, Failed
  <2>2. QED
    BY <1>1, <1>3, <2>1 DEF WorkerTake, flushVars, Open, WorkerWaits
<1>4. CASE EncodeCheckpoint
  <2>1. AttemptUnfailed'
    BY <1>4 DEF EncodeCheckpoint, WInv, AttemptUnfailed, Attempting, Failed, stateVars,
       CheckpointCapacity, Retryable, NoFailure
  <2>2. QED
    BY <1>1, <1>4, <2>1 DEF EncodeCheckpoint, stateVars, flushVars, Open, WorkerWaits
<1>5. CASE CommitBatch
  <2>1. AttemptUnfailed'
    BY <1>5 DEF CommitBatch, WInv, AttemptUnfailed, Attempting, Failed, stateVars,
       Retryable, NoFailure
  <2>2. QED
    BY <1>1, <1>5, <2>1 DEF CommitBatch, stateVars, flushVars, Open, WorkerWaits
<1>6. CASE FinishFailed
  <2>1. /\ UNCHANGED <<durable, force, accepted, closing, flusher, target>>
        /\ worker = "failed" /\ worker' = "notifying"
    BY <1>6 DEF FinishFailed, flushVars
  <2>2. TargetsAsked'
    BY <2>1 DEF WInv, TargetsAsked, Open
  <2>3. SleepersHaveWork'
    BY <2>1 DEF WInv, SleepersHaveWork
  <2>4. QED
    BY <2>1, <2>2, <2>3 DEF AttemptUnfailed, WakeupReachesWorker, WorkerWaits, Attempting
<1>7. QED
  BY <1>2, <1>3, <1>4, <1>5, <1>6, WorkerWaitsIdle, WorkerNotifies DEF Worker

LEMMA OtherWakes ==
  ASSUME WInv, \/ Age \/ RequestFlush \/ SpuriousWake \/ Close \/ Crash \/ Reopen
               \/ \E f \in Flushers : Flush(f)
  PROVE  (TargetsAsked /\ SleepersHaveWork /\ AttemptUnfailed /\ WakeupReachesWorker)'
<1> DEFINE Kept == (TargetsAsked /\ SleepersHaveWork /\ AttemptUnfailed
                    /\ WakeupReachesWorker)'
<1>1. /\ flusher \in [Flushers -> {"idle", "woken", "waiting"}]
      /\ target \in [Flushers -> Nat]
      /\ force \in Nat /\ accepted \in Nat /\ force <= accepted
  BY DEF WInv, IInv, TypeOK, TargetsAsked
<1>2. CASE Age
  BY <1>2, UnnoticedStep DEF Age, workerVars, flushVars
<1>3. CASE RequestFlush
  <2>1. RequestFlushThen(flusher) /\ Open /\ target' = target
    BY <1>3 DEF RequestFlush
  <2>2. \A f \in Flushers : flusher[f] # "idle" => target[f] <= accepted
    BY <1>1, <2>1 DEF WInv, TargetsAsked
  <2>3. QED
    BY <1>1, <2>1, <2>2, RequestWakes
<1>4. ASSUME NEW f \in Flushers, Flush(f) PROVE Kept
  <2> DEFINE fl == [flusher EXCEPT ![f] = "woken"]
  <2>1. RequestFlushThen(fl) /\ Open /\ target' = [target EXCEPT ![f] = accepted]
    BY <1>4 DEF Flush
  <2>2. fl \in [Flushers -> {"idle", "woken", "waiting"}]
    BY <1>1
  <2>3. target' \in [Flushers -> Nat]
    BY <1>1, <2>1
  <2>4. /\ \A g \in Flushers : fl[g] = "waiting" => flusher[g] = "waiting"
        /\ \A g \in Flushers : fl[g] # "idle" => target'[g] <= accepted
        /\ \A g \in Flushers : fl[g] = "waiting" => target'[g] = target[g]
    BY <1>1, <2>1 DEF WInv, TargetsAsked
  <2> HIDE DEF fl
  <2>5. QED
    BY <2>1, <2>2, <2>3, <2>4, RequestWakes
<1>5. CASE SpuriousWake
  <2>1. /\ UNCHANGED <<stateVars, outcome, target>> /\ (Open' <=> Open)
        /\ \A f \in Flushers : flusher'[f] = "waiting" => flusher[f] = "waiting"
        /\ \A f \in Flushers : flusher'[f] = "idle" <=> flusher[f] = "idle"
        /\ worker' = worker \/ (worker = "waiting" /\ worker' = "running")
    BY <1>1, <1>5 DEF SpuriousWake, Open
  <2>2. TargetsAsked'
    BY <2>1 DEF WInv, TargetsAsked, stateVars
  <2>3. SleepersHaveWork'
    BY <2>1 DEF WInv, SleepersHaveWork, Failed, stateVars
  <2>4. AttemptUnfailed'
    BY <2>1 DEF WInv, AttemptUnfailed, Attempting, Failed, stateVars
  <2>5. WakeupReachesWorker'
    BY <2>1 DEF WInv, WakeupReachesWorker, WorkerWaits, Failed, stateVars
  <2>6. QED
    BY <2>2, <2>3, <2>4, <2>5
<1>6. CASE Close
  <2>1. /\ NotifyOne(flusher) /\ UNCHANGED <<durable, target, failure, outcome, accepted>>
        /\ force' = accepted
    BY <1>6 DEF Close
  <2>2. QED
    BY <1>1, <2>1, NotifyStep
<1>7. CASE Crash \/ Reopen
  <2>1. /\ \A f \in Flushers : flusher'[f] = "idle"
        /\ worker' \in {"down", "running"}
    BY <1>7 DEF Crash, Reopen, ForgetMemory
  <2>2. force' <= accepted' /\ ~closing'
    <3>1. LastSequence \in Nat
      BY ConstantsAssumption DEF WInv, IInv, FileAhead
    <3>2. QED
      BY <1>1, <1>7, <3>1 DEF Crash, Reopen, ForgetMemory
  <2>3. QED
    BY <2>1, <2>2 DEF TargetsAsked, SleepersHaveWork, AttemptUnfailed,
       WakeupReachesWorker, Attempting, WorkerWaits
<1>8. QED
  BY <1>2, <1>3, <1>4, <1>5, <1>6, <1>7

LEMMA WInvInit == Init => WInv
<1> SUFFICES ASSUME Init PROVE WInv
  OBVIOUS
<1>1. IInv
  BY IInvInit
<1>2. QED
  BY <1>1 DEF Init, WInv, TargetsAsked, SleepersHaveWork, AttemptUnfailed,
     WakeupReachesWorker, Attempting, WorkerWaits

LEMMA WInvStep == WInv /\ [Next]_vars => WInv'
<1> SUFFICES ASSUME WInv, [Next]_vars PROVE WInv'
  OBVIOUS
<1>1. IInv'
  BY IInvStep DEF WInv
<1>2. CASE Next
  BY <1>1, <1>2, PushWakes, FlushCheckWakes, WorkerWakes, OtherWakes DEF WInv, Next
<1>3. CASE UNCHANGED vars
  BY <1>1, <1>3, UnnoticedStep DEF WInv, vars, stateVars, workerVars, flushVars
<1>4. QED
  BY <1>2, <1>3

-----------------------------------------------------------------------------
(* The theorems *)

\* No wakeup is lost, for any number of flushers: whatever order requests,
\* refusals, timeouts and failures come in, a worker that waits owes no work
\* and nobody waits for it.
THEOREM WakeupsReachTheWorker == Spec => []WakeupReachesWorker
<1>1. WInv => WakeupReachesWorker
  BY DEF WInv
<1>2. QED
  BY <1>1, WInvInit, WInvStep, PTL DEF Spec

LEMMA FailureStep ==
  ASSUME WInv, [Next]_vars, Failed
  PROVE  /\ opens' = opens => accepted' = accepted
         /\ BlocksRetry /\ Open' /\ opens' = opens => Failed' /\ batch' = <<>>
<1> DEFINE Stopped == /\ opens' = opens => accepted' = accepted
                      /\ BlocksRetry /\ Open' /\ opens' = opens => Failed' /\ batch' = <<>>
<1>1. ~Attempting /\ (Open => batch = <<>>)
  BY DEF WInv, IInv, AttemptUnfailed, BatchHeld
<1>2. ASSUME UNCHANGED <<accepted, failure, batch>>, Open' => Open PROVE Stopped
  BY <1>1, <1>2 DEF Failed
<1>3. ASSUME UNCHANGED <<accepted, failure, batch>>, NEW fl, NotifyOne(fl) PROVE Stopped
  BY <1>2, <1>3, NotifyKeepsOpen
<1>4. CASE Push
  <2>1. ASSUME NEW kind, NEW copied, NEW admit, PushBegin(kind, copied, admit) PROVE Stopped
    BY <1>2, <2>1 DEF PushBegin, stateVars, workerVars, Open
  <2>2. ASSUME NEW oversized, PushPrepare(oversized) PROVE Stopped
    BY <1>2, <1>3, <2>2 DEF PushPrepare, RefuseFailed, RefuseFull, Open
  <2>3. CASE PushRefused
    BY <1>2, <1>3, <2>3 DEF PushRefused, RefuseFailed, RefuseFull, Open
  <2>4. CASE PushAccept
    BY <2>4 DEF PushAccept, MayStillJoin, MayJoin
  <2>5. QED
    BY <1>4, <2>1, <2>2, <2>3, <2>4 DEF Push
<1>5. CASE Age \/ SpuriousWake
  BY <1>2, <1>5 DEF Age, SpuriousWake, stateVars, workerVars, Open
<1>6. ASSUME NEW fl, RequestFlushThen(fl), Open PROVE Stopped
  BY <1>1, <1>6 DEF RequestFlushThen, Failed
<1>7. CASE RequestFlush
  BY <1>6, <1>7 DEF RequestFlush
<1>8. ASSUME NEW f \in Flushers, Flush(f) \/ FlushCheck(f) PROVE Stopped
  <2> DEFINE fl == [flusher EXCEPT ![f] = "woken"]
  <2>1. CASE Flush(f)
    <3>1. RequestFlushThen(fl) /\ Open
      BY <2>1 DEF Flush
    <3> HIDE DEF fl
    <3>2. QED
      BY <1>6, <3>1
  <2>2. CASE FlushCheck(f)
    BY <1>2, <2>2 DEF FlushCheck, stateVars, workerVars, Open
  <2>3. QED
    BY <1>8, <2>1, <2>2
<1>9. CASE Worker
  BY <1>1, <1>2, <1>9 DEF Worker, WorkerExit, WorkerWait, WorkerWaitTimeout, WorkerTimeout,
     WorkerTake, EncodeCheckpoint, CommitBatch, FinishCommitted, FinishFailed,
     NotifyFailure, Attempting, stateVars, Open
<1>10. CASE Close
  BY <1>3, <1>10 DEF Close
<1>11. CASE Crash
  BY <1>11 DEF Crash, Open
<1>12. CASE Reopen
  BY <1>12 DEF Reopen, WInv, IInv, TypeOK
<1>13. CASE UNCHANGED vars
  BY <1>2, <1>13 DEF vars, stateVars, workerVars, Open
<1>14. QED
  BY <1>4, <1>5, <1>7, <1>8, <1>9, <1>10, <1>11, <1>12, <1>13 DEF Next

\* While the save has failed nothing is admitted, and a snapshot too large to
\* encode is not attempted again before it is replaced.
THEOREM FailuresStopAdmission == Spec => FailureStopsAdmission
<1>1. Spec => []WInv
  BY WInvInit, WInvStep, PTL DEF Spec
<1>2. WInv /\ [Next]_vars =>
        [Failed =>
           /\ opens' = opens => accepted' = accepted
           /\ BlocksRetry /\ Open' /\ opens' = opens => Failed' /\ batch' = <<>>]_vars
  BY FailureStep
<1>3. QED
  BY <1>1, <1>2, PTL DEF Spec, FailureStopsAdmission

-----------------------------------------------------------------------------
(* Sums.  A fold of + is the same whatever its order *)



\* A set that holds zero and with each number its successor holds them all.
LEMMA NumbersReached ==
  ASSUME NEW P, 0 \in P, \A n \in Nat : n \in P => n + 1 \in P
  PROVE  Nat \subseteq P
<1> DEFINE T == {n \in Nat : n \notin P}
<1>1. SUFFICES ASSUME T # {} PROVE FALSE
  OBVIOUS
<1>2. IsWellFoundedOn(OpToRel(<, Nat), Nat)
  BY NatLessThanWellFounded
<1>3. \E x \in T : \A y \in T : <<y, x>> \notin OpToRel(<, Nat)
  BY <1>1, <1>2, WFMin
<1>4. PICK x \in T : \A y \in T : ~(y < x)
  BY <1>3 DEF OpToRel
<1>5. QED
  BY <1>4

\* A set of sets that holds the empty set, and with a subset of S also the
\* subset with one more element of S, holds S if S is finite.
LEMMA SubsetsReached ==
  ASSUME NEW S, IsFiniteSet(S), NEW P, {} \in P,
         \A s \in SUBSET S : \A x \in S \ s : s \in P => s \cup {x} \in P
  PROVE  \A s \in SUBSET S : s \in P
<1> DEFINE Q == {n \in Nat : \A s \in SUBSET S : Cardinality(s) = n => s \in P}
<1>1. \A s \in SUBSET S : IsFiniteSet(s) /\ Cardinality(s) \in Nat
  BY FS_Subset, FS_CardinalityType
<1>2. 0 \in Q
  BY <1>1, FS_EmptySet
<1>3. ASSUME NEW n \in Nat, n \in Q PROVE n + 1 \in Q
  <2> SUFFICES ASSUME NEW s \in SUBSET S, Cardinality(s) = n + 1 PROVE s \in P
    OBVIOUS
  <2>1. IsFiniteSet(s) /\ Cardinality({}) = 0 /\ n + 1 # 0
    BY <1>1, FS_EmptySet
  <2>2. PICK x \in s : TRUE
    BY <2>1
  <2>3. Cardinality(s \ {x}) = n
    <3>1. Cardinality(s \ {x}) = Cardinality(s) - 1
      BY <2>1, <2>2, FS_RemoveElement
    <3>2. QED
      BY <3>1
  <2>4. s \ {x} \in P
    BY <1>3, <2>3
  <2>5. s = (s \ {x}) \cup {x} /\ x \in S \ (s \ {x}) /\ s \ {x} \in SUBSET S
    BY <2>2
  <2>6. (s \ {x}) \cup {x} \in P
    BY <2>4, <2>5
  <2>7. QED
    BY <2>5, <2>6
<1>4. Nat \subseteq Q
  <2> HIDE DEF Q
  <2>1. QED
    BY <1>2, <1>3, NumbersReached
<1>5. QED
  BY <1>1, <1>4

\* What a fold of + over a function is: it says what every set of arguments sums to.
Sums(it, f) ==
  /\ it \in [SUBSET DOMAIN f -> Int]
  /\ it[{}] = 0
  /\ \A s \in SUBSET DOMAIN f : \A x \in DOMAIN f \ s : it[s \cup {x}] = it[s] + f[x]

Chosen(s) == CHOOSE x \in s : TRUE

\* The recursion of MapThenFoldSet.
Iterates(it, f) ==
  it = [s \in SUBSET DOMAIN f |->
          IF s = {} THEN 0 ELSE f[Chosen(s)] + it[s \ {Chosen(s)}]]

\* The iteration that a fold is defined by exists.
LEMMA IterationExists ==
  ASSUME NEW S, IsFiniteSet(S), NEW f \in [S -> Int]
  PROVE  \E it \in [SUBSET S -> Int] : Iterates(it, f)
<1> DEFINE Good(g, s) == g[s] = IF s = {} THEN 0
                                ELSE f[Chosen(s)] + g[s \ {Chosen(s)}]
           Upto(g, n) == \A s \in SUBSET S : Cardinality(s) <= n => Good(g, s)
           P == {n \in Nat : \E g \in [SUBSET S -> Int] : Upto(g, n)}
<1>1. \A s \in SUBSET S : IsFiniteSet(s) /\ Cardinality(s) \in Nat
  BY FS_Subset, FS_CardinalityType
<1>2. \A s \in SUBSET S : s # {} => /\ Chosen(s) \in s
                                    /\ Cardinality(s \ {Chosen(s)}) = Cardinality(s) - 1
  <2> SUFFICES ASSUME NEW s \in SUBSET S, s # {}
               PROVE  Chosen(s) \in s /\ Cardinality(s \ {Chosen(s)}) = Cardinality(s) - 1
    OBVIOUS
  <2>1. Chosen(s) \in s
    BY DEF Chosen
  <2>2. QED
    BY <1>1, <2>1, FS_RemoveElement
<1>3. 0 \in P
  <2> DEFINE g == [s \in SUBSET S |-> 0]
  <2>1. g \in [SUBSET S -> Int]
    OBVIOUS
  <2>2. \A s \in SUBSET S : Cardinality(s) <= 0 => s = {}
    BY <1>1, FS_EmptySet
  <2>3. Upto(g, 0)
    BY <2>2
  <2> HIDE DEF g
  <2>4. QED
    BY <2>1, <2>3
<1>4. ASSUME NEW n \in Nat, n \in P PROVE n + 1 \in P
  <2>1. PICK g \in [SUBSET S -> Int] : Upto(g, n)
    BY <1>4
  <2> DEFINE h == [s \in SUBSET S |->
                     IF Cardinality(s) = n + 1
                       THEN f[Chosen(s)] + g[s \ {Chosen(s)}] ELSE g[s]]
  <2>2. \A s \in SUBSET S : Cardinality(s) = n + 1 => s # {}
    <3>1. Cardinality({}) = 0 /\ n + 1 # 0
      BY FS_EmptySet
    <3>2. QED
      BY <3>1
  <2>3. h \in [SUBSET S -> Int]
    BY <1>2, <2>2
  <2>4. \A s \in SUBSET S : Cardinality(s) <= n => h[s] = g[s]
    BY <1>1
  <2>5. Upto(h, n + 1)
    <3> SUFFICES ASSUME NEW s \in SUBSET S, Cardinality(s) <= n + 1 PROVE Good(h, s)
      OBVIOUS
    <3>1. CASE Cardinality(s) = n + 1
      <4>1. s # {} /\ s \ {Chosen(s)} \in SUBSET S /\ Cardinality(s \ {Chosen(s)}) <= n
        BY <1>2, <2>2, <3>1
      <4>2. h[s \ {Chosen(s)}] = g[s \ {Chosen(s)}]
        BY <2>4, <4>1
      <4>3. QED
        BY <3>1, <4>1, <4>2
    <3>2. CASE Cardinality(s) <= n
      <4>1. Good(g, s)
        BY <2>1, <3>2
      <4>2. s # {} => s \ {Chosen(s)} \in SUBSET S /\ Cardinality(s \ {Chosen(s)}) <= n
        BY <1>1, <1>2, <3>2
      <4> HIDE DEF h
      <4>3. QED
        BY <2>4, <3>2, <4>1, <4>2
    <3>3. Cardinality(s) \in Nat
      BY <1>1
    <3>4. Cardinality(s) <= n \/ Cardinality(s) = n + 1
      BY <3>3
    <3> HIDE DEF h, Good
    <3>5. QED
      BY <3>1, <3>2, <3>4
  <2> HIDE DEF h
  <2>6. QED
    BY <2>3, <2>5, SMTT(30)
<1>5. Nat \subseteq P
  <2> HIDE DEF P
  <2>1. QED
    BY <1>3, <1>4, NumbersReached
<1>6. Cardinality(S) \in P
  BY <1>1, <1>5
<1>7. PICK it \in [SUBSET S -> Int] : Upto(it, Cardinality(S))
  BY <1>6
<1>8. \A s \in SUBSET S : Cardinality(s) <= Cardinality(S)
  BY FS_Subset
<1>9. \A s \in SUBSET S : Good(it, s)
  BY <1>7, <1>8
<1>10. QED
  BY <1>9 DEF Iterates

\* It yields an integer for every subset.
LEMMA IterationType ==
  ASSUME NEW S, IsFiniteSet(S), NEW f \in [S -> Int], NEW it, Iterates(it, f)
  PROVE  it \in [SUBSET S -> Int]
<1> DEFINE P == {n \in Nat : \A s \in SUBSET S : Cardinality(s) <= n => it[s] \in Int}
<1>1. \A s \in SUBSET S : IsFiniteSet(s) /\ Cardinality(s) \in Nat
  BY FS_Subset, FS_CardinalityType
<1>2. /\ it[{}] = 0
      /\ \A s \in SUBSET S : s # {} => /\ Chosen(s) \in s
                                       /\ it[s] = f[Chosen(s)] + it[s \ {Chosen(s)}]
  BY DEF Iterates, Chosen
<1>3. 0 \in P
  <2> SUFFICES ASSUME NEW s \in SUBSET S, Cardinality(s) <= 0 PROVE it[s] \in Int
    OBVIOUS
  <2>1. s = {}
    BY <1>1, FS_EmptySet
  <2>2. QED
    BY <1>2, <2>1
<1>4. ASSUME NEW n \in Nat, n \in P PROVE n + 1 \in P
  <2> SUFFICES ASSUME NEW s \in SUBSET S, Cardinality(s) <= n + 1 PROVE it[s] \in Int
    OBVIOUS
  <2>1. CASE s = {}
    BY <1>2, <2>1
  <2>2. CASE s # {}
    <3> DEFINE c == Chosen(s)
    <3>1. c \in s /\ it[s] = f[c] + it[s \ {c}]
      BY <1>2, <2>2
    <3> HIDE DEF c
    <3>2. Cardinality(s \ {c}) <= n /\ s \ {c} \in SUBSET S
      BY <1>1, <3>1, FS_RemoveElement
    <3>3. it[s \ {c}] \in Int /\ f[c] \in Int
      BY <1>4, <3>1, <3>2
    <3>4. QED
      BY <3>1, <3>3
  <2>3. QED
    BY <2>1, <2>2
<1>5. Nat \subseteq P
  <2> HIDE DEF P
  <2>1. QED
    BY <1>3, <1>4, NumbersReached
<1>6. \A s \in SUBSET S : it[s] \in Int
  <2> SUFFICES ASSUME NEW s \in SUBSET S PROVE it[s] \in Int
    OBVIOUS
  <2>1. Cardinality(s) \in P /\ Cardinality(s) \in Nat
    BY <1>1, <1>5
  <2>2. QED
    BY <2>1
<1>7. it = [s \in SUBSET S |-> it[s]]
  BY DEF Iterates
<1>8. QED
  BY <1>6, <1>7

\* The order of the recursion does not matter.
LEMMA IterationSums ==
  ASSUME NEW S, IsFiniteSet(S), NEW f \in [S -> Int], NEW it, Iterates(it, f),
         it \in [SUBSET S -> Int]
  PROVE  Sums(it, f)
<1> DEFINE P == {n \in Nat : \A s \in SUBSET S : \A x \in S \ s :
                   Cardinality(s) <= n => it[s \cup {x}] = it[s] + f[x]}
<1>1. \A s \in SUBSET S : IsFiniteSet(s) /\ Cardinality(s) \in Nat
  BY FS_Subset, FS_CardinalityType
<1>2. /\ it[{}] = 0
      /\ \A s \in SUBSET S : s # {} => /\ Chosen(s) \in s
                                       /\ it[s] = f[Chosen(s)] + it[s \ {Chosen(s)}]
  BY DEF Iterates, Chosen
<1>3. 0 \in P
  <2> SUFFICES ASSUME NEW s \in SUBSET S, NEW x \in S \ s, Cardinality(s) <= 0
               PROVE  it[s \cup {x}] = it[s] + f[x]
    OBVIOUS
  <2>1. s = {} /\ {x} \in SUBSET S /\ s \cup {x} = {x} /\ {x} # {}
    BY <1>1, FS_EmptySet
  <2>2. Chosen({x}) = x /\ it[{x}] = f[Chosen({x})] + it[{x} \ {Chosen({x})}]
    BY <1>2, <2>1
  <2>3. {x} \ {x} = {}
    OBVIOUS
  <2>4. QED
    BY <1>2, <2>1, <2>2, <2>3
<1>4. ASSUME NEW n \in Nat, n \in P PROVE n + 1 \in P
  <2> SUFFICES ASSUME NEW s \in SUBSET S, NEW x \in S \ s, Cardinality(s) <= n + 1
               PROVE  it[s \cup {x}] = it[s] + f[x]
    OBVIOUS
  <2> DEFINE t == s \cup {x}
             c == Chosen(t)
  <2>1. t \in SUBSET S /\ t # {} /\ c \in t /\ it[t] = f[c] + it[t \ {c}]
    BY <1>2
  <2>2. CASE c = x
    <3>1. t \ {c} = s
      BY <2>2
    <3>2. it[t] = f[x] + it[s] /\ it[s] \in Int /\ f[x] \in Int
      <4> HIDE DEF c, t
      <4>1. QED
        BY <2>1, <2>2, <3>1
    <3>3. QED
      BY <3>2
  <2>3. CASE c # x
    <3> DEFINE r == s \ {c}
    <3>1. /\ c \in s /\ r \in SUBSET S /\ t \ {c} = r \cup {x} /\ s = r \cup {c}
          /\ x \in S \ r /\ c \in S \ r
      <4>1. c \in t
        BY <2>1
      <4> HIDE DEF c
      <4>2. QED
        BY <2>3, <4>1
    <3>2. Cardinality(r) <= n
      <4> HIDE DEF c
      <4>1. QED
        BY <1>1, <3>1, FS_RemoveElement
    <3> HIDE DEF r, c, t
    <3>3. it[r \cup {x}] = it[r] + f[x] /\ it[r \cup {c}] = it[r] + f[c]
      BY <1>4, <3>1, <3>2
    <3>4. it[t] = f[c] + it[r \cup {x}] /\ it[s] = it[r \cup {c}]
      BY <2>1, <3>1
    <3>5. f[c] \in Int /\ f[x] \in Int /\ it[r] \in Int
      BY <3>1
    <3>6. it[t] = it[s] + f[x]
      BY <3>3, <3>4, <3>5
    <3>7. QED
      BY <3>6 DEF t
  <2>4. QED
    BY <2>2, <2>3
<1>5. Nat \subseteq P
  <2> HIDE DEF P
  <2>1. QED
    BY <1>3, <1>4, NumbersReached
<1>6. \A s \in SUBSET S : \A x \in S \ s : it[s \cup {x}] = it[s] + f[x]
  <2> SUFFICES ASSUME NEW s \in SUBSET S, NEW x \in S \ s
               PROVE  it[s \cup {x}] = it[s] + f[x]
    OBVIOUS
  <2>1. Cardinality(s) \in P /\ Cardinality(s) \in Nat
    BY <1>1, <1>5
  <2>2. QED
    BY <2>1
<1>7. QED
  BY <1>2, <1>6 DEF Sums

\* A fold of + over a finite set is the value that every sum over the set has.
LEMMA FoldSums ==
  ASSUME NEW S, IsFiniteSet(S), NEW f \in [S -> Int]
  PROVE  \E it : Sums(it, f) /\ FoldFunction(+, 0, f) = it[S]
<1> DEFINE it == CHOOSE it : Iterates(it, f)
<1>1. PICK known \in [SUBSET S -> Int] : Iterates(known, f)
  BY IterationExists
<1>2. Iterates(it, f)
  BY <1>1
<1>3. it \in [SUBSET S -> Int]
  <2> HIDE DEF it
  <2>1. QED
    BY <1>2, IterationType
<1>4. FoldFunction(+, 0, f) = it[S]
  BY DEF FoldFunction, FoldFunctionOnSet, MapThenFoldSet, Iterates, Chosen
<1>5. Sums(it, f)
  <2> HIDE DEF it
  <2>1. QED
    BY <1>2, <1>3, IterationSums
<1> HIDE DEF it
<1>6. QED
  BY <1>4, <1>5

Total(f) == FoldFunction(+, 0, f)

\* Two functions that agree on a finite set sum to the same over it.
LEMMA SumsAgree ==
  ASSUME NEW f, NEW g, NEW if, NEW ig, Sums(if, f), Sums(ig, g),
         NEW U, IsFiniteSet(U), U \subseteq DOMAIN f, U \subseteq DOMAIN g,
         \A x \in U : f[x] = g[x]
  PROVE  if[U] = ig[U]
<1> DEFINE P == {s \in SUBSET U : if[s] = ig[s]}
<1>1. {} \in P
  BY DEF Sums
<1>2. ASSUME NEW s \in SUBSET U, NEW x \in U \ s, s \in P PROVE s \cup {x} \in P
  <2>1. if[s \cup {x}] = if[s] + f[x] /\ ig[s \cup {x}] = ig[s] + g[x]
    BY DEF Sums
  <2>2. QED
    BY <1>2, <2>1
<1>3. U \in P
  <2> HIDE DEF P
  <2>1. QED
    BY <1>1, <1>2, SubsetsReached
<1>4. QED
  BY <1>3

\* A total of natural numbers is one, and no less than any of them.
LEMMA TotalBounds ==
  ASSUME NEW S, IsFiniteSet(S), NEW f \in [S -> Nat]
  PROVE  Total(f) \in Nat /\ \A x \in S : f[x] <= Total(f)
<1>1. PICK it : Sums(it, f) /\ Total(f) = it[S]
  <2>1. f \in [S -> Int]
    OBVIOUS
  <2>2. QED
    BY <2>1, FoldSums DEF Total
<1> DEFINE P == {s \in SUBSET S : it[s] \in Nat /\ \A x \in s : f[x] <= it[s]}
<1>2. {} \in P
  BY <1>1 DEF Sums
<1>3. ASSUME NEW s \in SUBSET S, NEW x \in S \ s, s \in P PROVE s \cup {x} \in P
  <2>1. it[s \cup {x}] = it[s] + f[x]
    BY <1>1 DEF Sums
  <2>2. f[x] \in Nat /\ \A y \in s : f[y] \in Nat
    OBVIOUS
  <2>3. QED
    BY <1>3, <2>1, <2>2
<1>4. S \in P
  <2> HIDE DEF P
  <2>1. QED
    BY <1>2, <1>3, SubsetsReached
<1>5. QED
  BY <1>1, <1>4

\* A sum over 1 .. n + 1 is the sum over 1 .. n and the last number.
LEMMA SumsNext ==
  ASSUME NEW q, NEW it, Sums(it, q), NEW n \in Nat, DOMAIN q = 1..n,
         NEW k \in Nat, k + 1 <= n
  PROVE  it[1..(k + 1)] = it[1..k] + q[k + 1] /\ it[1..k] \in Int
<1>1. \A i \in 1..(k + 1) : i \in 1..k \/ i = k + 1
  OBVIOUS
<1>2. 1..(k + 1) = (1..k) \cup {k + 1}
  BY <1>1
<1>3. 1..k \in SUBSET DOMAIN q /\ k + 1 \in DOMAIN q \ (1..k)
  OBVIOUS
<1> DEFINE U == 1..k
<1> HIDE DEF U
<1>4. it[U \cup {k + 1}] = it[U] + q[k + 1] /\ it[U] \in Int
  BY <1>3 DEF Sums, U
<1>5. QED
  BY <1>2, <1>4 DEF U

\* Nothing totals zero.
LEMMA TotalEmpty == Total(<<>>) = 0
<1>1. <<>> \in [{} -> Int]
  OBVIOUS
<1>2. IsFiniteSet({})
  BY FS_EmptySet
<1>3. PICK it : Sums(it, <<>>) /\ Total(<<>>) = it[{}]
  BY <1>1, <1>2, FoldSums DEF Total
<1>4. QED
  BY <1>3 DEF Sums

\* The total of a concatenation is that of its parts.
LEMMA TotalConcat ==
  ASSUME NEW q \in Seq(Int), NEW r \in Seq(Int)
  PROVE  Total(q \o r) = Total(q) + Total(r)
<1> DEFINE p == q \o r
           m == Len(q)
           n == Len(r)
<1>1. /\ m \in Nat /\ n \in Nat /\ Len(p) = m + n
      /\ q \in [1..m -> Int] /\ r \in [1..n -> Int] /\ p \in [1..(m + n) -> Int]
      /\ \A i \in 1..m : p[i] = q[i]
      /\ \A i \in 1..n : p[m + i] = r[i]
  <2>1. m \in Nat /\ n \in Nat /\ q \in [1..m -> Int] /\ r \in [1..n -> Int]
    BY LenProperties
  <2>2. /\ p \in Seq(Int) /\ Len(p) = m + n
        /\ \A i \in 1..(m + n) : p[i] = IF i <= m THEN q[i] ELSE r[i - m]
    BY ConcatProperties
  <2>3. p \in [1..(m + n) -> Int]
    BY <2>2, LenProperties
  <2> HIDE DEF p, m, n
  <2>4. \A i \in 1..m : i \in 1..(m + n) /\ i <= m
    BY <2>1
  <2>5. \A i \in 1..n : m + i \in 1..(m + n) /\ ~(m + i <= m) /\ (m + i) - m = i
    BY <2>1
  <2>6. \A i \in 1..n : p[m + i] = r[i]
    <3> SUFFICES ASSUME NEW i \in 1..n PROVE p[m + i] = r[i]
      OBVIOUS
    <3>1. p[m + i] = IF m + i <= m THEN q[m + i] ELSE r[(m + i) - m]
      BY <2>2, <2>5
    <3>2. QED
      BY <2>5, <3>1
  <2>7. QED
    BY <2>1, <2>2, <2>3, <2>4, <2>6
<1> HIDE DEF p, m, n
<1>2. IsFiniteSet(1..m) /\ IsFiniteSet(1..n) /\ IsFiniteSet(1..(m + n))
  BY <1>1, FS_Interval
<1>3. PICK ip : Sums(ip, p) /\ Total(p) = ip[1..(m + n)]
  BY <1>1, <1>2, FoldSums DEF Total
<1>4. PICK iq : Sums(iq, q) /\ Total(q) = iq[1..m]
  BY <1>1, <1>2, FoldSums DEF Total
<1>5. PICK ir : Sums(ir, r) /\ Total(r) = ir[1..n]
  BY <1>1, <1>2, FoldSums DEF Total
<1> DEFINE P == {k \in Nat : k <= n => ip[1..(m + k)] = iq[1..m] + ir[1..k]}
<1>6. DOMAIN p = 1..(m + n) /\ DOMAIN q = 1..m /\ DOMAIN r = 1..n
  BY <1>1
<1>7. iq[1..m] \in Int
  BY <1>4, <1>6 DEF Sums
<1>8. 0 \in P
  <2>1. ip[1..m] = iq[1..m]
    <3> DEFINE U == 1..m
    <3>1. U \subseteq DOMAIN p /\ U \subseteq DOMAIN q /\ IsFiniteSet(U)
      BY <1>1, <1>2, <1>6
    <3>2. \A i \in U : p[i] = q[i]
      BY <1>1
    <3> HIDE DEF U
    <3>3. ip[U] = iq[U]
      BY <1>3, <1>4, <3>1, <3>2, SumsAgree
    <3>4. QED
      BY <3>3 DEF U
  <2>2. 1..0 = {} /\ m + 0 = m /\ ir[{}] = 0
    BY <1>1, <1>5 DEF Sums
  <2>3. QED
    BY <1>7, <2>1, <2>2
<1>9. ASSUME NEW k \in Nat, k \in P PROVE k + 1 \in P
  <2> SUFFICES ASSUME k + 1 <= n PROVE ip[1..(m + (k + 1))] = iq[1..m] + ir[1..(k + 1)]
    OBVIOUS
  <2>1. ip[1..(m + k)] = iq[1..m] + ir[1..k]
    BY <1>1, <1>9
  <2>2. /\ m + n \in Nat /\ m + k \in Nat /\ m + (k + 1) = (m + k) + 1
        /\ (m + k) + 1 <= m + n
    BY <1>1
  <2>3. Sums(ip, p) /\ DOMAIN p = 1..(m + n)
    BY <1>3, <1>6
  <2>4. ip[1..((m + k) + 1)] = ip[1..(m + k)] + p[(m + k) + 1]
    <3> DEFINE a == m + n
               b == m + k
    <3>1. a \in Nat /\ b \in Nat /\ b + 1 <= a /\ DOMAIN p = 1..a
      BY <2>2, <2>3
    <3> HIDE DEF a, b
    <3>2. ip[1..(b + 1)] = ip[1..b] + p[b + 1]
      BY <2>3, <3>1, SumsNext
    <3>3. QED
      BY <3>2 DEF b
  <2>5. ir[1..(k + 1)] = ir[1..k] + r[k + 1] /\ ir[1..k] \in Int
    BY <1>1, <1>5, <1>6, SumsNext
  <2>6. p[m + (k + 1)] = r[k + 1] /\ r[k + 1] \in Int
    <3>1. k + 1 \in 1..n
      BY <1>1
    <3>2. QED
      BY <1>1, <3>1
  <2>7. ip[1..((m + k) + 1)] = (iq[1..m] + ir[1..k]) + r[k + 1]
    <3>1. ip[1..(m + k)] = iq[1..m] + ir[1..k]
      BY <2>1
    <3>2. p[(m + k) + 1] = r[k + 1]
      BY <2>2, <2>6
    <3>3. QED
      BY <2>4, <3>1, <3>2
  <2>8. QED
    BY <1>7, <2>1, <2>2, <2>5, <2>6, <2>7
<1>10. n \in P
  <2> HIDE DEF P
  <2>1. QED
    BY <1>1, <1>8, <1>9, NumbersReached
<1>11. QED
  BY <1>1, <1>3, <1>4, <1>5, <1>10 DEF p

\* One number is its own total.
LEMMA TotalSingle ==
  ASSUME NEW x \in Int
  PROVE  Total(<<x>>) = x
<1>1. IsFiniteSet({1})
  BY FS_Singleton
<1>2. <<x>> \in [{1} -> Int]
  OBVIOUS
<1>3. PICK it : Sums(it, <<x>>) /\ Total(<<x>>) = it[{1}]
  BY <1>1, <1>2, FoldSums DEF Total
<1>4. it[{} \cup {1}] = it[{}] + x /\ it[{}] = 0
  <2>1. DOMAIN <<x>> = {1} /\ {} \in SUBSET {1} /\ 1 \in {1} \ {} /\ <<x>>[1] = x
    OBVIOUS
  <2>2. QED
    BY <1>3, <2>1 DEF Sums
<1>5. {} \cup {1} = {1}
  OBVIOUS
<1>6. QED
  BY <1>3, <1>4, <1>5

\* Appending a number adds it.
LEMMA TotalAppend ==
  ASSUME NEW q \in Seq(Int), NEW x \in Int
  PROVE  Total(Append(q, x)) = Total(q) + x
<1>1. Append(q, x) = q \o <<x>> /\ <<x>> \in Seq(Int)
  BY AppendIsConcat
<1>2. QED
  BY <1>1, TotalConcat, TotalSingle

-----------------------------------------------------------------------------
(* The size of a queue *)

\* What the entries of a queue copy, with their frames.
SizesOf(q) == [i \in DOMAIN q |-> SizeOf(q[i])]

Weight(q) == FoldSeq(+, 0, SizesOf(q))

\* The counter agrees with a queue, and the limit was passed for one entry.
Exact(b, q) ==
  /\ b = Weight(q)
  /\ b > MaxPendingBytes => Len(q) = 1

\* The property, in this state and in the next.
LEMMA BytesRestated ==
  /\ PendingBytesExact <=> (Open => Exact(bytes, Unsaved))
  /\ PendingBytesExact' <=> (Open' => Exact(bytes', Unsaved'))
BY DEF PendingBytesExact, Exact, Weight, SizesOf, SizeOfAll, SizeOf, FrameBytes,
   FoldSeq, FoldFunction, FoldFunctionOnSet, MapThenFoldSet

\* What an entry copies has a size.
LEMMA CopiedNumbers ==
  /\ {0} \cup CopiedSizes \subseteq Nat
  /\ MaxPendingBytes \in Nat
<1>1. CopiedSizes \subseteq Nat /\ MaxPendingBytes \in Nat
  BY ConstantsAssumption
<1>2. QED
  BY <1>1

\* An entry has a size, at least that of its frame.
LEMMA EntrySize ==
  ASSUME NEW e \in Entries
  PROVE  SizeOf(e) \in Nat /\ SizeOf(e) >= 1 /\ SizeOf(e) = FrameBytes + e.copied
<1>1. e.copied \in {0} \cup CopiedSizes
  BY DEF Entries
<1>2. e.copied \in Nat
  BY <1>1, CopiedNumbers
<1>3. QED
  BY <1>2 DEF SizeOf, FrameBytes

\* The sizes of a queue's entries are numbers, one for each.
LEMMA SizesType ==
  ASSUME NEW q \in Seq(Entries)
  PROVE  /\ SizesOf(q) \in Seq(Nat) /\ SizesOf(q) \in Seq(Int)
         /\ Len(SizesOf(q)) = Len(q)
         /\ \A i \in 1..Len(q) : SizesOf(q)[i] = SizeOf(q[i])
<1> DEFINE n == Len(q)
<1>1. n \in Nat /\ DOMAIN q = 1..n /\ \A i \in 1..n : q[i] \in Entries
  BY LenProperties, ElementOfSeq
<1> HIDE DEF n
<1>2. SizesOf(q) = [i \in 1..n |-> SizeOf(q[i])]
  BY <1>1 DEF SizesOf
<1>3. \A i \in 1..n : SizeOf(q[i]) \in Nat
  BY <1>1, EntrySize
<1>4. SizesOf(q) \in [1..n -> Nat]
  BY <1>2, <1>3
<1>5. SizesOf(q) \in Seq(Nat) /\ Len(SizesOf(q)) = n
  BY <1>1, <1>4, SeqDef, LenProperties
<1>6. SizesOf(q) \in Seq(Int)
  BY <1>5, SeqMonotonic
<1>7. QED
  BY <1>2, <1>5, <1>6 DEF n

\* A queue's size is a number, zero only for the empty queue.
LEMMA QueueSize ==
  ASSUME NEW q \in Seq(Entries)
  PROVE  /\ Weight(q) \in Nat
         /\ q = <<>> => Weight(q) = 0
         /\ Weight(q) = 0 => q = <<>>
<1>1. Weight(q) = Total(SizesOf(q))
  BY DEF Weight, Total, FoldSeq
<1> DEFINE n == Len(q)
<1>2. n \in Nat /\ SizesOf(q) \in [1..n -> Nat]
  BY SizesType, LenProperties
<1>3. IsFiniteSet(1..n)
  BY <1>2, FS_Interval
<1> HIDE DEF n
<1>4. Weight(q) \in Nat /\ \A i \in 1..n : SizesOf(q)[i] <= Weight(q)
  BY <1>1, <1>2, <1>3, TotalBounds
<1>5. ASSUME q = <<>> PROVE Weight(q) = 0
  <2>1. SizesOf(q) = <<>>
    BY <1>5, SizesType, EmptySeq
  <2>2. QED
    BY <1>1, <2>1, TotalEmpty
<1>6. ASSUME q # <<>> PROVE Weight(q) # 0
  <2>1. 1 \in 1..n /\ q[1] \in Entries
    BY <1>2, <1>6, EmptySeq, LenProperties, ElementOfSeq DEF n
  <2>2. SizesOf(q)[1] = SizeOf(q[1]) /\ SizeOf(q[1]) >= 1 /\ SizeOf(q[1]) \in Nat
    BY <2>1, SizesType, EntrySize DEF n
  <2>3. SizesOf(q)[1] <= Weight(q)
    BY <1>4, <2>1
  <2>4. QED
    BY <1>4, <2>2, <2>3
<1>7. QED
  BY <1>4, <1>5, <1>6

\* Two queues behind each other.
LEMMA JoinedSize ==
  ASSUME NEW q \in Seq(Entries), NEW r \in Seq(Entries)
  PROVE  Weight(q \o r) = Weight(q) + Weight(r)
<1> DEFINE p == q \o r
<1>1. p \in Seq(Entries) /\ Len(p) = Len(q) + Len(r)
  BY ConcatProperties
<1>2. \A i \in 1..Len(p) : p[i] = IF i <= Len(q) THEN q[i] ELSE r[i - Len(q)]
  BY ConcatProperties
<1> HIDE DEF p
<1>3. Len(q) \in Nat /\ Len(r) \in Nat
  BY LenProperties
<1> DEFINE s == SizesOf(q) \o SizesOf(r)
<1>4. /\ s \in Seq(Int) /\ Len(s) = Len(q) + Len(r)
      /\ \A i \in 1..Len(s) : s[i] = IF i <= Len(q) THEN SizesOf(q)[i]
                                                    ELSE SizesOf(r)[i - Len(q)]
  <2>1. /\ SizesOf(q) \in Seq(Int) /\ SizesOf(r) \in Seq(Int)
        /\ Len(SizesOf(q)) = Len(q) /\ Len(SizesOf(r)) = Len(r)
    BY SizesType
  <2> DEFINE a == SizesOf(q)
             b == SizesOf(r)
  <2>2. /\ a \o b \in Seq(Int) /\ Len(a \o b) = Len(a) + Len(b)
        /\ \A i \in 1..Len(a \o b) :
             (a \o b)[i] = IF i <= Len(a) THEN a[i] ELSE b[i - Len(a)]
    <3> HIDE DEF a, b
    <3>1. a \in Seq(Int) /\ b \in Seq(Int)
      BY <2>1 DEF a, b
    <3>2. QED
      BY <3>1, ConcatProperties
  <2>3. QED
    BY <2>1, <2>2
<1> HIDE DEF s
<1>5. ASSUME NEW i \in 1..Len(p) PROVE SizesOf(p)[i] = s[i]
  <2>1. SizesOf(p)[i] = SizeOf(p[i])
    BY <1>1, SizesType
  <2>2. CASE i <= Len(q)
    <3>1. i \in 1..Len(q)
      BY <1>3, <2>2
    <3>2. SizesOf(q)[i] = SizeOf(q[i])
      BY <3>1, SizesType
    <3>3. QED
      BY <1>1, <1>2, <1>4, <2>1, <2>2, <3>2
  <2>3. CASE ~(i <= Len(q))
    <3>1. i - Len(q) \in 1..Len(r)
      BY <1>1, <1>3, <2>3
    <3>2. SizesOf(r)[i - Len(q)] = SizeOf(r[i - Len(q)])
      BY <3>1, SizesType
    <3>3. QED
      BY <1>1, <1>2, <1>4, <2>1, <2>3, <3>2
  <2>4. QED
    BY <2>2, <2>3
<1>6. SizesOf(p) \in Seq(Int) /\ Len(SizesOf(p)) = Len(s)
  BY <1>1, <1>4, SizesType
<1>7. SizesOf(p) = s
  BY <1>1, <1>4, <1>5, <1>6, SeqEqual
<1>8. Total(s) = Total(SizesOf(q)) + Total(SizesOf(r))
  BY SizesType, TotalConcat DEF s
<1>9. QED
  BY <1>7, <1>8 DEF Weight, Total, FoldSeq, p

\* An entry more.
LEMMA AppendedSize ==
  ASSUME NEW q \in Seq(Entries), NEW e \in Entries
  PROVE  Weight(Append(q, e)) = Weight(q) + SizeOf(e)
<1>1. /\ Append(q, e) \in Seq(Entries) /\ Len(Append(q, e)) = Len(q) + 1
      /\ \A i \in 1..Len(q) : Append(q, e)[i] = q[i]
      /\ Append(q, e)[Len(q) + 1] = e
  BY AppendProperties
<1>2. SizeOf(e) \in Int /\ Len(q) \in Nat /\ SizesOf(q) \in Seq(Int)
      /\ Len(SizesOf(q)) = Len(q)
  BY EntrySize, SizesType, LenProperties
<1> DEFINE a == SizeOf(e)
           s == Append(SizesOf(q), a)
           p == Append(q, e)
<1>3. /\ s \in Seq(Int) /\ Len(s) = Len(q) + 1
      /\ \A i \in 1..Len(q) : s[i] = SizesOf(q)[i]
      /\ s[Len(q) + 1] = a
  BY <1>2, AppendProperties
<1>4. \A i \in 1..Len(q) : SizesOf(q)[i] = SizeOf(q[i])
  BY SizesType
<1>5. /\ SizesOf(p) \in Seq(Int) /\ Len(SizesOf(p)) = Len(q) + 1
      /\ \A i \in 1..(Len(q) + 1) : SizesOf(p)[i] = SizeOf(p[i])
  BY <1>1, SizesType
<1>6. \A i \in 1..Len(q) : p[i] = q[i]
  BY <1>1
<1>7. p[Len(q) + 1] = e
  BY <1>1
<1> HIDE DEF s, p
<1>8. ASSUME NEW i \in 1..(Len(q) + 1) PROVE SizesOf(p)[i] = s[i]
  <2>1. CASE i \in 1..Len(q)
    BY <1>3, <1>4, <1>5, <1>6, <2>1
  <2>2. CASE i = Len(q) + 1
    BY <1>3, <1>5, <1>7, <2>2
  <2>3. QED
    BY <1>2, <2>1, <2>2
<1>9. SizesOf(p) = s
  BY <1>3, <1>5, <1>8, SeqEqual
<1>10. Total(s) = Total(SizesOf(q)) + a
  BY <1>2, TotalAppend DEF s
<1>11. QED
  BY <1>9, <1>10 DEF Weight, Total, FoldSeq, p

-----------------------------------------------------------------------------
(* The steps *)

\* A step that leaves the queue and its counter alone.
LEMMA SameBytes ==
  ASSUME PendingBytesExact, Open' => Open, Unsaved' = Unsaved, bytes' = bytes
  PROVE  PendingBytesExact'
BY BytesRestated DEF Exact

\* push counts what it appends; beyond the limit, only behind nothing.
LEMMA AcceptCounts ==
  ASSUME IInv, PendingBytesExact, PushAccept
  PROVE  PendingBytesExact'
<1> SUFFICES ASSUME Open' PROVE Exact(bytes', Unsaved')
  BY BytesRestated
<1>1. Open
  BY NotifyKeepsOpen DEF PushAccept
<1>2. Exact(bytes, Unsaved) /\ Unsaved \in Seq(Entries)
  BY <1>1, BytesRestated, UnsavedType DEF IInv
<1>3. PICK entry \in Entries : /\ Unsaved' = Append(Unsaved, entry)
                               /\ entry.copied = producer.copied
  BY AcceptedEntry
<1>4. bytes' = bytes + (FrameBytes + producer.copied)
  BY DEF PushAccept, SizeOf
<1>5. SizeOf(entry) \in Nat /\ SizeOf(entry) = FrameBytes + producer.copied
  BY <1>3, EntrySize
<1>6. producer.copied \in Nat
  <2>1. producer.copied \in {0} \cup CopiedSizes
    BY DEF IInv, TypeOK, Producers
  <2>2. QED
    BY <2>1, CopiedNumbers
<1>7. bytes = Weight(Unsaved) /\ bytes \in Nat
  BY <1>2, QueueSize DEF Exact
<1>8. bytes' = Weight(Unsaved')
  BY <1>2, <1>3, <1>4, <1>5, <1>6, <1>7, AppendedSize DEF FrameBytes
<1>9. ASSUME bytes' > MaxPendingBytes PROVE Len(Unsaved') = 1
  <2>1. FitsQueue(producer.copied)
    BY DEF PushAccept, MayStillJoin, MayJoin
  <2>2. bytes = 0
    BY <1>4, <1>6, <1>7, <1>9, <2>1, CopiedNumbers DEF FitsQueue, FrameBytes
  <2>3. Unsaved = <<>>
    BY <1>2, <1>7, <2>2, QueueSize
  <2>4. QED
    BY <1>2, <1>3, <2>3, AppendProperties
<1>10. QED
  BY <1>8, <1>9 DEF Exact

\* Two numbers that make one, the first not zero: the second is zero.
LEMMA OneAndNone ==
  \A m, n \in Nat : m # 0 /\ m + n = 1 => n = 0
  OBVIOUS

\* A committed batch takes its size with it.
LEMMA CommittedCounts ==
  ASSUME IInv, PendingBytesExact, FinishCommitted
  PROVE  PendingBytesExact'
<1>1. Open /\ batch # <<>> /\ batch \in Seq(Entries) /\ pending \in Seq(Entries)
  BY DEF FinishCommitted, Open, IInv, BatchHeld, Attempting, TypeOK
<1>2. Exact(bytes, Unsaved)
  BY <1>1, BytesRestated
<1>3. Unsaved' = pending
  BY <1>1, ConcatEmptySeq DEF FinishCommitted, Unsaved
<1>4. bytes' = bytes - Weight(batch)
  BY DEF FinishCommitted, SizeOfAll, Weight, SizesOf
<1>5. /\ Weight(batch) \in Nat /\ Weight(pending) \in Nat
      /\ Weight(Unsaved) = Weight(batch) + Weight(pending)
  BY <1>1, QueueSize, JoinedSize DEF Unsaved
<1>6. bytes' = Weight(pending)
  BY <1>2, <1>4, <1>5 DEF Exact
<1>7. ASSUME bytes' > MaxPendingBytes PROVE FALSE
  <2>1. Len(Unsaved) = 1
    BY <1>2, <1>4, <1>5, <1>6, <1>7, CopiedNumbers DEF Exact
  <2>2. /\ Len(batch) \in Nat /\ Len(batch) # 0 /\ Len(pending) \in Nat
        /\ Len(Unsaved) = Len(batch) + Len(pending)
    BY <1>1, LenProperties, EmptySeq, UnsavedType DEF IInv
  <2>3. Len(batch) + Len(pending) = 1
    BY ONLY <2>1, <2>2
  <2>4. Len(pending) = 0
    BY ONLY <2>2, <2>3, OneAndNone
  <2>5. pending = <<>>
    BY <1>1, <2>4, EmptySeq
  <2>6. Weight(pending) = 0
    BY <1>1, <2>5, QueueSize
  <2>7. QED
    BY <1>6, <1>7, <2>6, CopiedNumbers
<1>8. QED
  BY <1>3, <1>6, <1>7, BytesRestated DEF Exact

\* Before the first entry, and after a reopening, nothing is queued.
LEMMA NothingCounted ==
  Exact(0, <<>>)
<1>1. <<>> \in Seq(Entries)
  OBVIOUS
<1>2. Weight(<<>>) = 0
  BY <1>1, QueueSize
<1>3. QED
  BY <1>2, CopiedNumbers DEF Exact

\* Every step keeps the count.
LEMMA BytesStep ==
  ASSUME IInv, PendingBytesExact, [Next]_vars
  PROVE  PendingBytesExact'
<1>1. CASE Push
  <2>1. ASSUME NEW kind \in {"record", "marker"}, NEW copied \in {0} \cup CopiedSizes,
               NEW admit \in BOOLEAN, PushBegin(kind, copied, admit)
        PROVE  PendingBytesExact'
    BY <2>1, SameBytes DEF PushBegin, stateVars, workerVars, Open, Unsaved
  <2>2. ASSUME NEW oversized \in BOOLEAN, PushPrepare(oversized)
        PROVE  PendingBytesExact'
    BY <2>2, SameBytes, NotifyKeepsOpen
       DEF PushPrepare, RefuseFailed, RefuseFull, Open, Unsaved
  <2>3. CASE PushRefused
    BY <2>3, SameBytes, NotifyKeepsOpen
       DEF PushRefused, RefuseFailed, RefuseFull, Open, Unsaved
  <2>4. CASE PushAccept
    BY <2>4, AcceptCounts
  <2>5. QED
    BY <1>1, <2>1, <2>2, <2>3, <2>4 DEF Push
<1>2. CASE Worker
  <2>1. CASE WorkerExit
    BY <2>1, BytesRestated DEF WorkerExit, Open
  <2>2. CASE WorkerWait \/ WorkerWaitTimeout \/ WorkerTimeout
    BY <2>2, SameBytes
       DEF WorkerWait, WorkerWaitTimeout, WorkerTimeout, stateVars, Open, Unsaved
  <2>3. CASE WorkerTake
    <3>1. batch = <<>> /\ batch' = pending /\ pending' = <<>> /\ pending \in Seq(Entries)
      BY <2>3 DEF WorkerTake, IInv, BatchHeld, Attempting, Open, TypeOK
    <3>2. Unsaved' = Unsaved
      BY <3>1, ConcatEmptySeq DEF Unsaved
    <3>3. QED
      BY <2>3, <3>2, SameBytes DEF WorkerTake, Open
  <2>4. CASE EncodeCheckpoint \/ CommitBatch \/ NotifyFailure
    BY <2>4, SameBytes
       DEF EncodeCheckpoint, CommitBatch, NotifyFailure, stateVars, Open, Unsaved
  <2>5. CASE FinishCommitted
    BY <2>5, CommittedCounts
  <2>6. CASE FinishFailed
    <3>1. /\ batch' = <<>> /\ pending' = Unsaved
          /\ Unsaved \in Seq(Entries)
      BY <2>6, UnsavedType DEF FinishFailed, Requeued, Unsaved, IInv
    <3>2. Unsaved' = Unsaved
      BY <3>1, ConcatEmptySeq DEF Unsaved
    <3>3. QED
      BY <2>6, <3>2, SameBytes DEF FinishFailed, Open
  <2>7. QED
    BY <1>2, <2>1, <2>2, <2>3, <2>4, <2>5, <2>6 DEF Worker
<1>3. CASE Age \/ RequestFlush \/ SpuriousWake \/ Close
  BY <1>3, SameBytes, NotifyKeepsOpen
     DEF Age, RequestFlush, RequestFlushThen, SpuriousWake, Close, stateVars,
         workerVars, Open, Unsaved
<1>4. CASE Crash
  BY <1>4, BytesRestated DEF Crash, Open
<1>5. CASE Reopen
  <2>1. bytes' = 0 /\ Unsaved' = <<>>
    BY <1>5, EmptySeq, ConcatEmptySeq DEF Reopen, ForgetMemory, Unsaved
  <2>2. QED
    BY <2>1, NothingCounted, BytesRestated
<1>6. CASE \E f \in Flushers : Flush(f) \/ FlushCheck(f)
  <2>1. ASSUME NEW f \in Flushers, Flush(f)
        PROVE  PendingBytesExact'
    <3> DEFINE fl == [flusher EXCEPT ![f] = "woken"]
    <3>1. RequestFlushThen(fl)
      BY <2>1 DEF Flush
    <3> HIDE DEF fl
    <3>2. QED
      BY <3>1, SameBytes, NotifyKeepsOpen DEF RequestFlushThen, Open, Unsaved
  <2>2. ASSUME NEW f \in Flushers, FlushCheck(f)
        PROVE  PendingBytesExact'
    BY <2>2, SameBytes DEF FlushCheck, stateVars, workerVars, Open, Unsaved
  <2>3. QED
    BY <1>6, <2>1, <2>2
<1>7. CASE UNCHANGED vars
  BY <1>7, SameBytes DEF vars, stateVars, workerVars, Open, Unsaved
<1>8. QED
  BY <1>1, <1>2, <1>3, <1>4, <1>5, <1>6, <1>7 DEF Next

\* pending_bytes, which admission and the policy go by, never drifts from
\* what is queued or in flight, through failed, uncertain and retried commits,
\* for any queue and any sizes.
THEOREM PendingBytesAreExact == Spec => []PendingBytesExact
<1>1. Init => PendingBytesExact
  <2> SUFFICES ASSUME Init PROVE Exact(bytes, Unsaved)
    BY BytesRestated
  <2>1. bytes = 0 /\ Unsaved = <<>>
    BY EmptySeq, ConcatEmptySeq DEF Init, Unsaved
  <2>2. QED
    BY <2>1, NothingCounted
<1>2. IInv /\ PendingBytesExact /\ [Next]_vars => PendingBytesExact'
  BY BytesStep
<1>3. QED
  BY InductiveInvariant, <1>1, <1>2, PTL DEF Spec


-----------------------------------------------------------------------------
(* The strengthening of IInv *)

\* No sequence has two different rows.
RowsAgree == \A r1, r2 \in Rows : r1.sequence = r2.sequence => r1 = r2

\* While there is memory to speak of, the queue continues the log from the
\* durable sequence to the accepted one, the file ends in between, and a row
\* under the sequence of a queued entry is that entry.
LogCovered ==
  worker # "down" =>
    /\ Len(Unsaved) = accepted - durable
    /\ durable <= LastSequence /\ LastSequence <= accepted
    /\ \A i \in DOMAIN Unsaved : Unsaved[i].sequence = durable + i
    /\ \A i \in DOMAIN Unsaved : \A row \in Rows :
         row.sequence = Unsaved[i].sequence => row = Unsaved[i]

\* No producer outlives the process.
GateFree == worker = "down" => producer.stage = "none"

RInv == IInv /\ RowsAgree /\ LogCovered /\ GateFree

-----------------------------------------------------------------------------
(* Lemmas about rows and logs *)

\* The types an RInv state gives to what the log is read from.
LEMMA LogTypes ==
  ASSUME IInv
  PROVE  /\ Unsaved \in Seq(Entries) /\ Len(Unsaved) \in Nat
         /\ DOMAIN Unsaved = 1..Len(Unsaved)
         /\ accepted \in Nat /\ durable \in Nat /\ promised \in Nat
         /\ LastSequence \in Nat /\ Sequences = 0..LastSequence
         /\ Rows \subseteq Entries
         /\ promised <= LastSequence
<1>1. TypeOK /\ FileAhead
  BY DEF IInv
<1>2. Unsaved \in Seq(Entries)
  BY <1>1, UnsavedType
<1>3. Len(Unsaved) \in Nat /\ DOMAIN Unsaved = 1..Len(Unsaved)
  BY <1>2, LenProperties
<1>4. Rows \subseteq Entries
  BY <1>1 DEF TypeOK, Rows
<1>5. QED
  BY <1>1, <1>2, <1>3, <1>4, ConstantsAssumption DEF TypeOK, FileAhead

\* Every sequence of the file has a row, and RowAt finds it.
LEMMA RowFound ==
  ASSUME NEW s \in Sequences
  PROVE  RowAt(s) \in Rows /\ RowAt(s).sequence = s
<1>1. \E row \in Rows : row.sequence = s
  BY DEF Sequences
<1>2. QED
  BY <1>1 DEF RowAt

LEMMA RowOf ==
  ASSUME RowsAgree, NEW row \in Rows
  PROVE  RowAt(row.sequence) = row
<1>1. row.sequence \in Sequences
  BY DEF Sequences
<1>2. RowAt(row.sequence) \in Rows /\ RowAt(row.sequence).sequence = row.sequence
  BY <1>1, RowFound
<1>3. QED
  BY <1>2 DEF RowsAgree

\* What the file holds up to n is a sequence of entries.
LEMMA FileLogType ==
  ASSUME IInv, NEW n \in 0..LastSequence
  PROVE  /\ FileLog(n) \in Seq(Entries) /\ Len(FileLog(n)) = n
         /\ \A s \in 1..n : FileLog(n)[s] = RowAt(s)
<1>1. LastSequence \in Nat /\ Sequences = 0..LastSequence /\ Rows \subseteq Entries
  BY LogTypes
<1>2. \A s \in 1..n : RowAt(s) \in Entries
  <2> SUFFICES ASSUME NEW s \in 1..n PROVE RowAt(s) \in Entries
    OBVIOUS
  <2>1. s \in Sequences
    BY <1>1
  <2>2. QED
    BY <1>1, <2>1, RowFound
<1>3. n \in Nat
  BY <1>1
<1>4. QED
  BY <1>2, <1>3 DEF FileLog

\* The log, entry by entry, while there is memory...
LEMMA LogInMemory ==
  ASSUME RInv, worker # "down"
  PROVE  /\ AcceptedLog \in Seq(Entries) /\ Len(AcceptedLog) = accepted
         /\ \A s \in 1..durable : AcceptedLog[s] = RowAt(s)
         /\ \A i \in 1..Len(Unsaved) : AcceptedLog[durable + i] = Unsaved[i]
<1>1. /\ IInv /\ durable \in 0..LastSequence /\ Len(Unsaved) = accepted - durable
      /\ Unsaved \in Seq(Entries) /\ Len(Unsaved) \in Nat /\ durable \in Nat
      /\ accepted \in Nat
  BY LogTypes DEF RInv, LogCovered
<1>2. /\ FileLog(durable) \in Seq(Entries) /\ Len(FileLog(durable)) = durable
      /\ \A s \in 1..durable : FileLog(durable)[s] = RowAt(s)
  BY <1>1, FileLogType
<1>3. AcceptedLog = FileLog(durable) \o Unsaved
  BY DEF AcceptedLog
<1> DEFINE F == FileLog(durable)
<1> HIDE DEF F
<1>4. /\ F \o Unsaved \in Seq(Entries) /\ Len(F \o Unsaved) = Len(F) + Len(Unsaved)
      /\ \A i \in 1 .. Len(F) + Len(Unsaved) :
           (F \o Unsaved)[i] = IF i <= Len(F) THEN F[i] ELSE Unsaved[i - Len(F)]
  BY <1>1, <1>2, ConcatProperties DEF F
<1>5. \A s \in 1..durable : AcceptedLog[s] = RowAt(s)
  BY <1>1, <1>2, <1>3, <1>4 DEF F
<1>6. \A i \in 1..Len(Unsaved) : AcceptedLog[durable + i] = Unsaved[i]
  <2> SUFFICES ASSUME NEW i \in 1..Len(Unsaved)
               PROVE  AcceptedLog[durable + i] = Unsaved[i]
    OBVIOUS
  <2>1. /\ durable + i \in 1 .. Len(F) + Len(Unsaved) /\ ~(durable + i <= Len(F))
        /\ (durable + i) - Len(F) = i
    BY <1>1, <1>2 DEF F
  <2>2. QED
    BY <1>3, <1>4, <2>1 DEF F
<1>7. QED
  BY <1>1, <1>2, <1>3, <1>4, <1>5, <1>6 DEF F

\* ... and that part of it the file holds, wherever it is read.
LEMMA LogInFile ==
  ASSUME RInv
  PROVE  /\ AcceptedLog \in Seq(Entries) /\ LastSequence <= Len(AcceptedLog)
         /\ \A s \in 1..LastSequence : AcceptedLog[s] = RowAt(s)
         /\ SubSeq(AcceptedLog, 1, LastSequence) = FileLog(LastSequence)
<1>1. IInv /\ LastSequence \in Nat /\ Sequences = 0..LastSequence
  BY LogTypes DEF RInv
<1>2. /\ FileLog(LastSequence) \in Seq(Entries)
      /\ Len(FileLog(LastSequence)) = LastSequence
      /\ \A s \in 1..LastSequence : FileLog(LastSequence)[s] = RowAt(s)
  BY <1>1, FileLogType
<1>3. /\ AcceptedLog \in Seq(Entries) /\ LastSequence <= Len(AcceptedLog)
      /\ \A s \in 1..LastSequence : AcceptedLog[s] = RowAt(s)
  <2>1. CASE worker = "down"
    BY <1>1, <1>2, <2>1 DEF AcceptedLog
  <2>2. CASE worker # "down"
    <3>1. /\ AcceptedLog \in Seq(Entries) /\ Len(AcceptedLog) = accepted
          /\ \A s \in 1..durable : AcceptedLog[s] = RowAt(s)
          /\ \A i \in 1..Len(Unsaved) : AcceptedLog[durable + i] = Unsaved[i]
      BY <2>2, LogInMemory
    <3>2. /\ Len(Unsaved) = accepted - durable /\ LastSequence <= accepted
          /\ DOMAIN Unsaved = 1..Len(Unsaved)
          /\ accepted \in Nat /\ durable \in Nat
          /\ \A i \in DOMAIN Unsaved : Unsaved[i].sequence = durable + i
          /\ \A i \in DOMAIN Unsaved : \A row \in Rows :
               row.sequence = Unsaved[i].sequence => row = Unsaved[i]
      BY <1>1, <2>2, LogTypes DEF RInv, LogCovered
    <3>3. ASSUME NEW s \in 1..LastSequence, ~(s <= durable)
          PROVE  AcceptedLog[s] = RowAt(s)
      <4>1. s - durable \in 1..Len(Unsaved) /\ durable + (s - durable) = s
        BY <1>1, <3>2, <3>3
      <4>2. s \in Sequences
        BY <1>1
      <4>3. RowAt(s) \in Rows /\ RowAt(s).sequence = Unsaved[s - durable].sequence
        BY <3>2, <4>1, <4>2, RowFound
      <4>4. QED
        BY <3>1, <3>2, <4>1, <4>3
    <3>4. QED
      BY <1>1, <3>1, <3>2, <3>3
  <2>3. QED
    BY <2>1, <2>2
<1>4. /\ SubSeq(AcceptedLog, 1, LastSequence) \in Seq(Entries)
      /\ Len(SubSeq(AcceptedLog, 1, LastSequence)) = LastSequence
      /\ \A s \in 1..LastSequence :
           SubSeq(AcceptedLog, 1, LastSequence)[s] = AcceptedLog[s]
  <2>1. \A s \in 1..LastSequence : AcceptedLog[s] \in Entries
    <3>1. DOMAIN AcceptedLog = 1..Len(AcceptedLog) /\ Len(AcceptedLog) \in Nat
      BY <1>3, LenProperties
    <3>2. QED
      BY <1>1, <1>3, <3>1, ElementOfSeq
  <2>2. QED
    BY <1>1, <2>1, SubSeqProperties
<1>5. QED
  BY <1>2, <1>3, <1>4, SeqEqual

-----------------------------------------------------------------------------
(* The steps that leave the log alone *)

\* A step moves nothing the log is read from.
Quiet ==
  /\ UNCHANGED <<diskVars, durable, accepted>>
  /\ Unsaved' = Unsaved
  /\ (worker' = "down") <=> (worker = "down")

LEMMA QuietSteps ==
  ASSUME IInv,
         \/ \E copied \in CopiedSizes, admit \in BOOLEAN : PushBegin("record", copied, admit)
         \/ PushBegin("marker", 0, FALSE)
         \/ \E oversized \in BOOLEAN : PushPrepare(oversized)
         \/ PushRefused
         \/ Age \/ RequestFlush \/ SpuriousWake \/ Close
         \/ \E f \in Flushers : Flush(f)
         \/ WorkerExit \/ WorkerWait \/ WorkerWaitTimeout \/ WorkerTimeout
         \/ WorkerTake \/ EncodeCheckpoint \/ FinishFailed \/ NotifyFailure
  PROVE  Quiet /\ UNCHANGED promised
<1> DEFINE Still == Quiet /\ UNCHANGED promised
<1>1. ASSUME UNCHANGED <<diskVars, durable, accepted, promised, batch, pending>>,
             worker' = worker \/ (worker # "down" /\ worker' # "down")
      PROVE  Still
  BY <1>1 DEF Quiet, Unsaved
<1>2. ASSUME UNCHANGED <<diskVars, durable, accepted, promised, batch, pending>>,
             NEW fl, NotifyOne(fl)
      PROVE  Still
  <2>1. worker' = worker \/ (worker # "down" /\ worker' # "down")
    BY <1>2 DEF NotifyOne, WorkerWaits
  <2>2. QED
    BY <1>1, <1>2, <2>1
<1>3. ASSUME NEW kind, NEW copied, NEW admit, PushBegin(kind, copied, admit)
      PROVE  Still
  BY <1>1, <1>3 DEF PushBegin, stateVars, workerVars
<1>4. ASSUME NEW oversized, PushPrepare(oversized) PROVE Still
  BY <1>1, <1>2, <1>4 DEF PushPrepare, RefuseFailed, RefuseFull
<1>5. CASE PushRefused
  BY <1>1, <1>2, <1>5 DEF PushRefused, RefuseFailed, RefuseFull
<1>6. CASE Age \/ NotifyFailure
  BY <1>1, <1>6 DEF Age, NotifyFailure, stateVars, workerVars
<1>7. CASE RequestFlush
  BY <1>1, <1>2, <1>7 DEF RequestFlush, RequestFlushThen
<1>8. ASSUME NEW f \in Flushers, Flush(f) PROVE Still
  <2> DEFINE fl == [flusher EXCEPT ![f] = "woken"]
  <2>1. RequestFlushThen(fl)
    BY <1>8 DEF Flush
  <2> HIDE DEF fl
  <2>2. QED
    BY <1>1, <1>2, <2>1 DEF RequestFlushThen
<1>9. CASE SpuriousWake
  BY <1>1, <1>9 DEF SpuriousWake, stateVars
<1>10. CASE Close
  BY <1>2, <1>10 DEF Close
<1>11. CASE \/ WorkerExit \/ WorkerWait \/ WorkerWaitTimeout \/ WorkerTimeout
            \/ EncodeCheckpoint
  BY <1>1, <1>11 DEF WorkerExit, WorkerWait, WorkerWaitTimeout, WorkerTimeout,
     EncodeCheckpoint, stateVars
<1>12. CASE WorkerTake
  <2>1. batch = <<>> /\ batch' = pending /\ pending' = <<>> /\ pending \in Seq(Entries)
    BY <1>12 DEF IInv, TypeOK, WorkerTake, BatchHeld, Attempting, Open
  <2>2. Unsaved' = Unsaved
    BY <2>1, ConcatEmptySeq DEF Unsaved
  <2>3. QED
    BY <1>12, <2>2 DEF WorkerTake, Quiet
<1>13. CASE FinishFailed
  <2>1. Unsaved \in Seq(Entries)
    BY LogTypes
  <2>2. Unsaved' = Unsaved
    BY <1>13, <2>1, ConcatEmptySeq DEF FinishFailed, Requeued, Unsaved
  <2>3. QED
    BY <1>13, <2>2 DEF FinishFailed, Quiet
<1>14. QED
  BY <1>3, <1>4, <1>5, <1>6, <1>7, <1>8, <1>9, <1>10, <1>11, <1>12, <1>13

\* What reads the file reads the same of the same file.
LEMMA SameRows ==
  ASSUME UNCHANGED diskVars
  PROVE  /\ Rows' = Rows /\ LastSequence' = LastSequence
         /\ \A s : RowAt(s)' = RowAt(s)
         /\ \A n : FileLog(n)' = FileLog(n)
BY DEF diskVars, Rows, LastSequence, Sequences, RowAt, FileLog

LEMMA QuietInvariant ==
  ASSUME RInv, Quiet
  PROVE  (RowsAgree /\ LogCovered)'
<1>1. Rows' = Rows /\ LastSequence' = LastSequence
  BY SameRows DEF Quiet
<1>2. RowsAgree'
  BY <1>1 DEF RInv, RowsAgree
<1>3. LogCovered'
  BY <1>1 DEF RInv, LogCovered, Quiet
<1>4. QED
  BY <1>2, <1>3

LEMMA QuietLog ==
  ASSUME Quiet
  PROVE  UNCHANGED <<AcceptedLog, LastSequence>>
<1>1. /\ LastSequence' = LastSequence
      /\ FileLog(LastSequence)' = FileLog(LastSequence)
      /\ FileLog(durable)' = FileLog(durable)
  BY DEF Quiet, diskVars, LastSequence, Sequences, Rows, FileLog, RowAt
<1>2. Unsaved' = Unsaved /\ (worker' = "down" <=> worker = "down")
  BY DEF Quiet
<1>3. AcceptedLog' = AcceptedLog
  BY <1>1, <1>2 DEF AcceptedLog
<1>4. QED
  BY <1>1, <1>2, <1>3

-----------------------------------------------------------------------------
(* The invariant over the steps that move the log *)

\* The accepted entry is new to the file as well.
LEMMA AcceptInvariant ==
  ASSUME RInv, PushAccept
  PROVE  (RowsAgree /\ LogCovered)'
<1>1. PICK entry \in Entries : /\ Unsaved' = Append(Unsaved, entry)
                               /\ entry.sequence = accepted + 1
  BY AcceptedEntry DEF RInv
<1>2. /\ accepted' = accepted + 1 /\ durable' = durable
      /\ Rows' = Rows /\ LastSequence' = LastSequence
  BY SameRows DEF PushAccept
<1>3. /\ accepted \in Nat /\ durable \in Nat /\ LastSequence \in Nat
      /\ Unsaved \in Seq(Entries) /\ Len(Unsaved) \in Nat
      /\ DOMAIN Unsaved = 1..Len(Unsaved) /\ Sequences = 0..LastSequence
  BY LogTypes DEF RInv
<1>4. /\ Len(Unsaved') = Len(Unsaved) + 1
      /\ \A i \in 1..Len(Unsaved) : Unsaved'[i] = Unsaved[i]
      /\ Unsaved'[Len(Unsaved) + 1] = entry
      /\ DOMAIN Unsaved' = 1..(Len(Unsaved) + 1)
  BY <1>1, <1>3, AppendProperties, LenProperties
<1>5. worker # "down"
  BY DEF RInv, GateFree, PushAccept
<1>6. RowsAgree'
  BY <1>2 DEF RInv, RowsAgree
<1>7. \A row \in Rows : row.sequence # accepted + 1
  <2>1. LastSequence <= accepted
    BY <1>5 DEF RInv, LogCovered
  <2>2. accepted + 1 \notin Sequences
    BY <1>3, <2>1
  <2>3. QED
    BY <2>2 DEF Sequences
<1>8. LogCovered'
  <2>1. /\ Len(Unsaved) = accepted - durable
        /\ durable <= LastSequence /\ LastSequence <= accepted
        /\ \A i \in DOMAIN Unsaved : Unsaved[i].sequence = durable + i
        /\ \A i \in DOMAIN Unsaved : \A row \in Rows :
             row.sequence = Unsaved[i].sequence => row = Unsaved[i]
    BY <1>5 DEF RInv, LogCovered
  <2>2. Len(Unsaved') = accepted' - durable'
    BY <1>2, <1>3, <1>4, <2>1
  <2>3. durable' <= LastSequence' /\ LastSequence' <= accepted'
    BY <1>2, <1>3, <2>1
  <2>4. ASSUME NEW i \in DOMAIN Unsaved'
        PROVE  /\ Unsaved'[i].sequence = durable' + i
               /\ \A row \in Rows : row.sequence = Unsaved'[i].sequence => row = Unsaved'[i]
    <3>1. CASE i = Len(Unsaved) + 1
      <4>1. Unsaved'[i] = entry /\ durable + i = accepted + 1
        BY <1>3, <1>4, <2>1, <3>1
      <4>2. QED
        BY <1>1, <1>2, <1>7, <4>1
    <3>2. CASE i # Len(Unsaved) + 1
      <4>1. i \in DOMAIN Unsaved /\ Unsaved'[i] = Unsaved[i]
        BY <1>3, <1>4, <3>2
      <4>2. QED
        BY <1>2, <2>1, <4>1
    <3>3. QED
      BY <3>1, <3>2
  <2>5. QED
    BY <1>2, <2>2, <2>3, <2>4 DEF LogCovered
<1>9. QED
  BY <1>6, <1>8

\* What a transaction adds are queued entries, each either new to the file or
\* the very row that is there.
LEMMA CommitInvariant ==
  ASSUME RInv, CommitBatch
  PROVE  (RowsAgree /\ LogCovered)'
<1>1. CASE Reconciles /\ ApplyBatch
  <2>1. /\ UNCHANGED <<accepted, durable>> /\ Unsaved' = Unsaved
        /\ worker = "committing" /\ worker' # "down"
    BY DEF CommitBatch, stateVars, Unsaved
  <2>2. /\ IInv /\ Rows' = Rows \cup ToSet(batch)
        /\ LastSequence <= LastSequence'
    BY <1>1, <2>1, CommittedRows, CommittedFile DEF RInv
  <2>3. /\ Unsaved \in Seq(Entries) /\ DOMAIN Unsaved = 1..Len(Unsaved)
        /\ accepted \in Nat /\ durable \in Nat /\ LastSequence \in Nat
        /\ Len(Unsaved) \in Nat
    BY <2>2, LogTypes
  <2>4. /\ Len(Unsaved) = accepted - durable
        /\ durable <= LastSequence /\ LastSequence <= accepted
        /\ \A i \in DOMAIN Unsaved : Unsaved[i].sequence = durable + i
        /\ \A i \in DOMAIN Unsaved : \A row \in Rows :
             row.sequence = Unsaved[i].sequence => row = Unsaved[i]
    BY <2>1 DEF RInv, LogCovered
  <2>5. ASSUME NEW row \in ToSet(batch)
        PROVE  \E j \in DOMAIN Unsaved : row = Unsaved[j]
    <3>1. \A j \in DOMAIN batch : j \in DOMAIN Unsaved /\ Unsaved[j] = batch[j]
      BY <2>2, UnsavedType DEF IInv
    <3>2. QED
      BY <3>1 DEF ToSet
  <2>6. \A i, j \in DOMAIN Unsaved :
          Unsaved[i].sequence = Unsaved[j].sequence => i = j
    BY <2>3, <2>4
  <2>7. RowsAgree'
    <3> SUFFICES ASSUME NEW r1 \in Rows \cup ToSet(batch), NEW r2 \in Rows \cup ToSet(batch),
                        r1.sequence = r2.sequence
                 PROVE  r1 = r2
      BY <2>2 DEF RowsAgree
    <3>1. CASE r1 \in Rows /\ r2 \in Rows
      BY <3>1 DEF RInv, RowsAgree
    <3>2. CASE r1 \in ToSet(batch) /\ r2 \in Rows
      BY <2>4, <2>5, <3>2
    <3>3. CASE r1 \in Rows /\ r2 \in ToSet(batch)
      BY <2>4, <2>5, <3>3
    <3>4. CASE r1 \in ToSet(batch) /\ r2 \in ToSet(batch)
      BY <2>5, <2>6, <3>4
    <3>5. QED
      BY <3>1, <3>2, <3>3, <3>4
  <2>8. LastSequence' <= accepted
    <3>1. LastSequence' \in Sequences' /\ LastSequence' \in Nat
      BY <1>1, <2>1, <2>2, CommittedFile, ConstantsAssumption
    <3>2. PICK row \in Rows' : row.sequence = LastSequence'
      BY <3>1 DEF Sequences
    <3>3. CASE row \in Rows
      <4>1. LastSequence' \in Sequences
        BY <3>2, <3>3 DEF Sequences
      <4>2. QED
        BY <2>2, <2>3, <2>4, <4>1, LogTypes
    <3>4. CASE row \in ToSet(batch)
      BY <2>3, <2>4, <2>5, <3>2, <3>4
    <3>5. QED
      BY <2>2, <3>3, <3>4
  <2>9. \A i \in DOMAIN Unsaved : \A row \in Rows' :
          row.sequence = Unsaved[i].sequence => row = Unsaved[i]
    BY <2>2, <2>4, <2>5, <2>6
  <2>10. durable <= LastSequence'
    <3>1. LastSequence' \in Nat
      BY <1>1, <2>1, <2>2, CommittedFile, ConstantsAssumption
    <3>2. QED
      BY <2>2, <2>3, <2>4, <3>1
  <2>11. LogCovered'
    BY <2>1, <2>4, <2>8, <2>9, <2>10 DEF LogCovered
  <2>12. QED
    BY <2>7, <2>11
<1>2. CASE UNCHANGED diskVars
  <2>1. Quiet
    BY <1>2 DEF Quiet, CommitBatch, stateVars, Unsaved
  <2>2. QED
    BY <2>1, QuietInvariant
<1>3. QED
  BY <1>1, <1>2 DEF CommitBatch

\* The acknowledged batch leaves the queue in front.
LEMMA FinishInvariant ==
  ASSUME RInv, FinishCommitted
  PROVE  /\ (RowsAgree /\ LogCovered)'
         /\ Unsaved' = pending /\ durable' = durable + Len(batch)
         /\ durable' <= LastSequence
<1>1. /\ batch' = <<>> /\ pending' = pending /\ accepted' = accepted
      /\ durable' = Last(batch).sequence /\ worker' = "running"
      /\ worker = "committed" /\ UNCHANGED diskVars
  BY DEF FinishCommitted, DurableThrough
<1>2. Open /\ batch # <<>> /\ TypeOK /\ QueueInOrder /\ FileAhead
  BY <1>1 DEF RInv, IInv, Open, BatchHeld, Attempting
<1>3. durable' = durable + Len(batch) /\ durable' <= LastSequence
  BY <1>1, <1>2, BatchEnd DEF FileAhead
<1>4. /\ pending \in Seq(Entries) /\ Len(pending) \in Nat
      /\ DOMAIN pending = 1..Len(pending) /\ Len(batch) \in Nat
  BY <1>2, LenProperties DEF TypeOK
<1>5. Unsaved' = pending
  BY <1>1, <1>4, ConcatEmptySeq DEF Unsaved
<1>6. /\ Len(Unsaved) = Len(batch) + Len(pending)
      /\ \A i \in DOMAIN pending : /\ Len(batch) + i \in DOMAIN Unsaved
                                   /\ Unsaved[Len(batch) + i] = pending[i]
  BY <1>2, UnsavedType
<1>7. Rows' = Rows /\ LastSequence' = LastSequence
  BY <1>1, SameRows
<1>8. RowsAgree'
  BY <1>7 DEF RInv, RowsAgree
<1>9. /\ accepted \in Nat /\ durable \in Nat
      /\ Len(Unsaved) = accepted - durable /\ LastSequence <= accepted
      /\ \A i \in DOMAIN Unsaved : Unsaved[i].sequence = durable + i
      /\ \A i \in DOMAIN Unsaved : \A row \in Rows :
           row.sequence = Unsaved[i].sequence => row = Unsaved[i]
  BY <1>1, <1>2 DEF RInv, LogCovered, TypeOK
<1>10. \A i \in DOMAIN pending :
         /\ pending[i].sequence = durable' + i
         /\ \A row \in Rows : row.sequence = pending[i].sequence => row = pending[i]
  BY <1>3, <1>4, <1>6, <1>9
<1>11. Len(pending) = accepted - durable'
  <2>1. Len(Unsaved) = Len(batch) + Len(pending) /\ Len(Unsaved) = accepted - durable
    BY <1>6, <1>9
  <2>2. QED
    BY <1>3, <1>4, <1>9, <2>1
<1>12. LogCovered'
  BY <1>1, <1>3, <1>5, <1>7, <1>9, <1>10, <1>11 DEF LogCovered
<1>13. QED
  BY <1>3, <1>5, <1>8, <1>12

\* A process that ends leaves only the file; one that starts reads it.
LEMMA RestartInvariant ==
  ASSUME RInv, Crash \/ Reopen
  PROVE  (RowsAgree /\ LogCovered)'
<1>1. UNCHANGED diskVars
  BY DEF Crash, Reopen
<1>2. Rows' = Rows /\ LastSequence' = LastSequence
  BY <1>1, SameRows
<1>3. RowsAgree'
  BY <1>2 DEF RInv, RowsAgree
<1>4. CASE Crash
  BY <1>3, <1>4 DEF Crash, LogCovered
<1>5. CASE Reopen
  <2>1. /\ batch' = <<>> /\ pending' = <<>>
        /\ accepted' = LastSequence /\ durable' = LastSequence
    BY <1>5 DEF Reopen, ForgetMemory
  <2>2. Unsaved' = <<>> /\ DOMAIN Unsaved' = {} /\ Len(Unsaved') = 0
    BY <2>1, EmptySeq, ConcatEmptySeq DEF Unsaved
  <2>3. LastSequence \in Nat
    BY LogTypes DEF RInv
  <2>4. QED
    BY <1>2, <1>3, <2>1, <2>2, <2>3 DEF LogCovered
<1>6. QED
  BY <1>4, <1>5

\* A turn of flush's loop moves no log.
LEMMA FlushCheckQuiet ==
  ASSUME NEW f \in Flushers, FlushCheck(f)
  PROVE  Quiet
BY DEF FlushCheck, Quiet, Unsaved, stateVars, workerVars

LEMMA GateStep ==
  ASSUME RInv, Next
  PROVE  GateFree'
<1>1. IInv /\ GateFree
  BY DEF RInv
<1>2. ASSUME UNCHANGED producer, worker' = "down" => worker = "down" PROVE GateFree'
  BY <1>1, <1>2 DEF GateFree
<1>3. ASSUME worker' # "down" PROVE GateFree'
  BY <1>3 DEF GateFree
<1>4. CASE Push
  <2>1. worker # "down"
    BY <1>1, <1>4 DEF Push, PushBegin, PushPrepare, PushRefused, PushAccept, GateFree, Open
  <2>2. worker' = worker \/ worker' = "running"
    BY <1>4 DEF Push, PushBegin, PushPrepare, PushRefused, PushAccept, RefuseFailed,
       RefuseFull, NotifyOne, workerVars
  <2>3. QED
    BY <1>3, <2>1, <2>2
<1>5. CASE Age \/ RequestFlush \/ SpuriousWake
  BY <1>2, <1>5 DEF Age, RequestFlush, RequestFlushThen, SpuriousWake, NotifyOne,
     gateVars, workerVars
<1>6. ASSUME NEW f \in Flushers, Flush(f) \/ FlushCheck(f) PROVE GateFree'
  BY <1>2, <1>6 DEF Flush, RequestFlushThen, FlushCheck, NotifyOne, gateVars, workerVars
<1>7. CASE Worker
  BY <1>2, <1>7 DEF Worker, WorkerExit, WorkerWait, WorkerWaitTimeout, WorkerTimeout,
     WorkerTake, EncodeCheckpoint, CommitBatch, FinishCommitted, FinishFailed,
     NotifyFailure, gateVars
<1>8. CASE Close
  BY <1>2, <1>8 DEF Close, NotifyOne, gateVars
<1>9. CASE Crash \/ Reopen
  BY <1>9, ForgottenTypes DEF Crash, Reopen, GateFree
<1>10. QED
  BY <1>4, <1>5, <1>6, <1>7, <1>8, <1>9 DEF Next

LEMMA RInvInit == Init => RInv
<1> SUFFICES ASSUME Init PROVE RInv
  OBVIOUS
<1>1. IInv
  BY IInvInit
<1>2. Rows = {Base}
  BY DEF Init, Rows
<1>3. RowsAgree
  BY <1>2 DEF RowsAgree
<1>4. Unsaved = <<>> /\ DOMAIN Unsaved = {} /\ Len(Unsaved) = 0
  BY EmptySeq, ConcatEmptySeq DEF Init, Unsaved
<1>5. LastSequence = 0
  <2>1. Sequences = 0..0
    BY <1>2 DEF Sequences, Base
  <2>2. QED
    BY <2>1, EndOfInterval DEF LastSequence
<1>6. LogCovered
  BY <1>4, <1>5 DEF Init, LogCovered
<1>7. GateFree
  BY DEF Init, GateFree
<1>8. QED
  BY <1>1, <1>3, <1>6, <1>7 DEF RInv

LEMMA RInvStep == RInv /\ [Next]_vars => RInv'
<1> SUFFICES ASSUME RInv, [Next]_vars PROVE RInv'
  OBVIOUS
<1>1. IInv'
  BY IInvStep DEF RInv
<1>2. (RowsAgree /\ LogCovered)'
  <2>1. CASE PushAccept \/ CommitBatch \/ FinishCommitted \/ Crash \/ Reopen
    BY <2>1, AcceptInvariant, CommitInvariant, FinishInvariant, RestartInvariant
  <2>2. ASSUME NEW f \in Flushers, FlushCheck(f) PROVE (RowsAgree /\ LogCovered)'
    BY <2>2, FlushCheckQuiet, QuietInvariant
  <2>3. CASE UNCHANGED vars
    <3>1. Quiet
      BY <2>3 DEF vars, stateVars, workerVars, Quiet, Unsaved
    <3>2. QED
      BY <3>1, QuietInvariant
  <2>4. QED
    BY <2>1, <2>2, <2>3, QuietSteps, QuietInvariant DEF RInv, Next, Push, Worker
<1>3. GateFree'
  BY GateStep DEF RInv, GateFree, vars, workerVars, gateVars
<1>4. QED
  BY <1>1, <1>2, <1>3 DEF RInv

-----------------------------------------------------------------------------
(* The steps, seen by DurableLog *)

\* The two readings of the log after a step.
LEMMA LogInMemoryNext ==
  ASSUME RInv', worker' # "down"
  PROVE  /\ AcceptedLog' \in Seq(Entries) /\ Len(AcceptedLog') = accepted'
         /\ \A s \in 1..durable' : AcceptedLog'[s] = RowAt(s)'
         /\ \A i \in 1..Len(Unsaved') : AcceptedLog'[durable' + i] = Unsaved'[i]
<1>1. (RInv /\ worker # "down" =>
         /\ AcceptedLog \in Seq(Entries) /\ Len(AcceptedLog) = accepted
         /\ \A s \in 1..durable : AcceptedLog[s] = RowAt(s)
         /\ \A i \in 1..Len(Unsaved) : AcceptedLog[durable + i] = Unsaved[i])'
  BY LogInMemory, PTL
<1>2. QED
  BY <1>1

\* A push lengthens the log by the producer's entry.
LEMMA AcceptedLogGrows ==
  ASSUME RInv, RInv', PushAccept
  PROVE  /\ UNCHANGED <<diskVars, durable, promised>> /\ accepted' = accepted + 1
         /\ Len(AcceptedLog) = accepted /\ AcceptedLog \in Seq(Entries)
         /\ Len(AcceptedLog') = accepted + 1 /\ AcceptedLog' \in Seq(Entries)
         /\ \A s \in 1..accepted : AcceptedLog'[s] = AcceptedLog[s]
         /\ AcceptedLog'[accepted + 1].kind = producer.kind
<1>1. PICK entry \in Entries : /\ Unsaved' = Append(Unsaved, entry)
                               /\ entry.sequence = accepted + 1
                               /\ entry.kind = producer.kind
  BY AcceptedEntry DEF RInv
<1>2. /\ UNCHANGED <<diskVars, durable, promised>> /\ accepted' = accepted + 1
      /\ worker # "down" /\ worker' # "down"
  BY DEF PushAccept, RInv, GateFree, NotifyOne
<1>3. /\ AcceptedLog \in Seq(Entries) /\ Len(AcceptedLog) = accepted
      /\ \A s \in 1..durable : AcceptedLog[s] = RowAt(s)
      /\ \A i \in 1..Len(Unsaved) : AcceptedLog[durable + i] = Unsaved[i]
  BY <1>2, LogInMemory
<1>4. /\ AcceptedLog' \in Seq(Entries) /\ Len(AcceptedLog') = accepted + 1
      /\ \A s \in 1..durable : AcceptedLog'[s] = RowAt(s)
      /\ \A i \in 1..Len(Unsaved') : AcceptedLog'[durable + i] = Unsaved'[i]
  BY <1>2, LogInMemoryNext, SameRows
<1>5. /\ accepted \in Nat /\ durable \in Nat /\ Unsaved \in Seq(Entries)
      /\ Len(Unsaved) \in Nat /\ Len(Unsaved) = accepted - durable
  BY <1>2, LogTypes DEF RInv, LogCovered
<1>6. /\ Len(Unsaved') = Len(Unsaved) + 1
      /\ \A i \in 1..Len(Unsaved) : Unsaved'[i] = Unsaved[i]
      /\ Unsaved'[Len(Unsaved) + 1] = entry
  BY <1>1, <1>5, AppendProperties
<1>7. AcceptedLog'[accepted + 1] = entry
  <2>1. Len(Unsaved) + 1 \in 1..Len(Unsaved') /\ durable + (Len(Unsaved) + 1) = accepted + 1
    BY <1>5, <1>6
  <2>2. QED
    BY <1>4, <1>6, <2>1
<1>8. \A s \in 1..accepted : AcceptedLog'[s] = AcceptedLog[s]
  <2> SUFFICES ASSUME NEW s \in 1..accepted PROVE AcceptedLog'[s] = AcceptedLog[s]
    OBVIOUS
  <2>1. CASE s <= durable
    BY <1>3, <1>4, <1>5, <2>1
  <2>2. CASE ~(s <= durable)
    <3>1. /\ s - durable \in 1..Len(Unsaved) /\ s - durable \in 1..Len(Unsaved')
          /\ durable + (s - durable) = s
      BY <1>5, <1>6, <2>2
    <3>2. QED
      BY <1>3, <1>4, <1>6, <3>1
  <2>3. QED
    BY <2>1, <2>2
<1>9. QED
  BY <1>1, <1>2, <1>3, <1>4, <1>7, <1>8

LEMMA AcceptStep ==
  ASSUME RInv, RInv', PushAccept
  PROVE  Log!Accept
<1>1. /\ UNCHANGED <<diskVars, promised>> /\ accepted \in Nat
      /\ Len(AcceptedLog) = accepted /\ AcceptedLog \in Seq(Entries)
      /\ Len(AcceptedLog') = accepted + 1 /\ AcceptedLog' \in Seq(Entries)
      /\ \A s \in 1..accepted : AcceptedLog'[s] = AcceptedLog[s]
  BY AcceptedLogGrows, LogTypes DEF RInv
<1>2. \A s \in 1..(accepted + 1) : AcceptedLog'[s] \in Entries
  BY <1>1, ElementOfSeq
<1>3. /\ SubSeq(AcceptedLog', 1, accepted) \in Seq(Entries)
      /\ Len(SubSeq(AcceptedLog', 1, accepted)) = accepted
      /\ \A s \in 1..accepted : SubSeq(AcceptedLog', 1, accepted)[s] = AcceptedLog'[s]
  BY <1>1, <1>2, SubSeqProperties
<1>4. SubSeq(AcceptedLog', 1, accepted) = AcceptedLog
  BY <1>1, <1>3, SeqEqual
<1>5. AcceptedLog'[accepted + 1] \in Entries
  BY <1>1, <1>2
<1>6. LastSequence' = LastSequence
  BY <1>1, SameRows
<1>7. QED
  BY <1>1, <1>4, <1>5, <1>6 DEF Log!Accept

\* A transaction changes nothing the log holds.
LEMMA CommitKeepsLog ==
  ASSUME RInv, RInv', CommitBatch
  PROVE  /\ AcceptedLog' = AcceptedLog /\ promised' = promised
         /\ LastSequence' \in LastSequence..Len(AcceptedLog)
<1>1. CASE UNCHANGED diskVars
  <2>1. Quiet /\ promised' = promised
    BY <1>1 DEF Quiet, CommitBatch, stateVars, Unsaved
  <2>2. LastSequence \in Nat /\ LastSequence <= Len(AcceptedLog) /\ Len(AcceptedLog) \in Nat
    BY LogInFile, LogTypes, LenProperties DEF RInv
  <2>3. QED
    BY <2>1, <2>2, QuietLog
<1>2. CASE ApplyBatch
  <2>1. /\ UNCHANGED <<accepted, durable, promised>> /\ Unsaved' = Unsaved
        /\ worker = "committing" /\ worker # "down" /\ worker' # "down"
    BY DEF CommitBatch, stateVars, Unsaved
  <2>2. /\ LastSequence \in Nat /\ LastSequence' \in Nat
        /\ LastSequence <= LastSequence'
        /\ Rows \subseteq Rows' /\ Sequences = 0..LastSequence
    BY <1>2, <2>1, CommittedRows, CommittedFile, LogTypes, ConstantsAssumption DEF RInv
  <2>3. accepted \in Nat /\ durable \in Nat /\ Len(Unsaved) = accepted - durable
        /\ durable <= LastSequence /\ LastSequence' <= accepted
    BY <2>1, LogTypes DEF RInv, LogCovered
  <2>4. /\ AcceptedLog \in Seq(Entries) /\ Len(AcceptedLog) = accepted
        /\ \A s \in 1..durable : AcceptedLog[s] = RowAt(s)
        /\ \A i \in 1..Len(Unsaved) : AcceptedLog[durable + i] = Unsaved[i]
    BY <2>1, LogInMemory
  <2>5. /\ AcceptedLog' \in Seq(Entries) /\ Len(AcceptedLog') = accepted
        /\ \A s \in 1..durable : AcceptedLog'[s] = RowAt(s)'
        /\ \A i \in 1..Len(Unsaved) : AcceptedLog'[durable + i] = Unsaved[i]
    BY <2>1, LogInMemoryNext
  <2>6. \A s \in 1..durable : RowAt(s)' = RowAt(s)
    <3> SUFFICES ASSUME NEW s \in 1..durable PROVE RowAt(s)' = RowAt(s)
      OBVIOUS
    <3>1. s \in Sequences
      BY <2>2, <2>3
    <3>2. RowAt(s) \in Rows' /\ RowAt(s).sequence = s
      BY <2>2, <3>1, RowFound
    <3>3. RowAt(s)' \in Rows' /\ RowAt(s)'.sequence = s
      <4>1. \E row \in Rows' : row.sequence = s
        BY <3>2
      <4>2. QED
        BY <4>1 DEF RowAt
    <3>4. QED
      BY <3>2, <3>3 DEF RInv, RowsAgree
  <2>7. \A s \in 1..accepted : AcceptedLog'[s] = AcceptedLog[s]
    <3> SUFFICES ASSUME NEW s \in 1..accepted PROVE AcceptedLog'[s] = AcceptedLog[s]
      OBVIOUS
    <3>1. CASE s <= durable
      BY <2>3, <2>4, <2>5, <2>6, <3>1
    <3>2. CASE ~(s <= durable)
      <4>1. s - durable \in 1..Len(Unsaved) /\ durable + (s - durable) = s
        BY <2>3, <3>2
      <4>2. QED
        BY <2>4, <2>5, <4>1
    <3>3. QED
      BY <3>1, <3>2
  <2>8. AcceptedLog' = AcceptedLog
    BY <2>4, <2>5, <2>7, SeqEqual
  <2>9. QED
    BY <2>1, <2>2, <2>3, <2>4, <2>8
<1>3. QED
  BY <1>1, <1>2 DEF CommitBatch

\* It hardens some more of the log, or, tried again, nothing new.
LEMMA CommitStep ==
  ASSUME RInv, RInv', CommitBatch
  PROVE  Log!LogNext \/ UNCHANGED <<AcceptedLog, LastSequence, promised>>
<1>1. /\ AcceptedLog' = AcceptedLog /\ promised' = promised
      /\ LastSequence' \in LastSequence..Len(AcceptedLog) /\ LastSequence \in Nat
  BY CommitKeepsLog, LogTypes DEF RInv
<1>2. CASE LastSequence' = LastSequence
  BY <1>1, <1>2
<1>3. CASE LastSequence' # LastSequence
  <2>1. LastSequence' \in (LastSequence + 1)..Len(AcceptedLog)
    BY <1>1, <1>3
  <2>2. Log!Harden(LastSequence')
    BY <1>1, <2>1 DEF Log!Harden
  <2>3. QED
    BY <2>1, <2>2 DEF Log!LogNext
<1>4. QED
  BY <1>2, <1>3

\* Acknowledging a batch moves the place its entries are read from, not what
\* is read.
LEMMA FinishStep ==
  ASSUME RInv, RInv', FinishCommitted
  PROVE  UNCHANGED <<AcceptedLog, LastSequence, promised>>
<1>1. /\ Unsaved' = pending /\ durable' = durable + Len(batch)
      /\ durable' <= LastSequence
  BY FinishInvariant
<1>2. /\ UNCHANGED <<diskVars, accepted, promised>>
      /\ worker # "down" /\ worker' # "down"
  BY DEF FinishCommitted
<1>3. /\ AcceptedLog \in Seq(Entries) /\ Len(AcceptedLog) = accepted
      /\ \A i \in 1..Len(Unsaved) : AcceptedLog[durable + i] = Unsaved[i]
  BY <1>2, LogInMemory
<1>4. \A s \in 1..LastSequence : AcceptedLog[s] = RowAt(s)
  BY LogInFile
<1>5. /\ AcceptedLog' \in Seq(Entries) /\ Len(AcceptedLog') = accepted
      /\ \A s \in 1..durable' : AcceptedLog'[s] = RowAt(s)
      /\ \A i \in 1..Len(pending) : AcceptedLog'[durable' + i] = pending[i]
  BY <1>1, <1>2, LogInMemoryNext, SameRows
<1>6. /\ Len(Unsaved) = Len(batch) + Len(pending)
      /\ \A i \in 1..Len(pending) : /\ Len(batch) + i \in 1..Len(Unsaved)
                                    /\ Unsaved[Len(batch) + i] = pending[i]
      /\ Len(batch) \in Nat /\ Len(pending) \in Nat
  <2>1. TypeOK
    BY DEF RInv, IInv
  <2>2. /\ DOMAIN pending = 1..Len(pending) /\ Len(batch) \in Nat /\ Len(pending) \in Nat
    BY <2>1, LenProperties DEF TypeOK
  <2>3. DOMAIN Unsaved = 1..Len(Unsaved)
    BY LogTypes DEF RInv
  <2>4. QED
    BY <2>1, <2>2, <2>3, UnsavedType
<1>7. accepted \in Nat /\ durable \in Nat /\ LastSequence \in Nat
      /\ Len(Unsaved) = accepted - durable
  BY <1>2, LogTypes DEF RInv, LogCovered
<1>8. \A s \in 1..accepted : AcceptedLog'[s] = AcceptedLog[s]
  <2> SUFFICES ASSUME NEW s \in 1..accepted PROVE AcceptedLog'[s] = AcceptedLog[s]
    OBVIOUS
  <2>1. CASE s <= durable'
    <3>1. s \in 1..durable' /\ s \in 1..LastSequence
      BY <1>1, <1>6, <1>7, <2>1
    <3>2. QED
      BY <1>4, <1>5, <3>1
  <2>2. CASE ~(s <= durable')
    <3> DEFINE i == s - durable'
    <3>1. i \in 1..Len(pending) /\ durable' + i = s /\ durable + (Len(batch) + i) = s
      BY <1>1, <1>6, <1>7, <2>2
    <3> HIDE DEF i
    <3>2. AcceptedLog'[s] = pending[i]
      BY <1>5, <3>1
    <3>3. AcceptedLog[s] = pending[i]
      BY <1>3, <1>6, <3>1
    <3>4. QED
      BY <3>2, <3>3
  <2>3. QED
    BY <2>1, <2>2
<1>9. AcceptedLog' = AcceptedLog
  BY <1>3, <1>5, <1>8, SeqEqual
<1>10. QED
  BY <1>2, <1>9, SameRows

\* What is left of the log when the process ends, and what the next one
\* finds, is what the file holds.
LEMMA RestartedLog ==
  ASSUME RInv, Crash \/ Reopen
  PROVE  /\ UNCHANGED <<diskVars, promised, LastSequence>>
         /\ AcceptedLog' = FileLog(LastSequence)
<1>1. UNCHANGED diskVars /\ promised' = promised
  BY DEF Crash, Reopen
<1>2. /\ LastSequence' = LastSequence
      /\ FileLog(LastSequence)' = FileLog(LastSequence)
  BY <1>1 DEF diskVars, LastSequence, Sequences, Rows, FileLog, RowAt
<1>3. CASE Crash
  BY <1>1, <1>2, <1>3 DEF Crash, AcceptedLog
<1>4. CASE Reopen
  <2>1. /\ batch' = <<>> /\ pending' = <<>> /\ worker' # "down"
        /\ durable' = LastSequence
    BY <1>4 DEF Reopen, ForgetMemory
  <2>2. Unsaved' = <<>>
    BY <2>1, EmptySeq, ConcatEmptySeq DEF Unsaved
  <2>3. FileLog(durable)' = FileLog(LastSequence)
    BY <1>1, <2>1 DEF diskVars, FileLog, RowAt, Rows
  <2>4. FileLog(LastSequence) \in Seq(Entries)
    BY FileLogType, LogTypes DEF RInv
  <2>5. AcceptedLog' = FileLog(LastSequence) \o <<>>
    BY <2>1, <2>2, <2>3 DEF AcceptedLog
  <2>6. QED
    BY <1>1, <1>2, <2>4, <2>5, ConcatEmptySeq
<1>5. QED
  BY <1>3, <1>4

\* A crash or an opening is a restart of the log.
LEMMA RestartStep ==
  ASSUME RInv, RInv', Crash \/ Reopen
  PROVE  Log!Restart
BY RestartedLog, LogInFile DEF Log!Restart

\* A flush that returns reports what is stable already.
LEMMA FlushCheckStep ==
  ASSUME RInv, NEW f \in Flushers, FlushCheck(f)
  PROVE  Log!LogNext \/ UNCHANGED <<AcceptedLog, LastSequence, promised>>
<1>1. UNCHANGED <<AcceptedLog, LastSequence>>
  BY FlushCheckQuiet, QuietLog
<1>2. CASE promised' = promised
  BY <1>1, <1>2
<1>3. CASE promised' # promised
  <2>1. promised' = target[f] /\ target[f] > promised /\ durable >= target[f]
    BY <1>3 DEF FlushCheck
  <2>2. Open
    BY DEF RInv, IInv, FlushersLeave, FlushCheck
  <2>3. promised' \in promised..LastSequence
    BY <2>1, <2>2, LogTypes DEF RInv, IInv, FileAhead, TypeOK
  <2>4. Log!Promise(promised')
    BY <1>1, <2>3 DEF Log!Promise
  <2>5. QED
    BY <2>3, <2>4 DEF Log!LogNext
<1>4. QED
  BY <1>2, <1>3

-----------------------------------------------------------------------------
(* The theorems *)

LEMMA LogInitial == Init => Log!LogInit
<1> SUFFICES ASSUME Init PROVE Log!LogInit
  OBVIOUS
<1>1. RInv
  BY RInvInit
<1>2. AcceptedLog \in Seq(Entries) /\ Len(AcceptedLog) = 0
  BY <1>1, LogInMemory DEF Init
<1>3. AcceptedLog = <<>>
  BY <1>2, EmptySeq
<1>4. LastSequence = 0
  <2>1. LastSequence \in Nat /\ LastSequence <= accepted
    BY <1>1, LogTypes DEF RInv, LogCovered, Init
  <2>2. QED
    BY <2>1 DEF Init
<1>5. QED
  BY <1>3, <1>4 DEF Log!LogInit, Init

LEMMA LogStep == RInv /\ RInv' /\ [Next]_vars => [Log!LogNext]_(Log!logVars)
<1> SUFFICES ASSUME RInv, RInv', [Next]_vars
             PROVE  Log!LogNext \/ UNCHANGED <<AcceptedLog, LastSequence, promised>>
  BY DEF Log!logVars
<1>1. CASE PushAccept
  BY <1>1, AcceptStep DEF Log!LogNext
<1>2. CASE CommitBatch
  BY <1>2, CommitStep
<1>3. CASE FinishCommitted
  BY <1>3, FinishStep
<1>4. CASE Crash \/ Reopen
  BY <1>4, RestartStep DEF Log!LogNext
<1>5. ASSUME NEW f \in Flushers, FlushCheck(f)
      PROVE  Log!LogNext \/ UNCHANGED <<AcceptedLog, LastSequence, promised>>
  BY <1>5, FlushCheckStep
<1>6. ASSUME Quiet, promised' = promised
      PROVE  UNCHANGED <<AcceptedLog, LastSequence, promised>>
  BY <1>6, QuietLog
<1>7. CASE UNCHANGED vars
  <2>1. Quiet /\ promised' = promised
    BY <1>7 DEF vars, stateVars, workerVars, Quiet, Unsaved
  <2>2. QED
    BY <2>1, <1>6
<1>8. QED
  BY <1>1, <1>2, <1>3, <1>4, <1>5, <1>6, <1>7, QuietSteps DEF RInv, Next, Push, Worker

\* In every behaviour of the save no sequence has two rows, and the queue and
\* the file agree on every sequence both hold: also after uncertain commits,
\* retried batches, crashes and reopenings.
THEOREM FileAndQueueAgree == Spec => []RInv
BY RInvInit, RInvStep, PTL DEF Spec

\* The save implements the durable log: a push appends to it, a transaction
\* lengthens its stable prefix, a restart cuts it back to exactly that
\* prefix, a flush reports no more than that prefix, and nothing else the
\* producer, the worker or a flusher does can be seen in it.
THEOREM SaveIsDurableLog == Spec => ImplementsDurableLog
<1>1. Spec => []RInv
  BY FileAndQueueAgree
<1>2. QED
  BY <1>1, LogInitial, LogStep, PTL DEF Spec, ImplementsDurableLog, Log!LogSpec

-----------------------------------------------------------------------------
(* The strengthening of RInv *)

\* Sequence 0, and only it, is the base row; nothing queued is one.
KindsKnown ==
  /\ \A row \in Rows : (row.kind = "base") = (row.sequence = 0)
  /\ worker # "down" => \A i \in DOMAIN Unsaved : Unsaved[i].kind # "base"

\* A row is in history exactly if the stored checkpoint covers it.
HistoryCovered ==
  /\ journal \cap history = {}
  /\ \A row \in Rows :
       (row \in history) = (row.sequence > 0 /\ row.sequence <= stored.sequence)

\* How many of the first n entries of a log are records.
RecordsIn(log, n) == Cardinality({s \in 1..n : log[s].kind = "record"})

\* A checkpoint of one of the first n entries of a log.
Describes(c, log, n) == c.sequence \in 1..n /\ c.count = RecordsIn(log, c.sequence)

StoredDescribes ==
  stored # NoCheckpoint => Describes(stored, AcceptedLog, LastSequence)

\* Checkpoints are requested in order: of the stored one, the one in flight
\* and the one that waits, each is newer than the one before, or, after an
\* uncertain commit, the same.
CheckpointsOrdered ==
  worker # "down" =>
    /\ stored.sequence <= requested /\ requested <= accepted
    /\ \A c \in {checkpoint, taken} : c # NoCheckpoint =>
         /\ Describes(c, AcceptedLog, requested)
         /\ stored.sequence <= c.sequence
         /\ stored.sequence = c.sequence => stored = c
    /\ checkpoint # NoCheckpoint /\ taken # NoCheckpoint =>
         taken.sequence < checkpoint.sequence
    /\ taken # NoCheckpoint => Attempting /\ taken.sequence <= durable + Len(batch)

\* A producer captures the state after its own entry, which is newer than any
\* checkpoint requested so far.
CaptureNewer ==
  worker # "down" =>
    /\ records = RecordsIn(AcceptedLog, accepted)
    /\ producer.stage = "begun" /\ producer.needs => accepted + 1 > requested
    /\ producer.captured # NoCheckpoint =>
         /\ producer.stage = "prepared" /\ producer.kind = "record"
         /\ producer.captured.sequence = accepted + 1
         /\ producer.captured.count = records + 1
         /\ accepted + 1 > requested

FInv == /\ RInv /\ KindsKnown /\ HistoryCovered /\ StoredDescribes
        /\ CheckpointsOrdered /\ CaptureNewer

-----------------------------------------------------------------------------
(* Lemmas about counting *)

LEMMA RecordsSame ==
  ASSUME NEW log1, NEW log2, NEW n \in Nat, \A s \in 1..n : log1[s] = log2[s]
  PROVE  RecordsIn(log1, n) = RecordsIn(log2, n)
<1>1. {s \in 1..n : log1[s].kind = "record"} = {s \in 1..n : log2[s].kind = "record"}
  OBVIOUS
<1>2. QED
  BY <1>1 DEF RecordsIn

LEMMA RecordsNext ==
  ASSUME NEW log1, NEW log2, NEW n \in Nat, \A s \in 1..n : log1[s] = log2[s]
  PROVE  /\ RecordsIn(log1, n) \in Nat
         /\ RecordsIn(log2, n + 1) = IF log2[n + 1].kind = "record"
                                       THEN RecordsIn(log1, n) + 1
                                       ELSE RecordsIn(log1, n)
<1> DEFINE R1 == {s \in 1..n : log1[s].kind = "record"}
           R2 == {s \in 1..(n + 1) : log2[s].kind = "record"}
<1>1. IsFiniteSet(1..n) /\ R1 \in SUBSET (1..n)
  BY FS_Interval
<1>2. IsFiniteSet(R1)
  BY <1>1, FS_Subset
<1>3. Cardinality(R1) \in Nat
  BY <1>2, FS_CardinalityType
<1>4. Cardinality(R1 \cup {n + 1}) = Cardinality(R1) + 1
  <2>1. n + 1 \notin R1
    OBVIOUS
  <2> HIDE DEF R1
  <2>2. QED
    BY <1>2, <2>1, FS_AddElement
<1>5. R2 = IF log2[n + 1].kind = "record" THEN R1 \cup {n + 1} ELSE R1
  <2>1. \A s \in 1..(n + 1) : s \in 1..n \/ s = n + 1
    OBVIOUS
  <2>2. CASE log2[n + 1].kind = "record"
    BY <2>1, <2>2
  <2>3. CASE log2[n + 1].kind # "record"
    BY <2>1, <2>3
  <2>4. QED
    BY <2>2, <2>3
<1>6. RecordsIn(log1, n) = Cardinality(R1) /\ RecordsIn(log2, n + 1) = Cardinality(R2)
  BY DEF RecordsIn
<1> HIDE DEF R1, R2
<1>7. QED
  BY <1>3, <1>4, <1>5, <1>6

\* The records among the file's rows up to n are as many as the log's.
LEMMA RowsCounted ==
  ASSUME RInv, NEW n \in 0..LastSequence
  PROVE  Cardinality({row \in Rows : /\ row.sequence \in 1..n
                                     /\ row.kind = "record"})
           = RecordsIn(AcceptedLog, n)
<1> DEFINE S == {s \in 1..n : AcceptedLog[s].kind = "record"}
           T == {row \in Rows : row.sequence \in 1..n /\ row.kind = "record"}
           f == [s \in S |-> RowAt(s)]
<1>1. LastSequence \in Nat /\ Sequences = 0..LastSequence /\ n \in Nat
  BY LogTypes DEF RInv
<1>2. \A s \in 1..n : /\ AcceptedLog[s] = RowAt(s)
                      /\ RowAt(s) \in Rows /\ RowAt(s).sequence = s
  <2> SUFFICES ASSUME NEW s \in 1..n
               PROVE  /\ AcceptedLog[s] = RowAt(s)
                      /\ RowAt(s) \in Rows /\ RowAt(s).sequence = s
    OBVIOUS
  <2>1. s \in 1..LastSequence /\ s \in Sequences
    BY <1>1
  <2>2. QED
    BY <2>1, LogInFile, RowFound
<1>3. IsFiniteSet(S)
  <2>1. IsFiniteSet(1..n) /\ S \in SUBSET (1..n)
    BY <1>1, FS_Interval
  <2>2. QED
    BY <2>1, FS_Subset
<1>4. f \in [S -> T]
  BY <1>2
<1>5. \A a, b \in S : f[a] = f[b] => a = b
  BY <1>2
<1>6. \A row \in T : \E s \in S : f[s] = row
  <2> SUFFICES ASSUME NEW row \in T PROVE \E s \in S : f[s] = row
    OBVIOUS
  <2>1. RowAt(row.sequence) = row
    BY RowOf DEF RInv
  <2>2. row.sequence \in S
    BY <1>2, <2>1
  <2>3. QED
    BY <2>1, <2>2
<1> HIDE DEF S, T, f
<1>7. f \in Injection(S, T) /\ f \in Surjection(S, T)
  BY <1>4, <1>5, <1>6 DEF Injection, IsInjective, Surjection
<1>8. Cardinality(T) = Cardinality(S)
  BY <1>3, <1>7, FS_Surjection
<1>9. QED
  BY <1>8 DEF S, T, RecordsIn

\* What every step leaves of the log: the part the file holds.
LEMMA PrefixKept ==
  ASSUME RInv, RInv', [Next]_vars
  PROVE  /\ LastSequence <= LastSequence'
         /\ \A s \in 1..LastSequence : AcceptedLog'[s] = AcceptedLog[s]
         /\ AcceptedLog' = AcceptedLog \/ PushAccept \/ Crash \/ Reopen
<1> DEFINE Kept == /\ LastSequence <= LastSequence'
                   /\ \A s \in 1..LastSequence : AcceptedLog'[s] = AcceptedLog[s]
                   /\ AcceptedLog' = AcceptedLog \/ PushAccept \/ Crash \/ Reopen
<1>1. LastSequence \in Nat /\ LastSequence <= Len(AcceptedLog) /\ accepted \in Nat
  BY LogTypes, LogInFile DEF RInv
<1>2. ASSUME Quiet PROVE Kept
  BY <1>1, <1>2, QuietLog
<1>3. CASE PushAccept
  <2>1. /\ Len(AcceptedLog) = accepted /\ UNCHANGED diskVars
        /\ \A s \in 1..accepted : AcceptedLog'[s] = AcceptedLog[s]
    BY <1>3, AcceptedLogGrows
  <2>2. QED
    BY <1>1, <1>3, <2>1, SameRows
<1>4. CASE CommitBatch
  BY <1>1, <1>4, CommitKeepsLog
<1>5. CASE FinishCommitted
  BY <1>1, <1>5, FinishStep
<1>6. CASE Crash \/ Reopen
  <2>1. AcceptedLog' = FileLog(LastSequence) /\ LastSequence' = LastSequence
    BY <1>6, RestartedLog
  <2>2. \A s \in 1..LastSequence : FileLog(LastSequence)[s] = RowAt(s)
    BY <1>1, FileLogType DEF RInv
  <2>3. QED
    BY <1>1, <1>6, <2>1, <2>2, LogInFile
<1>7. ASSUME NEW f \in Flushers, FlushCheck(f) PROVE Kept
  BY <1>2, <1>7, FlushCheckQuiet
<1>8. CASE UNCHANGED vars
  BY <1>2, <1>8 DEF vars, stateVars, workerVars, Quiet, Unsaved
<1>9. QED
  BY <1>2, <1>3, <1>4, <1>5, <1>6, <1>7, <1>8, QuietSteps DEF RInv, Next, Push, Worker

-----------------------------------------------------------------------------
(* The file over a step *)

\* Nothing queued is a base row, and what a transaction adds was queued.
LEMMA KindsStep ==
  ASSUME FInv, RInv', [Next]_vars
  PROVE  KindsKnown'
<1>1. RInv /\ IInv /\ KindsKnown
  BY DEF FInv, RInv
<1>2. /\ Unsaved \in Seq(Entries) /\ Len(Unsaved) \in Nat /\ durable \in Nat
      /\ DOMAIN Unsaved = 1..Len(Unsaved)
  BY <1>1, LogTypes
<1>3. ASSUME Quiet PROVE KindsKnown'
  <2>1. /\ Rows' = Rows /\ Unsaved' = Unsaved
        /\ (worker' = "down" <=> worker = "down")
    BY <1>3, SameRows DEF Quiet
  <2>2. QED
    BY <1>1, <2>1 DEF KindsKnown
<1>4. CASE PushAccept
  <2>1. PICK entry \in Entries : /\ Unsaved' = Append(Unsaved, entry)
                                 /\ entry.kind = producer.kind
    BY <1>1, <1>4, AcceptedEntry
  <2>2. producer.kind # "base" /\ worker # "down" /\ Rows' = Rows
    BY <1>1, <1>4, SameRows DEF IInv, TypeOK, Producers, PushAccept, RInv, GateFree
  <2>3. /\ DOMAIN Unsaved' = 1..(Len(Unsaved) + 1)
        /\ \A i \in 1..Len(Unsaved) : Unsaved'[i] = Unsaved[i]
        /\ Unsaved'[Len(Unsaved) + 1] = entry
    BY <1>2, <2>1, AppendProperties, LenProperties
  <2>4. \A i \in DOMAIN Unsaved' : Unsaved'[i].kind # "base"
    BY <1>1, <1>2, <2>1, <2>2, <2>3 DEF KindsKnown
  <2>5. QED
    BY <1>1, <2>2, <2>4 DEF KindsKnown
<1>5. CASE CommitBatch /\ ApplyBatch
  <2>1. /\ worker # "down" /\ Unsaved' = Unsaved /\ worker' # "down"
        /\ Rows' = Rows \cup ToSet(batch)
    BY <1>5, CommittedRows DEF CommitBatch, stateVars, Unsaved
  <2>2. \A row \in ToSet(batch) : row.kind # "base" /\ row.sequence # 0
    <3>1. \A i \in DOMAIN batch : i \in DOMAIN Unsaved /\ Unsaved[i] = batch[i]
      BY <1>1, UnsavedType DEF IInv
    <3>2. \A i \in DOMAIN Unsaved : Unsaved[i].sequence = durable + i
      BY <1>1, <2>1 DEF RInv, LogCovered
    <3>3. \A i \in DOMAIN Unsaved : Unsaved[i].sequence # 0 /\ Unsaved[i].kind # "base"
      BY <1>1, <1>2, <2>1, <3>2 DEF KindsKnown
    <3>4. QED
      BY <3>1, <3>3 DEF ToSet
  <2>3. QED
    BY <1>1, <2>1, <2>2 DEF KindsKnown
<1>6. CASE CommitBatch /\ UNCHANGED diskVars
  BY <1>3, <1>6 DEF CommitBatch, Quiet, stateVars, Unsaved
<1>7. CASE FinishCommitted
  <2>1. Unsaved' = pending /\ Rows' = Rows /\ worker # "down"
    BY <1>1, <1>7, FinishInvariant, SameRows DEF FinishCommitted
  <2>2. \A i \in DOMAIN pending : \E j \in DOMAIN Unsaved : pending[i] = Unsaved[j]
    BY <1>1, UnsavedType DEF IInv
  <2>3. QED
    BY <1>1, <2>1, <2>2 DEF KindsKnown
<1>8. CASE Crash \/ Reopen
  <2>1. UNCHANGED diskVars
    BY <1>8 DEF Crash, Reopen
  <2>2. Rows' = Rows
    BY <2>1, SameRows
  <2>3. worker' = "down" \/ DOMAIN Unsaved' = {}
    <3>1. CASE Reopen
      <4>1. batch' = <<>> /\ pending' = <<>>
        BY <3>1 DEF Reopen, ForgetMemory
      <4>2. Unsaved' = <<>>
        BY <4>1, EmptySeq, ConcatEmptySeq DEF Unsaved
      <4>3. QED
        BY <4>2
    <3>2. CASE Crash
      BY <3>2 DEF Crash
    <3>3. QED
      BY <1>8, <3>1, <3>2
  <2>4. QED
    BY <1>1, <2>2, <2>3 DEF KindsKnown
<1>9. ASSUME NEW f \in Flushers, FlushCheck(f) PROVE KindsKnown'
  BY <1>3, <1>9, FlushCheckQuiet
<1>10. CASE UNCHANGED vars
  BY <1>3, <1>10 DEF vars, stateVars, workerVars, Quiet, Unsaved
<1>11. QED
  BY <1>1, <1>3, <1>4, <1>5, <1>6, <1>7, <1>8, <1>9, <1>10, QuietSteps
     DEF Next, Push, Worker, CommitBatch

\* Only CommitBatch writes the file.
LEMMA FileWritten ==
  ASSUME RInv, [Next]_vars
  PROVE  UNCHANGED diskVars \/ (CommitBatch /\ ApplyBatch)
<1>1. ASSUME NEW f \in Flushers, FlushCheck(f) PROVE UNCHANGED diskVars
  BY <1>1 DEF FlushCheck
<1>2. CASE PushAccept \/ FinishCommitted \/ Crash \/ Reopen \/ CommitBatch
  BY <1>2 DEF PushAccept, FinishCommitted, Crash, Reopen, CommitBatch
<1>3. CASE UNCHANGED vars
  BY <1>3 DEF vars, diskVars
<1>4. QED
  BY <1>1, <1>2, <1>3, QuietSteps DEF RInv, Next, Push, Worker, Quiet

\* A row that the transaction finds in the batch but not in history is not
\* covered by the checkpoint stored so far.
LEMMA AppendedUncovered ==
  ASSUME FInv, worker = "committing", NEW row \in ToSet(batch) \ history
  PROVE  ~(row.sequence > 0 /\ row.sequence <= stored.sequence)
<1> SUFFICES ASSUME row.sequence > 0, row.sequence <= stored.sequence PROVE FALSE
  OBVIOUS
<1>1. /\ RInv /\ IInv /\ LastSequence \in Nat /\ Sequences = 0..LastSequence
      /\ ToSet(batch) \subseteq Entries
  <2>1. batch \in Seq(Entries) /\ IInv /\ RInv
    BY DEF FInv, RInv, IInv, TypeOK
  <2>2. ToSet(batch) \subseteq Entries
    BY <2>1, ElementOfSeq, LenProperties DEF ToSet
  <2>3. QED
    BY <2>1, <2>2, LogTypes
<1>2. row.sequence \in Nat /\ stored.sequence \in Nat
  BY <1>1 DEF Entries, IInv, TypeOK, Checkpoints
<1>3. stored.sequence <= LastSequence
  BY <1>1 DEF FInv, StoredDescribes, Describes, NoCheckpoint
<1>4. row.sequence \in Sequences
  BY <1>1, <1>2, <1>3
<1>5. PICK r \in Rows : r.sequence = row.sequence
  BY <1>4 DEF Sequences
<1>6. PICK i \in DOMAIN Unsaved : Unsaved[i] = row
  BY <1>1, UnsavedType DEF IInv, ToSet
<1>7. r = row
  BY <1>5, <1>6 DEF FInv, RInv, LogCovered
<1>8. row \in history
  BY <1>5, <1>7 DEF FInv, HistoryCovered
<1>9. QED
  BY <1>8

LEMMA HistoryStep ==
  ASSUME FInv, RInv', [Next]_vars
  PROVE  HistoryCovered'
<1>1. CASE UNCHANGED diskVars
  BY <1>1, SameRows DEF FInv, HistoryCovered, diskVars
<1>2. CASE CommitBatch /\ ApplyBatch
  <2>1. worker = "committing" /\ Rows' = Rows \cup ToSet(batch)
    BY <1>2, CommittedRows DEF CommitBatch
  <2>2. /\ journal \cap history = {}
        /\ \A row \in Rows :
             (row \in history) = (row.sequence > 0 /\ row.sequence <= stored.sequence)
    BY DEF FInv, HistoryCovered
  <2>3. Appended \cap history = {} /\ Rows' = Appended \cup history
    BY <2>1, <2>2 DEF Appended, Rows
  <2>4. CASE taken = NoCheckpoint
    <3>1. journal' = Appended /\ history' = history /\ stored' = stored
      BY <1>2, <2>4 DEF ApplyBatch
    <3>2. ASSUME NEW row \in Rows'
          PROVE  (row \in history) = (row.sequence > 0 /\ row.sequence <= stored.sequence)
      <4>1. CASE row \in Rows
        BY <2>2, <4>1
      <4>2. CASE row \in ToSet(batch) \ history
        BY <2>1, <4>2, AppendedUncovered
      <4>3. QED
        BY <2>1, <4>1, <4>2 DEF Rows
    <3>3. QED
      BY <2>3, <3>1, <3>2 DEF HistoryCovered
  <2>5. CASE taken # NoCheckpoint
    <3>1. /\ journal' = Appended \ Covered /\ history' = history \cup Covered
          /\ stored' = taken
      BY <1>2, <2>5 DEF ApplyBatch
    <3>2. stored.sequence <= taken.sequence
      BY <2>1, <2>5 DEF FInv, CheckpointsOrdered
    <3>3. \A row \in Rows' : row.sequence \in Nat
      <4>1. IInv'
        BY DEF RInv
      <4>2. QED
        BY <4>1 DEF IInv, TypeOK, Rows, Entries
    <3>4. stored.sequence \in Nat /\ taken.sequence \in Nat
      BY DEF FInv, RInv, IInv, TypeOK, Checkpoints
    <3>5. ASSUME NEW row \in Rows'
          PROVE  (row \in history') = (row.sequence > 0 /\ row.sequence <= taken.sequence)
      <4>1. CASE row \in history
        <5>1. row.sequence > 0 /\ row.sequence <= stored.sequence
          BY <2>2, <4>1 DEF Rows
        <5>2. QED
          BY <3>1, <3>2, <3>3, <3>4, <4>1, <5>1
      <4>2. CASE row \in Appended
        BY <2>3, <3>1, <4>2 DEF Covered
      <4>3. QED
        BY <2>3, <4>1, <4>2
    <3>6. journal' \cap history' = {}
      BY <2>3, <3>1 DEF Covered
    <3>7. QED
      BY <3>1, <3>5, <3>6 DEF HistoryCovered
  <2>6. QED
    BY <2>4, <2>5
<1>3. QED
  BY <1>1, <1>2, FileWritten DEF FInv

LEMMA StoredStep ==
  ASSUME FInv, RInv', [Next]_vars
  PROVE  StoredDescribes'
<1>1. /\ RInv /\ LastSequence \in Nat /\ LastSequence' \in Nat
      /\ LastSequence <= LastSequence'
      /\ \A s \in 1..LastSequence : AcceptedLog'[s] = AcceptedLog[s]
  <2>1. LastSequence \in Nat /\ RInv
    BY LogTypes DEF FInv, RInv
  <2>2. LastSequence' \in Nat
    BY ConstantsAssumption DEF RInv, IInv, FileAhead
  <2>3. QED
    BY <2>1, <2>2, PrefixKept
<1>2. CASE UNCHANGED diskVars
  <2> SUFFICES ASSUME stored # NoCheckpoint
               PROVE  Describes(stored, AcceptedLog', LastSequence')
    BY <1>2 DEF StoredDescribes, diskVars
  <2>1. /\ stored.sequence \in 1..LastSequence
        /\ stored.count = RecordsIn(AcceptedLog, stored.sequence)
    BY DEF FInv, StoredDescribes, Describes
  <2>2. RecordsIn(AcceptedLog, stored.sequence) = RecordsIn(AcceptedLog', stored.sequence)
    BY <1>1, <2>1, RecordsSame
  <2>3. QED
    BY <1>1, <2>1, <2>2 DEF Describes
<1>3. CASE CommitBatch /\ ApplyBatch
  <2>1. AcceptedLog' = AcceptedLog /\ worker = "committing"
    BY <1>1, <1>3, CommitKeepsLog DEF CommitBatch
  <2>2. CASE taken = NoCheckpoint
    <3>1. stored' = stored
      BY <1>3, <2>2 DEF ApplyBatch
    <3>2. QED
      BY <1>1, <2>1, <3>1 DEF FInv, StoredDescribes, Describes
  <2>3. CASE taken # NoCheckpoint
    <3>1. stored' = taken
      BY <1>3, <2>3 DEF ApplyBatch
    <3>2. /\ taken.sequence >= 1 /\ taken.sequence \in Nat
          /\ taken.count = RecordsIn(AcceptedLog, taken.sequence)
          /\ taken.sequence <= durable + Len(batch)
      BY <2>1, <2>3 DEF FInv, CheckpointsOrdered, Describes, RInv, IInv, TypeOK, Checkpoints
    <3>3. durable + Len(batch) <= LastSequence' /\ durable + Len(batch) \in Nat
      <4>1. IInv /\ batch # <<>> /\ Open /\ batch \in Seq(Entries) /\ durable \in Nat
        BY <2>1 DEF FInv, RInv, IInv, BatchHeld, Attempting, Open, TypeOK
      <4>2. Last(batch).sequence <= LastSequence'
        BY <1>3, <2>1, <4>1, CommittedFile
      <4>3. Last(batch).sequence = durable + Len(batch) /\ Len(batch) \in Nat
        BY <4>1, BatchEnd, LenProperties DEF IInv
      <4>4. QED
        BY <4>1, <4>2, <4>3
    <3>4. taken.sequence \in 1..LastSequence'
      BY <1>1, <3>2, <3>3
    <3>5. QED
      BY <2>1, <3>1, <3>2, <3>4 DEF StoredDescribes, Describes
  <2>4. QED
    BY <2>2, <2>3
<1>4. QED
  BY <1>1, <1>2, <1>3, FileWritten

-----------------------------------------------------------------------------
(* The order of the checkpoints over a step *)

\* A checkpoint still describes a log that has only grown.
LEMMA DescribesKept ==
  ASSUME NEW c \in Checkpoints, NEW log1, NEW log2, NEW n \in Nat, NEW m \in Nat, n <= m,
         \A s \in 1..n : log2[s] = log1[s], Describes(c, log1, n)
  PROVE  Describes(c, log2, m)
<1>1. c.sequence \in 1..n /\ c.count = RecordsIn(log1, c.sequence)
  BY DEF Describes
<1>2. \A s \in 1..c.sequence : log1[s] = log2[s]
  BY <1>1
<1>3. RecordsIn(log1, c.sequence) = RecordsIn(log2, c.sequence)
  BY <1>1, <1>2, RecordsSame
<1>4. QED
  BY <1>1, <1>3 DEF Describes

\* The types CheckpointsOrdered compares.
LEMMA CheckpointTypes ==
  ASSUME FInv
  PROVE  /\ checkpoint \in Checkpoints /\ taken \in Checkpoints /\ stored \in Checkpoints
         /\ requested \in Nat /\ accepted \in Nat /\ durable \in Nat /\ records \in Nat
         /\ checkpoint.sequence \in Nat /\ taken.sequence \in Nat /\ stored.sequence \in Nat
         /\ batch \in Seq(Entries) /\ Len(batch) \in Nat
         /\ RInv /\ IInv
<1>1. RInv /\ IInv /\ TypeOK
  BY DEF FInv, RInv, IInv
<1>2. QED
  BY <1>1, LenProperties DEF TypeOK, Checkpoints

\* Steps that move neither the checkpoints nor the log.
LEMMA OrderedSame ==
  ASSUME FInv, AcceptedLog' = AcceptedLog,
         UNCHANGED <<checkpoint, requested, taken, durable, accepted, stored>>,
         worker' # "down" => worker # "down",
         taken # NoCheckpoint /\ Attempting => Attempting' /\ batch' = batch
  PROVE  CheckpointsOrdered'
BY DEF FInv, CheckpointsOrdered

LEMMA CaptureSame ==
  ASSUME FInv, AcceptedLog' = AcceptedLog,
         UNCHANGED <<requested, accepted, producer, records>>,
         worker' # "down" => worker # "down"
  PROVE  CaptureNewer'
BY DEF FInv, CaptureNewer

\* The steps of threads that hold no checkpoint and capture none.
LEMMA PassiveSteps ==
  ASSUME FInv, RInv',
         \/ Age \/ RequestFlush \/ SpuriousWake \/ Close
         \/ \E f \in Flushers : Flush(f) \/ FlushCheck(f)
         \/ WorkerExit \/ WorkerWait \/ WorkerWaitTimeout \/ WorkerTimeout
         \/ EncodeCheckpoint \/ NotifyFailure \/ UNCHANGED vars
  PROVE  (CheckpointsOrdered /\ CaptureNewer)'
<1>1. FInv /\ RInv /\ IInv
  BY DEF FInv, RInv
<1>2. Quiet
  <2>1. ASSUME NEW f \in Flushers, FlushCheck(f) PROVE Quiet
    BY <2>1, FlushCheckQuiet
  <2>2. CASE UNCHANGED vars
    BY <2>2 DEF vars, stateVars, workerVars, Quiet, Unsaved
  <2>3. QED
    BY <1>1, <2>1, <2>2, QuietSteps
<1>3. /\ AcceptedLog' = AcceptedLog /\ UNCHANGED <<accepted, durable, stored>>
      /\ worker' # "down" => worker # "down"
  BY <1>2, QuietLog DEF Quiet, diskVars
<1> DEFINE Still == /\ UNCHANGED <<checkpoint, requested, taken, batch, producer, records>>
                    /\ Attempting => Attempting'
<1>4. ASSUME UNCHANGED <<checkpoint, requested, taken, batch, producer, records>>,
             NEW fl, NotifyOne(fl)
      PROVE  Still
  BY <1>4 DEF NotifyOne, WorkerWaits, Attempting
<1>5. Still
  <2>1. CASE Age
    BY <2>1 DEF Age, workerVars, gateVars, Attempting
  <2>2. CASE RequestFlush
    BY <1>4, <2>2 DEF RequestFlush, RequestFlushThen, gateVars, Attempting
  <2>3. ASSUME NEW f \in Flushers, Flush(f) PROVE Still
    <3> DEFINE fl == [flusher EXCEPT ![f] = "woken"]
    <3>1. RequestFlushThen(fl)
      BY <2>3 DEF Flush
    <3> HIDE DEF fl
    <3>2. QED
      BY <1>4, <3>1 DEF RequestFlushThen, gateVars, Attempting
  <2>4. ASSUME NEW f \in Flushers, FlushCheck(f) PROVE Still
    BY <2>4 DEF FlushCheck, stateVars, workerVars, gateVars, Attempting
  <2>5. CASE SpuriousWake
    BY <2>5 DEF SpuriousWake, stateVars, gateVars, Attempting
  <2>6. CASE Close
    BY <1>4, <2>6 DEF Close, gateVars
  <2>7. CASE WorkerExit \/ WorkerWait \/ WorkerWaitTimeout \/ WorkerTimeout
    BY <2>7 DEF WorkerExit, WorkerWait, WorkerWaitTimeout, WorkerTimeout, stateVars,
       gateVars, Attempting
  <2>8. CASE EncodeCheckpoint \/ NotifyFailure
    BY <2>8 DEF EncodeCheckpoint, NotifyFailure, stateVars, gateVars, Attempting
  <2>9. CASE UNCHANGED vars
    BY <2>9 DEF vars, stateVars, workerVars, gateVars, Attempting
  <2>10. QED
    BY <2>1, <2>2, <2>3, <2>4, <2>5, <2>6, <2>7, <2>8, <2>9
<1>6. QED
  BY <1>1, <1>3, <1>5, OrderedSame, CaptureSame

\* The producer before it is accepted.  What it captures is counted before
\* its own entry is: both are one ahead.
LEMMA ProducerSteps ==
  ASSUME FInv, RInv',
         \/ \E copied \in CopiedSizes, admit \in BOOLEAN : PushBegin("record", copied, admit)
         \/ PushBegin("marker", 0, FALSE)
         \/ \E oversized \in BOOLEAN : PushPrepare(oversized)
         \/ PushRefused
  PROVE  (CheckpointsOrdered /\ CaptureNewer)'
<1>1. /\ FInv /\ RInv /\ IInv /\ requested \in Nat /\ accepted \in Nat
      /\ worker # "down" => records = RecordsIn(AcceptedLog, accepted)
  BY CheckpointTypes DEF FInv, CaptureNewer
<1>2. Quiet
  BY <1>1, QuietSteps
<1>3. /\ AcceptedLog' = AcceptedLog /\ UNCHANGED <<accepted, durable, stored>>
      /\ worker' # "down" => worker # "down"
  BY <1>2, QuietLog DEF Quiet, diskVars
<1>4. UNCHANGED <<checkpoint, requested, taken, batch, records>>
  BY DEF PushBegin, PushPrepare, PushRefused, stateVars, workerVars
<1>5. Attempting => Attempting'
  BY DEF PushBegin, PushPrepare, PushRefused, RefuseFailed, RefuseFull, NotifyOne,
     WorkerWaits, Attempting, workerVars
<1>6. CheckpointsOrdered'
  BY <1>1, <1>3, <1>4, <1>5, OrderedSame
<1>7. ASSUME producer' = NoProducer PROVE CaptureNewer'
  BY <1>1, <1>3, <1>4, <1>7 DEF CaptureNewer, NoProducer
<1>8. ASSUME NEW kind, NEW copied, NEW admit, PushBegin(kind, copied, admit)
      PROVE  CaptureNewer'
  <2>1. /\ producer'.captured = NoCheckpoint
        /\ producer'.needs => /\ CheckpointInterval > 0
                              /\ accepted + 1 >= requested + CheckpointInterval
    BY <1>8 DEF PushBegin
  <2>2. producer'.needs => accepted + 1 > requested
    BY <1>1, <2>1, ConstantsAssumption
  <2>3. QED
    BY <1>1, <1>3, <1>4, <2>1, <2>2 DEF CaptureNewer
<1>9. ASSUME NEW oversized, PushPrepare(oversized) PROVE CaptureNewer'
  <2> DEFINE wants == (producer.needs \/ producer.admit) /\ producer.kind = "record"
             kept == IF wants /\ producer.needs THEN Captured(oversized)
                     ELSE NoCheckpoint
  <2>1. CASE producer' = [stage |-> "prepared", kind |-> producer.kind,
                          copied |-> producer.copied, needs |-> FALSE,
                          admit |-> FALSE, captured |-> kept]
    <3>1. /\ producer'.stage = "prepared" /\ producer'.kind = producer.kind
          /\ producer'.captured = kept
      BY <2>1
    <3>2. ASSUME worker # "down", kept # NoCheckpoint
          PROVE  /\ producer.kind = "record" /\ accepted + 1 > requested
                 /\ kept.sequence = accepted + 1 /\ kept.count = records + 1
      <4>1. producer.needs /\ producer.kind = "record" /\ kept = Captured(oversized)
        BY <3>2
      <4>2. producer.stage = "begun"
        BY <1>9 DEF PushPrepare
      <4>3. accepted + 1 > requested
        BY <3>2, <4>1, <4>2 DEF FInv, CaptureNewer
      <4>4. QED
        BY <4>1, <4>3 DEF Captured
    <3> HIDE DEF kept
    <3>3. QED
      BY <1>1, <1>3, <1>4, <3>1, <3>2 DEF CaptureNewer
  <2>2. CASE producer' = NoProducer
    BY <1>7, <2>2
  <2>3. QED
    BY <1>9, <2>1, <2>2 DEF PushPrepare, RefuseFailed, RefuseFull
<1>10. ASSUME PushRefused PROVE CaptureNewer'
  BY <1>7, <1>10 DEF PushRefused, RefuseFailed, RefuseFull
<1>11. CaptureNewer'
  BY <1>8, <1>9, <1>10
<1>12. QED
  BY <1>6, <1>11

\* The accepted entry's checkpoint is newer than the stored one and the one
\* in flight, and it counts the entry.
LEMMA AcceptOrdered ==
  ASSUME FInv, RInv', PushAccept
  PROVE  (CheckpointsOrdered /\ CaptureNewer)'
<1>1. /\ checkpoint \in Checkpoints /\ taken \in Checkpoints /\ stored \in Checkpoints
      /\ requested \in Nat /\ accepted \in Nat /\ durable \in Nat /\ records \in Nat
      /\ taken.sequence \in Nat /\ stored.sequence \in Nat
      /\ Len(batch) \in Nat /\ RInv /\ producer.captured \in Checkpoints
  BY CheckpointTypes DEF IInv, TypeOK, Producers
<1>2. /\ accepted' = accepted + 1 /\ UNCHANGED diskVars /\ durable' = durable
      /\ \A s \in 1..accepted : AcceptedLog'[s] = AcceptedLog[s]
      /\ AcceptedLog'[accepted + 1].kind = producer.kind
  BY <1>1, AcceptedLogGrows
<1>3. /\ UNCHANGED <<taken, batch, durable, stored>> /\ producer' = NoProducer
      /\ worker # "down"
      /\ records' = IF producer.kind = "record" THEN records + 1 ELSE records
  BY <1>1, <1>2 DEF PushAccept, RInv, GateFree, diskVars
<1>4. Attempting => Attempting'
  BY DEF PushAccept, NotifyOne, WorkerWaits, Attempting
<1>5. records = RecordsIn(AcceptedLog, accepted) /\ requested <= accepted
  BY <1>3 DEF FInv, CaptureNewer, CheckpointsOrdered
<1>6. records' = RecordsIn(AcceptedLog', accepted + 1)
  <2>1. \A s \in 1..accepted : AcceptedLog[s] = AcceptedLog'[s]
    BY <1>2
  <2>2. RecordsIn(AcceptedLog', accepted + 1)
          = IF AcceptedLog'[accepted + 1].kind = "record"
              THEN RecordsIn(AcceptedLog, accepted) + 1
              ELSE RecordsIn(AcceptedLog, accepted)
    BY <1>1, <2>1, RecordsNext
  <2>3. QED
    BY <1>2, <1>3, <1>5, <2>2
<1>7. CaptureNewer'
  BY <1>2, <1>3, <1>6 DEF CaptureNewer, NoProducer
<1>8. /\ stored.sequence <= requested
      /\ \A c \in {checkpoint, taken} : c # NoCheckpoint =>
           /\ Describes(c, AcceptedLog, requested)
           /\ stored.sequence <= c.sequence
           /\ stored.sequence = c.sequence => stored = c
      /\ checkpoint # NoCheckpoint /\ taken # NoCheckpoint =>
           taken.sequence < checkpoint.sequence
      /\ taken # NoCheckpoint => Attempting /\ taken.sequence <= durable + Len(batch)
  BY <1>3 DEF FInv, CheckpointsOrdered
<1>9. \A s \in 1..requested : AcceptedLog'[s] = AcceptedLog[s]
  BY <1>1, <1>2, <1>5
<1>10. ASSUME NEW c \in {checkpoint, taken}, c # NoCheckpoint, NEW m \in Nat, requested <= m
       PROVE  Describes(c, AcceptedLog', m)
  BY <1>1, <1>8, <1>9, <1>10, DescribesKept
<1>11. CASE producer.captured # NoCheckpoint
  <2>1. checkpoint' = producer.captured /\ requested' = accepted + 1
    BY <1>11 DEF PushAccept
  <2>2. /\ producer.kind = "record" /\ producer.captured.sequence = accepted + 1
        /\ producer.captured.count = records + 1 /\ accepted + 1 > requested
    BY <1>3, <1>11 DEF FInv, CaptureNewer
  <2>3. Describes(checkpoint', AcceptedLog', requested')
    BY <1>1, <1>3, <1>6, <2>1, <2>2 DEF Describes
  <2>4. taken # NoCheckpoint => /\ Describes(taken, AcceptedLog', requested')
                                /\ taken.sequence < checkpoint'.sequence
    <3>1. ASSUME taken # NoCheckpoint
          PROVE  /\ Describes(taken, AcceptedLog', accepted + 1)
                 /\ taken.sequence < accepted + 1
      <4>1. Describes(taken, AcceptedLog', accepted + 1)
        BY <1>1, <1>5, <1>10, <3>1
      <4>2. taken.sequence <= requested
        BY <1>1, <1>8, <3>1 DEF Describes
      <4>3. QED
        BY <1>1, <1>5, <4>1, <4>2
    <3>2. QED
      BY <2>1, <2>2, <3>1
  <2>5. stored.sequence < checkpoint'.sequence
    BY <1>1, <1>8, <2>1, <2>2
  <2>6. stored.sequence <= requested' /\ requested' <= accepted'
    BY <1>1, <1>2, <1>5, <1>8, <2>1
  <2>7. stored.sequence <= checkpoint'.sequence /\ stored.sequence # checkpoint'.sequence
    BY <1>1, <2>1, <2>2, <2>5
  <2>8. QED
    BY <1>3, <1>4, <1>7, <1>8, <2>3, <2>4, <2>6, <2>7 DEF CheckpointsOrdered
<1>12. CASE producer.captured = NoCheckpoint
  <2>1. UNCHANGED <<checkpoint, requested>>
    BY <1>12 DEF PushAccept
  <2>2. \A c \in {checkpoint, taken} : c # NoCheckpoint =>
          Describes(c, AcceptedLog', requested)
    BY <1>1, <1>10
  <2>3. requested <= accepted'
    BY <1>1, <1>2, <1>5
  <2>4. QED
    BY <1>3, <1>4, <1>7, <1>8, <2>1, <2>2, <2>3 DEF CheckpointsOrdered
<1>13. QED
  BY <1>11, <1>12

\* The worker: the drain and the end of an attempt hand a checkpoint on, and
\* a commit makes the one in flight the stored one.
LEMMA WorkerOrdered ==
  ASSUME FInv, RInv', WorkerTake \/ CommitBatch \/ FinishCommitted \/ FinishFailed
  PROVE  (CheckpointsOrdered /\ CaptureNewer)'
<1>1. /\ checkpoint \in Checkpoints /\ taken \in Checkpoints /\ stored \in Checkpoints
      /\ requested \in Nat /\ accepted \in Nat /\ durable \in Nat
      /\ checkpoint.sequence \in Nat /\ taken.sequence \in Nat /\ stored.sequence \in Nat
      /\ Len(batch) \in Nat /\ RInv /\ IInv
  BY CheckpointTypes
<1>2. /\ worker # "down" /\ worker' # "down"
      /\ UNCHANGED <<requested, accepted, producer, records>>
  BY DEF WorkerTake, CommitBatch, FinishCommitted, FinishFailed, stateVars, gateVars
<1>3. AcceptedLog' = AcceptedLog
  BY <1>1, CommitKeepsLog, FinishStep, QuietSteps, QuietLog
<1>4. CaptureNewer'
  BY <1>2, <1>3, CaptureSame
<1>5. /\ stored.sequence <= requested /\ requested <= accepted
      /\ \A c \in {checkpoint, taken} : c # NoCheckpoint =>
           /\ Describes(c, AcceptedLog, requested)
           /\ stored.sequence <= c.sequence
           /\ stored.sequence = c.sequence => stored = c
      /\ checkpoint # NoCheckpoint /\ taken # NoCheckpoint =>
           taken.sequence < checkpoint.sequence
      /\ taken # NoCheckpoint => Attempting /\ taken.sequence <= durable + Len(batch)
  BY <1>2 DEF FInv, CheckpointsOrdered
<1>6. CASE WorkerTake
  <2>1. /\ taken' = checkpoint /\ checkpoint' = NoCheckpoint /\ batch' = pending
        /\ UNCHANGED <<durable, stored>> /\ worker' = "encoding"
    BY <1>6 DEF WorkerTake, diskVars
  <2>2. durable + Len(batch') = accepted
    <3>1. batch = <<>> /\ pending \in Seq(Entries)
      BY <1>1, <1>6 DEF WorkerTake, IInv, BatchHeld, Attempting, Open, TypeOK
    <3>2. Unsaved = pending
      BY <3>1, ConcatEmptySeq DEF Unsaved
    <3>3. Len(pending) = accepted - durable /\ Len(pending) \in Nat
      BY <1>2, <3>1, <3>2, LenProperties DEF FInv, RInv, LogCovered
    <3>4. QED
      BY <1>1, <2>1, <3>3
  <2>3. checkpoint # NoCheckpoint => checkpoint.sequence <= requested
    BY <1>1, <1>5 DEF Describes
  <2>4. checkpoint # NoCheckpoint => checkpoint.sequence <= durable + Len(batch')
    BY <1>1, <1>5, <2>2, <2>3
  <2>5. QED
    BY <1>2, <1>3, <1>4, <1>5, <2>1, <2>4 DEF CheckpointsOrdered, Attempting
<1>7. CASE CommitBatch
  <2>1. /\ UNCHANGED <<checkpoint, taken, batch, durable>>
        /\ worker' \in {"committed", "failed"}
    BY <1>7 DEF CommitBatch, stateVars
  <2>2. CASE stored' = stored
    BY <1>2, <1>3, <1>4, <1>5, <2>1, <2>2 DEF CheckpointsOrdered, Attempting
  <2>3. CASE taken # NoCheckpoint /\ stored' = taken
    <3>1. taken.sequence <= requested
      BY <1>1, <1>5, <2>3 DEF Describes
    <3>2. checkpoint # NoCheckpoint =>
            taken.sequence <= checkpoint.sequence /\ taken.sequence # checkpoint.sequence
      BY <1>1, <1>5, <2>3
    <3>3. taken.sequence <= taken.sequence
      BY <1>1
    <3>4. QED
      BY <1>2, <1>3, <1>4, <1>5, <2>1, <2>3, <3>1, <3>2, <3>3
         DEF CheckpointsOrdered, Attempting
  <2>4. QED
    BY <1>7, <2>2, <2>3 DEF CommitBatch, ApplyBatch, diskVars
<1>8. CASE FinishCommitted
  <2>1. taken' = NoCheckpoint /\ UNCHANGED <<checkpoint, stored>>
    BY <1>8 DEF FinishCommitted, diskVars
  <2>2. QED
    BY <1>2, <1>3, <1>4, <1>5, <2>1 DEF CheckpointsOrdered
<1>9. CASE FinishFailed
  <2>1. /\ taken' = NoCheckpoint /\ stored' = stored
        /\ checkpoint' = IF checkpoint = NoCheckpoint THEN taken ELSE checkpoint
    BY <1>9 DEF FinishFailed, diskVars
  <2>2. QED
    BY <1>2, <1>3, <1>4, <1>5, <2>1 DEF CheckpointsOrdered
<1>10. QED
  BY <1>6, <1>7, <1>8, <1>9

\* What load returns is what the log was: its last sequence, the stored
\* checkpoint and the number of records.
LEMMA RestartOrdered ==
  ASSUME FInv, RInv', Crash \/ Reopen
  PROVE  (CheckpointsOrdered /\ CaptureNewer)'
<1>1. CASE Crash
  BY <1>1 DEF Crash, CheckpointsOrdered, CaptureNewer
<1>2. CASE Reopen
  <2>1. /\ RInv /\ stored.sequence \in Nat /\ LastSequence \in Nat
        /\ Sequences = 0..LastSequence /\ Rows \subseteq Entries
    BY CheckpointTypes, LogTypes
  <2>2. /\ checkpoint' = NoCheckpoint /\ taken' = NoCheckpoint /\ producer' = NoProducer
        /\ accepted' = LastSequence /\ requested' = stored.sequence /\ stored' = stored
        /\ records' = Cardinality({row \in Rows : row.kind = "record"})
    BY <1>2 DEF Reopen, ForgetMemory, diskVars
  <2>3. stored.sequence <= LastSequence
    BY <2>1 DEF FInv, StoredDescribes, Describes, NoCheckpoint
  <2>4. {row \in Rows : row.kind = "record"}
          = {row \in Rows : row.sequence \in 1..LastSequence /\ row.kind = "record"}
    <3> SUFFICES ASSUME NEW row \in Rows, row.kind = "record"
                 PROVE  row.sequence \in 1..LastSequence
      OBVIOUS
    <3>1. row.sequence # 0
      BY DEF FInv, KindsKnown
    <3>2. row.sequence \in Sequences
      BY DEF Sequences
    <3>3. QED
      BY <2>1, <3>1, <3>2
  <2>5. records' = RecordsIn(AcceptedLog, LastSequence)
    BY <2>1, <2>2, <2>4, RowsCounted
  <2>6. \A s \in 1..LastSequence : AcceptedLog[s] = AcceptedLog'[s]
    BY <1>2, <2>1, PrefixKept DEF Next
  <2>7. records' = RecordsIn(AcceptedLog', LastSequence)
    BY <2>1, <2>5, <2>6, RecordsSame
  <2>8. stored.sequence <= requested' /\ requested' <= accepted'
    BY <2>1, <2>2, <2>3
  <2>9. CheckpointsOrdered'
    BY <2>2, <2>8 DEF CheckpointsOrdered
  <2>10. CaptureNewer'
    BY <2>2, <2>7 DEF CaptureNewer, NoProducer
  <2>11. QED
    BY <2>9, <2>10
<1>3. QED
  BY <1>1, <1>2

-----------------------------------------------------------------------------
(* The theorems *)

LEMMA FInvInit == Init => FInv
<1> SUFFICES ASSUME Init PROVE FInv
  OBVIOUS
<1>1. RInv
  BY RInvInit
<1>2. Rows = {Base} /\ DOMAIN Unsaved = {}
  <2>1. Unsaved = <<>>
    BY EmptySeq, ConcatEmptySeq DEF Init, Unsaved
  <2>2. QED
    BY <2>1 DEF Init, Rows
<1>3. KindsKnown /\ HistoryCovered
  BY <1>2 DEF Init, KindsKnown, HistoryCovered, Base, NoCheckpoint
<1>4. RecordsIn(AcceptedLog, 0) = 0
  <2>1. {s \in 1..0 : AcceptedLog[s].kind = "record"} = {}
    OBVIOUS
  <2>2. QED
    BY <2>1, FS_EmptySet DEF RecordsIn
<1>5. StoredDescribes /\ CheckpointsOrdered /\ CaptureNewer
  BY <1>4 DEF Init, StoredDescribes, CheckpointsOrdered, CaptureNewer, NoProducer,
     NoCheckpoint
<1>6. QED
  BY <1>1, <1>3, <1>5 DEF FInv

LEMMA FInvStep == FInv /\ [Next]_vars => FInv'
<1> SUFFICES ASSUME FInv, [Next]_vars PROVE FInv'
  OBVIOUS
<1>1. RInv'
  BY RInvStep DEF FInv
<1>2. KindsKnown' /\ HistoryCovered' /\ StoredDescribes'
  BY <1>1, KindsStep, HistoryStep, StoredStep
<1>3. (CheckpointsOrdered /\ CaptureNewer)'
  BY <1>1, PassiveSteps, ProducerSteps, AcceptOrdered, WorkerOrdered, RestartOrdered
     DEF Next, Push, Worker
<1>4. QED
  BY <1>1, <1>2, <1>3 DEF FInv

LEMMA FInvLoads == FInv => FileLoads
<1> SUFFICES ASSUME FInv PROVE FileLoads
  OBVIOUS
<1>1. /\ RInv /\ LastSequence \in Nat /\ Sequences = 0..LastSequence
      /\ Rows \subseteq Entries
  BY LogTypes DEF FInv, RInv
<1>2. ASSUME stored # NoCheckpoint
      PROVE  /\ stored.sequence \in 1..LastSequence
             /\ stored.count = Cardinality({row \in history : row.kind = "record"})
  <2>1. /\ stored.sequence \in 1..LastSequence
        /\ stored.count = RecordsIn(AcceptedLog, stored.sequence)
    BY <1>2 DEF FInv, StoredDescribes, Describes
  <2>2. \A row \in Rows : row \in history <=> row.sequence \in 1..stored.sequence
    <3> SUFFICES ASSUME NEW row \in Rows
                 PROVE  row \in history <=> row.sequence \in 1..stored.sequence
      OBVIOUS
    <3>1. row.sequence \in Nat /\ stored.sequence \in Nat
      BY <1>1, <2>1 DEF Entries
    <3>2. QED
      BY <3>1 DEF FInv, HistoryCovered
  <2>3. {row \in history : row.kind = "record"}
          = {row \in Rows : row.sequence \in 1..stored.sequence /\ row.kind = "record"}
    BY <2>2 DEF Rows
  <2>4. QED
    BY <1>1, <2>1, <2>3, RowsCounted
<1>3. QED
  BY <1>1, <1>2 DEF FInv, RInv, RowsAgree, KindsKnown, HistoryCovered, FileLoads, Loadable

LEMMA FInvReconciles == FInv => RetryReconciles
<1> SUFFICES ASSUME FInv, worker = "committing" PROVE Reconciles
  BY DEF RetryReconciles
<1>1. TypeOK /\ LogCovered /\ CheckpointsOrdered /\ journal \cap history = {}
  BY DEF FInv, RInv, IInv, HistoryCovered
<1>2. \A i \in DOMAIN batch : \A row \in Rows :
        row.sequence = batch[i].sequence => row = batch[i]
  BY <1>1, UnsavedType DEF LogCovered
<1>3. taken # NoCheckpoint => /\ stored.sequence <= taken.sequence
                              /\ stored.sequence = taken.sequence => stored = taken
  BY <1>1 DEF CheckpointsOrdered
<1>4. Covered \cap history = {}
  BY <1>1 DEF Covered, Appended
<1>5. QED
  BY <1>2, <1>3, <1>4 DEF Reconciles

\* At every moment of every behaviour, also between a commit and its
\* acknowledgement and after any number of failed or uncertain attempts, the
\* file is one that load accepts: a crash never leaves an invalid save.
THEOREM FileAlwaysLoads == Spec => []FileLoads
BY FInvInit, FInvStep, FInvLoads, PTL DEF Spec

\* No attempt to save meets a conflict: every row under a batch's sequence is
\* that entry, the stored checkpoint is no newer than the one in flight, and
\* rotation inserts nothing history has.
THEOREM RetriesReconcile == Spec => []RetryReconciles
BY FInvInit, FInvStep, FInvReconciles, PTL DEF Spec

=============================================================================
