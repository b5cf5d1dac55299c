------------------------------ MODULE Storage ------------------------------
(***************************************************************************)
(* The save of one world (crates/server/src/storage.rs): the producer that *)
(* admits journal entries (push), the single background worker that drains *)
(* them into SQLite transactions (run_worker, commit_batch), the callers   *)
(* of flush, and the reopening of the file after a close or a crash        *)
(* (load, Store::open).                                                    *)
(*                                                                         *)
(* One action is one critical section of the mutex around `State`, or one  *)
(* SQLite transaction.  Time is the age of the oldest unsaved entry, in    *)
(* the two thresholds SavePolicy compares it with.  Region rows and the    *)
(* copied region inputs, which ride in the same transactions, count here   *)
(* only by their size.                                                     *)
(***************************************************************************)
EXTENDS Integers, Sequences, FiniteSets, SequencesExt

CONSTANTS
  Flushers,            \* threads that may call Store::flush
  MaxSequence,         \* the last sequence push can give out (i64::MAX in the code)
  MaxOpens,            \* bound: how often the save is opened
  CheckpointInterval,  \* SavePolicy.checkpoint_interval; 0 takes no checkpoint
  MaxPendingBytes,     \* SavePolicy.max_pending_bytes
  CopiedSizes          \* bytes of region inputs an entry may copy into the save

ASSUME ConstantsAssumption ==
  /\ MaxSequence \in Nat
  /\ MaxOpens \in Nat \ {0}
  /\ CheckpointInterval \in Nat
  /\ MaxPendingBytes \in Nat \ {0}
  /\ CopiedSizes \subseteq Nat

VARIABLES
  \* struct State, under the mutex
  pending,      \* VecDeque<Pending>
  checkpoint,   \* the retained checkpoint, taken with the next batch
  requested,    \* last_checkpoint_requested
  accepted,     \* status.accepted_sequence
  durable,      \* status.durable_sequence
  bytes,        \* status.pending_bytes
  failure,      \* SaveFailure; status.error is Some exactly when it is
  force,        \* save at once while force > durable
  closing,      \* the owner is being dropped
  age,          \* age of `oldest`: 0 young, 1 past target_interval, 2 past max_unsaved_age
  \* the worker thread
  worker,       \* where it is
  batch,        \* the entries it has drained
  taken,        \* the checkpoint it took with them
  outcome,      \* how its attempt failed, if it did
  \* the producer that holds the admission gate
  producer,     \* its stage and what it prepared
  records,      \* archive.records.len() of the engine that captures
  \* the flushing threads
  flusher,      \* where each is
  target,       \* the sequence each waits for
  \* the file
  journal,      \* rows of table journal
  history,      \* rows of table history
  stored,       \* the row of table checkpoint
  \* observation only
  opens,        \* how often the save has been opened
  promised      \* the highest sequence a flush has reported saved

stateVars   == <<pending, checkpoint, requested, accepted, durable, bytes,
                 failure, force, closing, age>>
workerVars  == <<worker, batch, taken, outcome>>
gateVars    == <<producer, records>>
flushVars   == <<flusher, target>>
diskVars    == <<journal, history, stored>>
vars == <<stateVars, workerVars, gateVars, flushVars, diskVars, opens, promised>>

-----------------------------------------------------------------------------
(* Data *)

\* A row's bytes are identified by who wrote them: its sequence and the
\* opening of the save during which it was accepted.
Entries == [sequence : 0..MaxSequence, kind : {"base", "record", "marker"},
            copied : {0} \cup CopiedSizes, opening : 0..MaxOpens]

Base == [sequence |-> 0, kind |-> "base", copied |-> 0, opening |-> 0]

\* `oversized`: encoding this snapshot exceeds MAX_CHECKPOINT.  Sequence 0
\* stands for None: push only ever captures at a sequence above it.
Checkpoints == [sequence : Nat, count : Nat, oversized : BOOLEAN, opening : Nat]

NoCheckpoint == [sequence |-> 0, count |-> 0, oversized |-> FALSE, opening |-> 0]

Failures == [kind : {"none", "retryable", "capacity"}, sequence : Nat]

NoFailure == [kind |-> "none", sequence |-> 0]
Retryable == [kind |-> "retryable", sequence |-> 0]
CheckpointCapacity(s) == [kind |-> "capacity", sequence |-> s]

Failed == failure # NoFailure

\* blocks_retry: the snapshot that was too large is still the one retained.
BlocksRetry ==
  /\ failure.kind = "capacity"
  /\ checkpoint # NoCheckpoint
  /\ checkpoint.sequence = failure.sequence

\* One unit for the frame, plus what it copies.
FrameBytes == 1
SizeOf(e) == FrameBytes + e.copied
SizeOfAll(s) == FoldSeq(+, 0, [i \in DOMAIN s |-> SizeOf(s[i])])

\* (Mutant: a batch in flight is forgotten.)
FitsQueueBehindBatch(copied) ==
  /\ bytes + FrameBytes <= MaxPendingBytes
  /\ pending = <<>> \/ bytes + FrameBytes + copied <= MaxPendingBytes

FitsQueue(copied) ==
  /\ bytes + FrameBytes <= MaxPendingBytes
  /\ bytes = 0 \/ bytes + FrameBytes + copied <= MaxPendingBytes

\* (Mutant: no deadline, only opportunities.)
DueWhenIdle(idle) ==
  \/ force > durable
  \/ bytes >= (MaxPendingBytes * 3) \div 4
  \/ age >= 1 /\ idle

\* SavePolicy::due; idle is whether the last activity is idle_interval ago.
Due(idle) ==
  \/ force > durable
  \/ age = 2
  \/ bytes >= (MaxPendingBytes * 3) \div 4
  \/ age = 1 /\ idle

Unsaved == batch \o pending

Rows == journal \cup history

Open == worker \notin {"down", "exited"}

-----------------------------------------------------------------------------
(* The condition variable `wake`, shared by the worker and every flusher *)

WorkerWaits == worker \in {"waiting", "waiting_timeout"}

\* notify_one, after the caller has made the flushers' states `fl`.
NotifyOne(fl) ==
  \/ /\ WorkerWaits
     /\ worker' = "running"
     /\ flusher' = fl
  \/ \E f \in Flushers :
       /\ fl[f] = "waiting"
       /\ flusher' = [fl EXCEPT ![f] = "woken"]
       /\ UNCHANGED worker
  \/ /\ ~WorkerWaits
     /\ \A f \in Flushers : fl[f] # "waiting"
     /\ flusher' = fl
     /\ UNCHANGED worker

\* (Mutant: one waiter instead of all.)
NotifyAnyone ==
  flusher' = LET W == {f \in Flushers : flusher[f] = "waiting"}
             IN  IF W = {} THEN flusher
                 ELSE [flusher EXCEPT ![CHOOSE f \in W : TRUE] = "woken"]

\* notify_all, by the worker.
NotifyAll ==
  flusher' = [f \in Flushers |->
                IF flusher[f] = "waiting" THEN "woken" ELSE flusher[f]]

-----------------------------------------------------------------------------
(* push: three critical sections under the admission gate *)

NoProducer == [stage |-> "none", kind |-> "record", copied |-> 0,
               needs |-> FALSE, admit |-> FALSE, captured |-> NoCheckpoint]

Producers == [stage : {"none", "begun", "prepared"}, kind : {"record", "marker"},
              copied : {0} \cup CopiedSizes, needs : BOOLEAN, admit : BOOLEAN,
              captured : Checkpoints]

\* (Mutant: one past the limit.)
SequenceLeftOver == accepted <= MaxSequence

SequenceLeft == accepted < MaxSequence

\* Refuse on a failure or on closing; otherwise decide whether this entry
\* is due a checkpoint.  A marker (kind 2) copies nothing and captures
\* nothing; only an ordinary record may ask for history admission.
PushBegin(kind, copied, admit) ==
  /\ Open
  /\ producer = NoProducer
  /\ ~Failed /\ ~closing
  /\ SequenceLeft
  /\ producer' = [stage |-> "begun", kind |-> kind, copied |-> copied,
                  needs |-> /\ CheckpointInterval > 0
                            /\ accepted + 1 >= requested + CheckpointInterval,
                  admit |-> admit, captured |-> NoCheckpoint]
  /\ UNCHANGED <<stateVars, workerVars, records, flushVars, diskVars, opens, promised>>

\* check_admission's refusals.  A full queue asks for a save of what it holds.
RefuseFailed(p) ==
  /\ Failed \/ closing
  /\ producer' = NoProducer
  /\ UNCHANGED <<force, worker, flusher>>

\* (Mutant: the worker is not told.)
RefuseFullQuietly(p) ==
  /\ ~Failed /\ ~closing
  /\ ~FitsQueue(p.copied)
  /\ force' = accepted
  /\ producer' = NoProducer
  /\ UNCHANGED <<worker, flusher>>

RefuseFull(p) ==
  /\ ~Failed /\ ~closing
  /\ ~FitsQueue(p.copied)
  /\ force' = accepted
  /\ NotifyOne(flusher)
  /\ producer' = NoProducer

MayJoin(p) == ~Failed /\ ~closing /\ FitsQueue(p.copied)

\* (Mutant: every journal entry is counted, markers too.)
CapturedByEntry(oversized) ==
  [sequence |-> accepted + 1, count |-> accepted + 1,
   oversized |-> oversized, opening |-> opens]

\* The engine's snapshot after this entry; only records are counted.
Captured(oversized) ==
  [sequence |-> accepted + 1, count |-> records + 1,
   oversized |-> oversized, opening |-> opens]

\* The first check, and the capture that follows it outside the mutex.  The
\* capture is of the state after this entry.  An admitted history checkpoint
\* must fit, whether or not it is then kept.
PushPrepare(oversized) ==
  LET p == producer
      wants == (p.needs \/ p.admit) /\ p.kind = "record"
  IN  /\ p.stage = "begun"
      /\ oversized => wants
      /\ \/ RefuseFailed(p)
         \/ RefuseFull(p)
         \/ /\ MayJoin(p)
            /\ producer' = IF p.admit /\ oversized
                             THEN NoProducer
                             ELSE [stage |-> "prepared", kind |-> p.kind,
                                   copied |-> p.copied,
                                   needs |-> FALSE, admit |-> FALSE,
                                   captured |-> IF wants /\ p.needs
                                                  THEN Captured(oversized)
                                                  ELSE NoCheckpoint]
            /\ UNCHANGED <<force, worker, flusher>>
      /\ UNCHANGED <<pending, checkpoint, requested, accepted, durable, bytes,
                     failure, closing, age, batch, taken, outcome, records,
                     target, diskVars, opens, promised>>

\* The second check, refusing...
PushRefused ==
  /\ producer.stage = "prepared"
  /\ RefuseFailed(producer) \/ RefuseFull(producer)
  /\ UNCHANGED <<pending, checkpoint, requested, accepted, durable, bytes,
                 failure, closing, age, batch, taken, outcome, records,
                 target, diskVars, opens, promised>>

\* (Mutant: only the room is checked again.)
StillFits(p) == FitsQueue(p.copied)

MayStillJoin(p) == MayJoin(p)

\* ... or accepting the entry and, with it, a newer checkpoint in place of
\* any the worker has not taken.
PushAccept ==
  LET p == producer
      entry == [sequence |-> accepted + 1, kind |-> p.kind,
                copied |-> p.copied, opening |-> opens]
  IN  /\ p.stage = "prepared"
      /\ MayStillJoin(p)
      /\ IF p.captured # NoCheckpoint
           THEN /\ checkpoint' = p.captured
                /\ requested' = accepted + 1
           ELSE UNCHANGED <<checkpoint, requested>>
      /\ pending' = Append(pending, entry)
      /\ accepted' = accepted + 1
      /\ bytes' = bytes + SizeOf(entry)
      /\ records' = IF p.kind = "record" THEN records + 1 ELSE records
      /\ producer' = NoProducer
      /\ NotifyOne(flusher)
      /\ UNCHANGED <<durable, failure, force, closing, age, batch, taken,
                     outcome, target, diskVars, opens, promised>>

\* The oldest unsaved entry grows older.
Age ==
  /\ Open
  /\ Unsaved # <<>>
  /\ age < 2
  /\ age' = age + 1
  /\ UNCHANGED <<pending, checkpoint, requested, accepted, durable, bytes,
                 failure, force, closing, workerVars, gateVars, flushVars,
                 diskVars, opens, promised>>

-----------------------------------------------------------------------------
(* request_flush and flush *)

\* Save everything accepted so far, and forgive a failure a retry may cure.
RequestFlushThen(fl) ==
  /\ force' = accepted
  /\ IF BlocksRetry
       THEN /\ flusher' = fl
            /\ UNCHANGED <<failure, worker>>
       ELSE /\ failure' = NoFailure
            /\ NotifyOne(fl)
  /\ UNCHANGED <<pending, checkpoint, requested, accepted, durable, bytes,
                 closing, age, batch, taken, outcome, gateVars, diskVars,
                 opens, promised>>

\* The engine's save request does not wait: the session polls for the result.
RequestFlush ==
  /\ Open /\ ~closing
  /\ RequestFlushThen(flusher)
  /\ UNCHANGED target

Flush(f) ==
  /\ Open /\ ~closing
  /\ flusher[f] = "idle"
  /\ target' = [target EXCEPT ![f] = accepted]
  /\ RequestFlushThen([flusher EXCEPT ![f] = "woken"])

\* One turn of flush's loop: report success, report the failure, or wait.
FlushCheck(f) ==
  /\ flusher[f] = "woken"
  /\ \/ /\ durable >= target[f]
        /\ flusher' = [flusher EXCEPT ![f] = "idle"]
        /\ target' = [target EXCEPT ![f] = 0]
        /\ promised' = IF target[f] > promised THEN target[f] ELSE promised
     \/ /\ durable < target[f] /\ Failed
        /\ flusher' = [flusher EXCEPT ![f] = "idle"]
        /\ target' = [target EXCEPT ![f] = 0]
        /\ UNCHANGED promised
     \/ /\ durable < target[f] /\ ~Failed
        /\ flusher' = [flusher EXCEPT ![f] = "waiting"]
        /\ UNCHANGED <<target, promised>>
  /\ UNCHANGED <<stateVars, workerVars, gateVars, diskVars, opens>>

\* A condition variable may wake a waiter nobody notified.
SpuriousWake ==
  /\ \/ /\ worker = "waiting"
        /\ worker' = "running"
        /\ UNCHANGED flusher
     \/ \E f \in Flushers :
          /\ flusher[f] = "waiting"
          /\ flusher' = [flusher EXCEPT ![f] = "woken"]
          /\ UNCHANGED worker
  /\ UNCHANGED <<stateVars, batch, taken, outcome, gateVars, target, diskVars,
                 opens, promised>>

-----------------------------------------------------------------------------
(* run_worker *)

\* (Mutant: leave what is queued.)
ExitsAtOnce == closing

Exits == closing /\ (pending = <<>> \/ Failed)

WorkerExit ==
  /\ worker = "running"
  /\ Exits
  /\ worker' = "exited"
  /\ UNCHANGED <<stateVars, batch, taken, outcome, gateVars, flushVars,
                 diskVars, opens, promised>>

\* Wait for a notification: nothing to do, or nothing that may be done.
WorkerWait ==
  /\ worker = "running"
  /\ ~Exits
  /\ pending = <<>> \/ Failed
  /\ worker' = "waiting"
  /\ UNCHANGED <<stateVars, batch, taken, outcome, gateVars, flushVars,
                 diskVars, opens, promised>>

\* Wait until the policy may be due.
WorkerWaitTimeout ==
  /\ worker = "running"
  /\ ~Exits
  /\ pending # <<>> /\ ~Failed
  /\ ~Due(FALSE)
  /\ worker' = "waiting_timeout"
  /\ UNCHANGED <<stateVars, batch, taken, outcome, gateVars, flushVars,
                 diskVars, opens, promised>>

WorkerTimeout ==
  /\ worker = "waiting_timeout"
  /\ worker' = "running"
  /\ UNCHANGED <<stateVars, batch, taken, outcome, gateVars, flushVars,
                 diskVars, opens, promised>>

\* Drain the whole queue and its checkpoint in one critical section.
WorkerTake ==
  /\ worker = "running"
  /\ ~Exits
  /\ pending # <<>> /\ ~Failed
  /\ Due(TRUE)
  /\ batch' = pending
  /\ pending' = <<>>
  /\ taken' = checkpoint
  /\ checkpoint' = NoCheckpoint
  /\ worker' = "encoding"
  /\ UNCHANGED <<requested, accepted, durable, bytes, failure, force, closing,
                 age, outcome, gateVars, flushVars, diskVars, opens, promised>>

\* An oversized snapshot fails every time it is encoded; any snapshot may
\* fail for another reason.
EncodeCheckpoint ==
  /\ worker = "encoding"
  /\ \/ /\ taken.oversized
        /\ worker' = "failed"
        /\ outcome' = CheckpointCapacity(taken.sequence)
     \/ /\ taken # NoCheckpoint /\ ~taken.oversized
        /\ worker' = "failed"
        /\ outcome' = Retryable
     \/ /\ ~taken.oversized
        /\ worker' = "committing"
        /\ UNCHANGED outcome
  /\ UNCHANGED <<stateVars, batch, taken, gateVars, flushVars, diskVars, opens,
                 promised>>

\* (Mutant: rows already rotated into history are not looked for.)
AppendAgain == journal \cup ToSet(batch)

\* Append what neither table holds yet.
Appended == journal \cup (ToSet(batch) \ history)

Covered == {row \in Appended : row.sequence > 0 /\ row.sequence <= taken.sequence}

\* What no statement of the transaction refuses: every row already stored
\* under a batch's sequence is that very entry, the stored checkpoint is no
\* newer, and history, whose key is the sequence, has none of the rows that
\* rotation inserts.
Reconciles ==
  /\ \A i \in DOMAIN batch : \A row \in Rows :
       row.sequence = batch[i].sequence => row = batch[i]
  /\ taken # NoCheckpoint =>
       /\ stored.sequence <= taken.sequence
       /\ stored.sequence = taken.sequence => stored = taken
       /\ Covered \cap history = {}

\* The transaction: append, then replace the checkpoint and rotate the
\* entries it covers into history.
ApplyBatch ==
  IF taken = NoCheckpoint
    THEN /\ journal' = Appended
         /\ UNCHANGED <<history, stored>>
    ELSE /\ journal' = Appended \ Covered
         /\ history' = history \cup Covered
         /\ stored' = taken

\* The commit succeeds; or it takes effect and still reports an error; or
\* the attempt (barrier, connection, any statement) fails without effect.
CommitBatch ==
  /\ worker = "committing"
  /\ \/ /\ Reconciles
        /\ ApplyBatch
        /\ \/ worker' = "committed" /\ UNCHANGED outcome
           \/ worker' = "failed" /\ outcome' = Retryable
     \/ /\ worker' = "failed"
        /\ outcome' = Retryable
        /\ UNCHANGED diskVars
  /\ UNCHANGED <<stateVars, batch, taken, gateVars, flushVars, opens, promised>>

\* (Mutant: what was accepted meanwhile is reported durable as well.)
DurableThroughAccepted == accepted

DurableThrough == Last(batch).sequence

\* The batch is durable.  The next oldest entry is no older than the last.
FinishCommitted ==
  /\ worker = "committed"
  /\ bytes' = bytes - SizeOfAll(batch)
  /\ durable' = DurableThrough
  /\ age' \in IF pending = <<>> THEN {0} ELSE 0..age
  /\ batch' = <<>>
  /\ taken' = NoCheckpoint
  /\ worker' = "running"
  /\ NotifyAll
  /\ UNCHANGED <<pending, checkpoint, requested, accepted, failure, force,
                 closing, outcome, gateVars, target, diskVars, opens, promised>>

\* (Mutants: the batch goes to the back; the batch is lost.)
RequeuedBehind == pending \o batch
Dropped == pending

Requeued == batch \o pending

\* Put the batch back in front of what came meanwhile, and its checkpoint
\* unless a newer one did; then remember the failure.
FinishFailed ==
  /\ worker = "failed"
  /\ pending' = Requeued
  /\ checkpoint' = IF checkpoint = NoCheckpoint THEN taken ELSE checkpoint
  /\ failure' = outcome
  /\ batch' = <<>>
  /\ taken' = NoCheckpoint
  /\ outcome' = NoFailure
  /\ worker' = "notifying"
  /\ UNCHANGED <<requested, accepted, durable, bytes, force, closing, age,
                 gateVars, flushVars, diskVars, opens, promised>>

\* The lock was let go while the connection closed.
NotifyFailure ==
  /\ worker = "notifying"
  /\ worker' = "running"
  /\ NotifyAll
  /\ UNCHANGED <<stateVars, batch, taken, outcome, gateVars, target, diskVars,
                 opens, promised>>

-----------------------------------------------------------------------------
(* Close, crash and open *)

\* Dropping the last handle: no producer or flusher is left to hold one.
Close ==
  /\ Open /\ ~closing
  /\ producer = NoProducer
  /\ \A f \in Flushers : flusher[f] = "idle"
  /\ closing' = TRUE
  /\ force' = accepted
  /\ NotifyOne(flusher)
  /\ UNCHANGED <<pending, checkpoint, requested, accepted, durable, bytes,
                 failure, age, batch, taken, outcome, gateVars, target,
                 diskVars, opens, promised>>

\* The process stops; only the file is left.
ForgetMemory ==
  /\ pending' = <<>> /\ checkpoint' = NoCheckpoint
  /\ batch' = <<>> /\ taken' = NoCheckpoint /\ outcome' = NoFailure
  /\ failure' = NoFailure /\ closing' = FALSE /\ age' = 0 /\ bytes' = 0
  /\ producer' = NoProducer
  /\ flusher' = [f \in Flushers |-> "idle"]
  /\ target' = [f \in Flushers |-> 0]

Crash ==
  /\ Open
  /\ ForgetMemory
  /\ worker' = "down"
  /\ UNCHANGED <<requested, accepted, durable, force, records, diskVars, opens,
                 promised>>

Sequences == {row.sequence : row \in Rows}

\* load returns the last sequence it read.
LastSequence ==
  LET S == Sequences IN CHOOSE n \in S : \A s \in S : s <= n

\* load's checks: one row for each sequence from 0 on over both tables, the
\* base first, exactly the rows a checkpoint covers in history, and a
\* checkpoint within the log that counts the records it covers.
Loadable ==
  /\ Sequences = 0..LastSequence
  /\ \A r1, r2 \in Rows : r1.sequence = r2.sequence => r1 = r2
  /\ journal \cap history = {}
  /\ \A row \in Rows : (row.kind = "base") = (row.sequence = 0)
  /\ \A row \in Rows :
       (row \in history) = (row.sequence > 0 /\ row.sequence <= stored.sequence)
  /\ stored # NoCheckpoint =>
       /\ stored.sequence \in 1..LastSequence
       /\ stored.count = Cardinality({row \in history : row.kind = "record"})

Reopen ==
  /\ ~Open
  /\ opens < MaxOpens
  /\ Loadable
  /\ ForgetMemory
  /\ accepted' = LastSequence
  /\ durable' = LastSequence
  /\ force' = LastSequence
  /\ requested' = stored.sequence
  /\ records' = Cardinality({row \in Rows : row.kind = "record"})
  /\ opens' = opens + 1
  /\ worker' = "running"
  /\ UNCHANGED <<diskVars, promised>>

-----------------------------------------------------------------------------
\* Store::open of a new file has committed the base row.
Init ==
  /\ pending = <<>> /\ checkpoint = NoCheckpoint /\ requested = 0
  /\ accepted = 0 /\ durable = 0 /\ bytes = 0 /\ failure = NoFailure
  /\ force = 0 /\ closing = FALSE /\ age = 0
  /\ worker = "running" /\ batch = <<>> /\ taken = NoCheckpoint
  /\ outcome = NoFailure
  /\ producer = NoProducer /\ records = 0
  /\ flusher = [f \in Flushers |-> "idle"]
  /\ target = [f \in Flushers |-> 0]
  /\ journal = {Base} /\ history = {} /\ stored = NoCheckpoint
  /\ opens = 1 /\ promised = 0

Push ==
  \/ \E copied \in CopiedSizes, admit \in BOOLEAN : PushBegin("record", copied, admit)
  \/ PushBegin("marker", 0, FALSE)
  \/ \E oversized \in BOOLEAN : PushPrepare(oversized)
  \/ PushRefused
  \/ PushAccept

Worker ==
  \/ WorkerExit \/ WorkerWait \/ WorkerWaitTimeout \/ WorkerTimeout
  \/ WorkerTake \/ EncodeCheckpoint \/ CommitBatch
  \/ FinishCommitted \/ FinishFailed \/ NotifyFailure

Next ==
  \/ Push
  \/ Age
  \/ RequestFlush
  \/ \E f \in Flushers : Flush(f) \/ FlushCheck(f)
  \/ SpuriousWake
  \/ Worker
  \/ Close \/ Crash \/ Reopen

Spec == Init /\ [][Next]_vars

(***************************************************************************)
(* Fairness.  The worker thread and the flushing threads are scheduled, a  *)
(* timed wait ends, and time passes.  Producers, flush requests, close and *)
(* crash are not obliged to happen.  DiskRecovers is an assumption about   *)
(* the environment: an encoding or a commit attempted without end succeeds *)
(* without end.                                                            *)
(***************************************************************************)
Encoded == EncodeCheckpoint /\ worker' = "committing"
Committed == CommitBatch /\ worker' = "committed"

DiskRecovers == SF_vars(Encoded) /\ SF_vars(Committed)

Fairness ==
  /\ WF_vars(Worker)
  /\ WF_vars(Age)
  /\ \A f \in Flushers : WF_vars(FlushCheck(f))

FairSpec == Spec /\ Fairness /\ DiskRecovers

-----------------------------------------------------------------------------
(* Properties *)

\* The type invariant: what each field of State, each thread's position and
\* each table of the file can hold.  (What `bytes` is, PendingBytesExact says.)
TypeOK ==
  /\ pending \in Seq(Entries) /\ batch \in Seq(Entries)
  /\ checkpoint \in Checkpoints /\ taken \in Checkpoints /\ stored \in Checkpoints
  /\ requested \in Nat /\ accepted \in Nat /\ durable \in Nat /\ force \in Nat
  /\ failure \in Failures /\ outcome \in Failures
  /\ closing \in BOOLEAN
  /\ age \in 0..2
  /\ worker \in {"running", "waiting", "waiting_timeout", "encoding", "committing",
                 "committed", "failed", "notifying", "exited", "down"}
  /\ producer \in Producers
  /\ records \in Nat
  /\ flusher \in [Flushers -> {"idle", "woken", "waiting"}]
  /\ target \in [Flushers -> Nat]
  /\ journal \subseteq Entries /\ history \subseteq Entries
  /\ opens \in 0..MaxOpens /\ promised \in Nat

\* The batch in flight and the queue behind it hold exactly the accepted
\* entries that are not reported durable, in order, whatever failures put
\* batches back (the rev()/push_front loop of run_worker).
QueueInOrder ==
  Open =>
    /\ Len(Unsaved) = accepted - durable
    /\ \A i \in DOMAIN Unsaved : Unsaved[i].sequence = durable + i

\* pending_bytes is the size of what is queued or in flight, and it exceeds
\* the policy's limit only by one entry that copies region inputs, admitted
\* alone (fits_queue).
PendingBytesExact ==
  Open =>
    /\ bytes = SizeOfAll(Unsaved)
    /\ bytes > MaxPendingBytes => Len(Unsaved) = 1

\* At every moment, also between a commit and its acknowledgement, the file
\* is one that load would accept: a crash never leaves an invalid save.
FileLoads == Loadable

\* A batch that is committed again after an uncertain commit finds its own
\* rows, or none: commit_batch's conflict error is unreachable, so retrying
\* a save can always succeed.
RetryReconciles == worker = "committing" => Reconciles

\* No wakeup is lost although one condition variable serves the worker and
\* the flushers and is signalled with notify_one: a waiting worker never
\* owes work, and no flusher waits for a worker that waits itself.
WakeupReachesWorker ==
  /\ WorkerWaits /\ ~Failed =>
       /\ worker = "waiting" => pending = <<>>
       /\ ~closing
       /\ pending # <<>> => ~(force > durable)
       /\ pending # <<>> => ~(bytes >= (MaxPendingBytes * 3) \div 4)
  /\ (\E f \in Flushers : flusher[f] = "waiting") => ~WorkerWaits

\* A failure stops admission, even of a producer that passed its first check
\* before the failure, and a snapshot that was too large is not tried again:
\* only a request that forgives the failure lets the save move on.
FailureStopsAdmission ==
  [][Failed =>
       /\ opens' = opens => accepted' = accepted
       /\ BlocksRetry /\ Open' /\ opens' = opens => Failed' /\ batch' = <<>>]_vars

\* The log of DurableLog: what the file holds up to the durable sequence,
\* then what is in memory; with no process, what the file holds.
RowAt(s) == CHOOSE row \in Rows : row.sequence = s
FileLog(n) == [s \in 1..n |-> RowAt(s)]
AcceptedLog == IF worker = "down" THEN FileLog(LastSequence)
               ELSE FileLog(durable) \o Unsaved

Log == INSTANCE DurableLog WITH
         Entry <- Entries, log <- AcceptedLog, stable <- LastSequence,
         promised <- promised

\* The save implements a durable log: entries are only appended, a commit
\* only lengthens the stable prefix, a restart finds exactly that prefix,
\* and a flush reports only what is stable.
ImplementsDurableLog == Log!LogSpec

\* What a flush has reported saved survives every later crash and reopening.
PromiseKept == promised <= LastSequence /\ (Open => durable <= LastSequence)

\* Every call of flush returns.
FlushReturns ==
  \A f \in Flushers : (flusher[f] # "idle") ~> (flusher[f] = "idle")

\* An accepted entry is saved without anybody asking, unless the save fails
\* or the process ends first.
EventuallySaved ==
  \A n \in 1..MaxSequence :
    (accepted >= n) ~> (durable >= n \/ Failed \/ ~Open)

\* Dropping the last handle ends the worker, and with no failure everything
\* accepted is on disk by then.
CloseSavesAll ==
  closing ~> \/ worker = "exited" /\ (Failed \/ LastSequence = accepted)
             \/ worker = "down"
=============================================================================
