# A TLA+ verification of the Thresholds of Ruin server

Thresholds of Ruin is a turn-based game with one authoritative server and
several kinds of client. The world is the product of one journal of commands;
everything a player sees is disclosed by the server in ordered updates. This
directory holds TLA+ modules for the parts of the server in which threads,
failures and limits interact, TLC configurations that check them on small
instances, and TLAPS proofs about the save, the preloader, the accounting of
output, the owner loop, the session, the commands, the intentions and the region
records.

Paths below are relative to `src/crates/server/src/` unless they start with
`src/`.

    tlc -workers 2 -config MCStorage.cfg     MCStorage.tla
    tlc -workers 2 -config MCStorageLive.cfg MCStorage.tla
    tlc -workers 2 -config MCPreload.cfg     MCPreload.tla
    tlc -workers 2 -config MCOutbound.cfg    MCOutbound.tla
    tlc -workers 2 -config MCRunner.cfg      MCRunner.tla
    tlc -workers 2 -config MCRunnerLive.cfg  MCRunner.tla
    tlc -workers 2 -config MCSession.cfg     MCSession.tla
    tlc -workers 2 -config MCSessionAnnounce.cfg MCSession.tla  (a violation, see 7)
    tlc -workers 2 -config MCIntentions.cfg  MCIntentions.tla
    tlc -workers 2 -config MCIntentionsReadable.cfg MCIntentions.tla  (a violation, see 8)
    tlc -workers 2 -config MCCommands.cfg    MCCommands.tla
    tlc -workers 2 -config MCRegionRecords.cfg MCRegionRecords.tla
    tlapm StorageProofs.tla
    tlapm PreloadProofs.tla
    tlapm OutboundProofs.tla
    tlapm RunnerProofs.tla
    tlapm SessionProofs.tla
    tlapm CommandsProofs.tla
    tlapm IntentionsProofs.tla
    tlapm RegionRecordsProofs.tla

`PROJECT.json` names, for every definition, the lines it models (`map`); for
every run its properties; for every property a plausible bug that makes TLC
find it violated (`mutants`); and the hazards of the code with the properties
that watch over them.

## 1. Inventory

### Threads, and how they talk

    socket <-> connection task (one per client, transport.rs)
                 |  Mail: Connect, Request, Disconnect, Call, Shutdown
                 v  bounded mailbox
               service thread: runner.rs -> session.rs -> engine.rs
                 |            |                  |
      Sender     |   push,    |        want, take, demand_group
      (outbound) |   flush    |                  |
                 v            v                  v
      connection task    save worker       preload thread
                         (storage.rs)      (preload.rs)
                              |                  |
                              +---- SQLite ------+

The service thread alone changes the world. It talks to the two background
threads through a mutex and a condition variable each, to the connection tasks
through bounded queues and semaphores. All the concurrency of the server is at
these four edges. Two more things happen out of order without a second thread: a
handler of the service that sends may run the consequences of a disconnect in its
middle, and a process that ends and opens its save again must become the engine it
was.

### Components

**Save** (`storage.rs`, docs in `src/docs/architecture/persistence.md`).
*State*: the queue of accepted entries not yet written (`pending`), the retained
checkpoint, the accepted and durable sequences, the pending bytes, a failure,
the force and closing flags, the time of the oldest entry; the worker's batch;
the SQLite tables. *Operations*: `push` (three critical sections under an
admission gate: admission, a snapshot captured outside the lock, acceptance),
`request_flush`, `flush`, the worker's loop (wait, drain, encode, commit,
report), drop, `load`. *Hard*: the producer, worker and flushers interleave on one
condition variable; a commit may fail, may succeed and report failure, or be cut
by a crash; a failed batch is merged with what was queued meanwhile; a snapshot
may be too large to ever be written. *Correct when*: entries are saved in
order, exactly once and as a prefix; a reported save survives; a file on disk
always loads; a failure stops admission until a retry; no wakeup is lost.

**Region preloader** (`preload.rs`). *State*: the queue of jobs, the one that
runs, finished results, wanted and demanded jobs. *Operations*: `want`, `take`,
`demand_group`, the thread, drop. *Hard*: jobs become obsolete while they run; a
demand overtakes speculation under a memory budget. *Correct when*: the
budget holds, no job is done twice, a demanded group is next and arrives, the
drop ends the thread.

**Outbound pool and connection output** (`outbound.rs`, the writing half of
`transport.rs`). *State*: three pool counters, per connection a byte semaphore,
a bounded queue, the frame being written. *Operations*: connect, send (slot,
permits, lease, push), write, drop of frames, release. *Hard*: frames are dropped
by other threads, in another order, after the owner is gone. *Correct when*:
counters equal what is held, guarantees stay backed, an ended connection gives
everything back.

**Session runner** (`runner.rs`). *State*: mailbox, commands held while saving is
overdue, stall clocks. *Operations*: receive, deliver, step, shut down. *Hard*:
held commands against later queries and disconnects; stalled clients against
progress. *Correct when*: commands stay in arrival order, a stalled client
cannot stop the others for longer than its limit, a shutdown flushes.

**Session service** (`session.rs` and its paging submodules). *State*: clients and
their sequences, control leases and generations, readiness, pending pauses,
cancellations and saves, travel jobs. *Hard*: sending may disconnect, disconnecting
releases control, releasing changes readiness, which sends again; pauses that
the save refuses must be applied before play goes on. *Correct when*: at most one
controller per actor, commands only apply to the context they were chosen for,
every sequence a client sees is without gap, every save request is answered.

**Engine** (`engine.rs`, `journal.rs`, `checkpoint*.rs`). *State*: the world, the
journal archive, receipts, branch, authority. *Hard*: a command executes once
although it is repeated across crashes; the wizard marker must be saved before a
privileged command. *Correct when*: world = replay of journal; a surviving receipt
prevents a second execution.

**Region record store** (`regions.rs`, `region_streaming.rs`, the regions tables of
`storage.rs`). *State*: resident and durable region records, sources of their
inputs. *Hard*: a record may be evicted only when it is on disk, and deleted from
disk only when nothing retained refers to it, while batches are in flight.
*Correct when*: every record a retained boundary names is in memory or on disk.

**Intentions** (`intention*.rs`, `src/crates/simulation/src/intention.rs`).
*State*: one queued intention per actor with its phase. *Correct when*: an admitted
intention is resolved once, suspended and resumed in order.

**Client connection** (`src/crates/client-common/src/`). *State*: last sequence,
recovery, requests of unknown outcome. *Hard*: a missed reply. *Correct when*: a
request of unknown outcome ends only by its reply or by a completed recovery.

**Others**, not planned as state machines: history index, scenario compiler, wire
adapters, rules of the simulation, world geometry, protocol codecs, graphical
and text clients. `PROJECT.json` gives the reason for each.

## 2. Plan

| # | modules | what | state |
|---|---------|------|-------|
| 1 | `DurableLog`, `Storage`, `StorageProofs` | the abstract log; the save that implements it; proofs | done |
| 2 | `Preload`, `PreloadProofs` | the preloading thread; proofs | done |
| 3 | `Outbound`, `OutboundProofs` | the byte accounting of output; proofs | done |
| 4 | `Runner` (with an abstract session), `RunnerProofs` | held commands, stalls, save replies, shutdown; proofs | done |
| 5 | `Session`, `SessionProofs` | leases, readiness, cascades of disconnects, pauses; proofs | done |
| 6 | `Intentions`, `IntentionsProofs` | the phases of an admitted intention, in game and journal; proofs | done |
| 7 | `Commands` (over an instance of `DurableLog`), `CommandsProofs` | receipts and retries across crashes; the wizard marker; checkpoints and rewind; proofs | done |
| 8 | `RegionRecords`, `RegionRecordsProofs` | region rows and their collection in `commit_batch`; residency, eviction and sources; proofs | done |
| 9 | `ClientConnection` | sequence gaps, recovery, unknown outcomes | next |

Abstract specifications: `DurableLog`, which `Storage` implements and `Commands`
uses in its place: the refinement checked here is what makes that substitution
right.

Theorems: every safety property that a passing run checks is proved (section 11).
What is left to TLC is liveness.

## 3. The save: `DurableLog`, `Storage`

`DurableLog` is what the engine relies on: an append-only log, a stable prefix
that only grows, a restart that keeps exactly that prefix, and a flush that
reports only what is stable.

`Storage` has one action per critical section of the mutex around `State` or per
SQLite transaction.

| code | actions |
|------|---------|
| `Store::push` | `PushBegin`, `PushPrepare` (first check, capture), `PushRefused` or `PushAccept` (second check) |
| `request_flush`, `flush` | `RequestFlush`, `Flush`, `FlushCheck` |
| `run_worker` | `WorkerExit`, `WorkerWait`, `WorkerWaitTimeout`, `WorkerTimeout`, `WorkerTake`, `EncodeCheckpoint`, `FinishCommitted`, `FinishFailed`, `NotifyFailure` |
| `commit_batch` | `CommitBatch` |
| `Drop for Store` | `Close` |
| process end, `load`, `Store::open` | `Crash`, `Reopen` |
| condition variable | `NotifyOne`, `NotifyAll`, `SpuriousWake` |

Abstractions.

- An entry is its sequence, its kind, the bytes of region inputs it copies and the
  opening of the save during which it was accepted. The last stands for its
  content: after a crash a lost sequence is given out again to another entry, and
  a row must not be mistaken for it.
- Bytes: a frame weighs 1, and what it copies is chosen from `CopiedSizes`.
- Time is the age of the oldest unsaved entry: 0, past `target_interval`, past
  `max_unsaved_age`. Whether activity stopped for `idle_interval` is free.
- A checkpoint is its sequence, the number of records it counts, and whether its
  encoding is too large. Sequence 0 stands for no checkpoint.
- `CommitBatch` has three outcomes: success, an error without effect, and an error
  after the commit took effect (the code does not tell these two apart: it drops
  the connection and a retry reconciles stored bytes). Any conflict the transaction would detect is the first kind
  of error.
- `Crash` may happen at every step; SQLite's own atomicity and durability are
  assumed.
- Region rows travel in the same transactions and are in `RegionRecords`;
  here they only count as bytes.

What the runs show.

`storage` (about 690,000 states): a producer, the worker and one flushing
thread; three sequences, two openings, a checkpoint due at each entry, a queue of
three bytes, and entries that copy nothing or as much as the queue holds.

- `TypeOK`.
- `QueueInOrder`: batch and queue hold exactly the accepted entries that are not
  durable, in order, through failures that put batches back.
- `PendingBytesExact`: the bytes released are those added, and the limit is
  exceeded by one entry admitted alone, and no other way.
- `FileLoads`: at every moment the file is one that `load` accepts.
- `RetryReconciles`: a batch that is tried again after an uncertain commit,
  larger and with a newer checkpoint, never meets a row that refuses it.
- `PromiseKept`: what a flush has reported survives crashes and reopenings.
- `FailureStopsAdmission`: nothing is accepted while a failure stands, even by a
  producer that passed its first check; an oversized snapshot is not tried again.
- `ImplementsDurableLog`: refinement of `DurableLog` (log = durable rows of the
  file and what is in memory; stable prefix = last sequence in the file).

`storage_live` (about 30,000 states): two flushing threads, so that a
`notify_one` may wake a flusher in the worker's place.

- `WakeupReachesWorker`: a sleeping worker owes no work (it sleeps without a
  timeout only on an empty queue or a failure), and flusher and worker do not
  wait for each other.
- `FlushReturns`, `EventuallySaved`, `CloseSavesAll`.

Bounds. `MaxSequence` 3 lets a batch in flight, an entry behind it and one more
after its failure coexist; a second opening is what a lost sequence needs to be
given out again, a third repeats the second. `CheckpointInterval` 1 makes every
record a checkpoint, and markers, which take none, give batches whose last
checkpoint is not their last entry. In the live run two entries and one opening
suffice: each liveness property is about one process.

Fairness. `WF(Worker)`: the thread is scheduled and its timed wait ends.
`WF(FlushCheck(f))`: a woken thread runs. `WF(Age)`: time passes. Producers,
flush requests, close and crash owe nothing. `DiskRecovers` (strong fairness of a
successful encoding and a successful commit) is an assumption about the
environment: a disk on which every attempt fails for ever saves nothing, and the
code retries only when asked. A standing failure is named as an outcome in the
properties themselves.

## 4. The preloader: `Preload`

One action per critical section: `Want`, `Take`, `Demand` and `DemandTurn`
(`demand_group`'s reservation and its wait), `ThreadStart`, `ThreadWait`,
`ThreadExit`, `ThreadFinish` (`run`), `Drop`, `SpuriousWake`.

Abstractions. A job is a number in the order of the code's `Job`, groups first;
`TotalCost` is an additive function of sets of jobs, one weight in place of the
two saturating sums (records and cells) that must both fit. One engine thread
calls, as in the code, where the service thread owns the only handle. Because drop
takes the handle exclusively, `demand_group`'s branch on `stop` cannot be
reached and has no action. `settle` is used by tests and benchmarks only. A
panic in `build_region` or a read is outside the model (see `hazards`).

`preload`: two of three groups can be demanded, the third never fits; a build and
a read compete with them for a budget of 5; a call names up to three jobs.

- `BudgetHeld`: what is prepared, queued or running fits; only a demand that has
  displaced every speculation may meet an obsolete running job.
- `NoDuplicateWork`, `DemandIsNext`: a demanded group is ready, running or at the
  head of the queue, whatever `want` was called before.
- `DemandReturns`, `DropJoins`.

The bounds give every relation of the running job to a new demand (the same, still
wanted, obsolete), every cut of speculation by a demand, and jobs of a call that
do not fit. One demand at a time is what one caller can do. Fairness: the thread
is scheduled, a job ends, a woken caller runs.

## 5. Output: `Outbound`

Each step that another thread can fall between is an action: `SendAcquire` (slot
and permits), `SendLease` or `SendRefused` (pool mutex), `SendPush`; on the
task's side `TakeFrame`, `Written`, `ReturnPermits`, `TaskEnds`, `DropQueued`,
`ReceiverDropped`, `Release`; and `Connect`, `Disconnect`, `SendRejected`.
A frame is its size: a logical frame may be a batch of pages larger than
`frame_bytes`.

`outbound`: two connections, two slots each, whose budgets (4 each) exceed
the pool (5) and whose guarantees (2 each) do not.

- `AccountingExact`: at every step of every thread, counters and semaphores
  equal what queues, sockets and the send in progress hold.
- `GuaranteesBacked`: every connection could at once be given the rest of its
  guaranteed frame ("Connections retain one maximum-frame guarantee for their
  entire output lifetime", `outbound.rs:74`).
- `EndedReleases`: a connection that ends at either side gives everything back.

Two connections are enough for one to borrow what the other is guaranteed;
sizes below and above the guarantee give both cases of `Excess`. Fairness: a started
send continues; a write is flushed or times out (`IO_TIMEOUT`) and the task ends;
a detached task ends; the service hears of an ended task (its `Disconnect` mail),
strongly fair because a send in progress may delay it again and again.

The wait for headroom belongs to the runner. Authentication, the handshake and
request decoding of `transport.rs` are not modelled.

## 6. The owner loop: `Runner`

The loop of `run`, one action per test of the loop or call of the service: `Top`
and `Release` (held commands), `Batch` with `Deliver`, `Holds` and `Receive`,
`Poll` (with the test for a closed, empty mailbox), `StepPauses` and `StepActs`
(`Service::step`), `StallCheck`, `Select`. Around it: the connection tasks
(`Connect`, `Request`, `TaskEnds`, `Drain`), `Shutdown` and `SendersGone`
(`serve` is told to stop, or is itself dropped), the save (`SaveCommits`,
`SaveFails`, `SaveLate`), and `Tick`.

Abstractions. The service is what the loop sees of it: who is connected, who
lacks headroom, whether pauses wait to be recorded (`pausing`, which also stands
for pending travel cancellations), which explicit saves wait for an answer. Any
call that publishes may take away any client's headroom or disconnect it
(`Publish`). Connecting and attaching are one step. `query` is every request that is
neither a command nor a save, and also `Mail::Call`. The save is three facts
of `save_status`: how much is unsaved (nothing, what one batch takes, more
behind it), overdue, failed; `Storage` is where they come from. `select` waits
for the headroom of the full client with the lowest identity; the model lets any
full client end the wait, and the 50 ms poll ends it in any case.

`runner` (about 1.3 million states): two interchangeable clients, two commands,
queries, a mailbox of one message.

- `CommandsInOrder`: commands are handled in arrival order, although some are
  held and other mail is not.

`runner_live` (about 260,000 states): one client, with saves. `HeldAreReleased` (once
saving is never again overdue), `SavesAnswered` (durable, failed or behind, with no
assumption about the disk), `PlayNotStarved` (arriving mail does not
keep the loop from its step), `FullIsDisconnected` (if saving keeps up and pauses
are recorded), `ShutdownStops`.

`FullIsDisconnected` needs its proviso. `runner.rs:35` says "A client whose queue
stays nearly full this long is disconnected", but while saving is overdue every
pass counts as blocked and clears the stall clocks (`runner.rs:206`–`218`), so such a
client stays connected for as long as, for instance, a failed save is not retried.
Nothing plays in that time anyway.

Bounds. A mailbox of one message makes every message reach the batch limit,
the case that matters for starvation and for the end of the mailbox; two commands
are what overtaking needs; a stall of one tick is a deadline that a
pass may meet before, at or after. Two clients let one be full while the other
goes on. Fairness: the thread runs and time passes; clients, the disk and
whoever shuts the server down owe nothing.

## 7. The session service: `Session`

One thread, one handler at a time, but a handler is not one step. Almost every
line of it may send; a send that the output refuses disconnects the client, which
releases control, stops a journey, refreshes readiness and sends again, all before
the interrupted line returns. The *agenda* is that call stack: its head is the
next send or the statement after it, and a refused send puts the consequences of
the disconnect before what was left. `Request`, `Leave`, `Step` and `PollSaves`
push a handler on an empty agenda; `Unwind` runs its head. `Step` is
`Service::step`: owed pauses, travel, queued intentions, announcements.

Abstractions. Revisions, stream epochs and generations are only compared for
equality, so instead of numbers there is the set of clients whose readiness is
`outdated`; the exhaustion of such a number is one more refused send. The engine is
one queued intention and one preparation per actor and whether it lives; that a
journey's steps differ is kept by parity. At the start work may be suspended or
paused and actors may be dead, as after opening a save. The queue of AI decisions,
arenas, actors that a rewind removes and the paging of long disclosures are left
out.

`session` (one actor, a player and a wizard with their clients; every refused
send, every refused journal entry):

- `ClientsInformed`: when a request has been handled, no client is left with a
  readiness that no longer holds, although `refresh_readiness` may itself
  disconnect clients and thereby change what it has already told others; and
  every client knows how its actor's journey stands, also when telling one of
  them ended it.
- `NoOldBranchUpdate`: no update of a new branch before the snapshot of it.
- `WorkUnderLease`: work runs under the lease it was queued under.
- `PauseBeforePlay`: no turn is played while work of a departed controller is
  still loose. A preparation that a rewind or a setup could not pause is excepted,
  because the code turns that failure into a save warning
  (`session.rs:1229`–`1233`).
- `HandlersEnd`: loops that begin again after a disconnect come to an end.

`session_announce` is a violation. `announce_waiting` collects the clients to be
told and then sends to each; the first refused send may, through the control
update that follows it, disconnect one that is later in the list, and
`self.clients[&id]` (`session.rs:1863`) panics. `src/docs/architecture/simulation-cycle.md:422`
promises "Affected stream disconnects; healthy peers continue". Two clients of one
actor whose outputs are full together suffice.

The module also states `ControllersConnected` ("Disconnecting releases control.",
`src/docs/reference/protocol.md:367`), which no run lists: checked in the
place of these invariants it has a counterexample of the same kind. `AcquireControl`
settles owed pauses first (`session.rs:653`), whose updates may disconnect the
client that asked, and line 671 then makes it the controller.

Bounds. Two clients on one actor are what one disconnect and the peer that hears
of it need; a wizard adds rewinds and the actor's control from outside. With two
actors the instance is out of TLC's reach; the code couples actors only through
the loops over all clients, which two clients on one actor already make begin
again. Fairness: `WF(Unwind)`, the thread that runs a handler goes on running it.

## 8. Intentions: `Intentions`

A queue entry and a preparation per actor are the game's half; the phases that the
acceptor reads off the journal (`JournalLifecycle::observe`) are the other.
One action for each entry the engine can append: `AdmitHuman`, `AdmitTravel`,
`AdmitDecision`, `Start`, `FailStart`, `FailUnavailable`, `Continue`,
`FailContinue`, `CancelTravel`, `Suspend`, `Resume`, `Cancel`, `Escape`, `Wizard`,
`Rewind`. Each computes the candidate game, derives the entry's suspensions and
endings as `derive_intention_changes` does, and lets the acceptor observe it; an
entry it refuses puts the identity in `refused`.

Abstractions. What an action does to the world is a free choice of what becomes of
every actor's work (kept, suspended, discarded, its actor dead), also of paused
preparations, which are validated at every boundary
(`src/crates/simulation/src/sequence_execution.rs:75`). One condition stands for
all that deny voluntary input and pause preparations. The next actor is any ready
one. Rewind restores one selectable boundary kept at a free moment. Unloaded actors,
arenas, the links between a journey's steps, direct `Action` and `PausePreparation`
entries, the limit of 4096 queued entries, the exhaustion of identities and the
refusal of an item's preparation to be cancelled are left out. `overtaken` is
observation only: the identities whose queued work was changed by an entry of
something else.

`intentions` (a player's actor and a creature, two identities):

- `JournalAccepted`: the acceptor refuses an entry only for work so overtaken.
- `GameMatchesPhases`: at every boundary the game's queue and preparations are the
  ones the phases describe, which is what `valid_game` demands of a checkpoint.

`intentions_readable` drops the proviso: `HistoryReadable`, "all history remains
readable and retryable" (`src/docs/architecture/persistence.md:247`). It is
violated in three ways, of which TLC reports the shortest:

- An action suspended in the queue whose actor dies is selected as unavailable
  whatever its state (`src/crates/simulation/src/intention.rs:484`) and journaled
  as `IntentionFailed`, which the acceptor allows only from `InitialQueued`
  (`intention_lifecycle.rs:437`).
- A paused preparation is discarded while its resume is queued; the later
  `IntentionContinuationFailed` is refused, and so is a checkpoint between them.
- A condition suspends a queued continuation without a fact in the journal; a
  checkpoint then disagrees with the phases, and the later resume is refused.

Bounds. Two identities let one actor's work be overtaken by another's, and one be
admitted after the other was rewound; with one actor and three identities the run
also passes. No fairness: both properties are safety. Exploration ends at a refused
entry, so deadlock is not checked.

## 9. Commands and recovery: `Commands`

The engine and its save from the point of view of a request. `Compose` chooses a
command for what a client sees; `Execute` runs it (`finish_checked_command`,
`commit_candidate_with_resolution`, `admit`) and journals the record with the
request's identity; `Retry` answers a repeat from its receipt, ahead of every
check of freshness; `Refuse` is what has neither. `Schedule` is the engine's own
work, `EnableWizard`, `WizardEnabled` and `EnableFails` the promotion of the save.
`Crash` and `Reopen` end the process and open the save: `Opened` restores the
checkpoint (`DiskCheckpoint::restore`, with every check it makes of the records)
and runs the later records through the command path again.

The save is `Save == INSTANCE DurableLog`: `Accept`, `Harden`, `Promise` and
`Restart` are its actions, and the checkpoint in the file after a crash is that of
any stable record not older than the one before.

Abstractions. A game is the set of entries that made it, so that two games are
equal exactly when the same commands made them. Replies are not queued: a lost one is
a `Retry`. What is in flight at a crash loses its context and can only be answered
from a receipt. The boundary a command expects is filled in by the session
(`wire_request.rs:287`), so that staleness is the loss of the context or of the
branch. A command without authority leaves nothing and has no action.

`commands` (one request identity of a player, two of wizards, which may be used
again for other commands; four entries, two openings, windows of two boundaries):

- `ExecutedOnce`: at most one record for a request in what survives.
- `SavedAnswerStands`: once a receipt named a saved entry, every later answer is
  the same, after rewinds and restarts.
- `AuthorityMarked`: wizard commands are accepted only when the marker is on disk.
- `RecoveryReproduces`: every save opens, from whatever checkpoint it may hold, and
  the engine always is what its history alone describes: game, retained boundaries
  with their games, branch, receipts. The history is read by `Lineage`, an
  independent definition.

Bounds. `Window` is 2 for `REWIND_BOUNDARIES`, 128 in the code, with the same rule: the newest, and as
many of the newest selectable. Four entries let private records leave a gap
between retained boundaries, or a marker, a turn and two privileged commands follow
one another; two commands in flight are what one needs to make the other stale; a
second opening is a restart, and what would happen in a third happens to the
records of the second. Openings are bounded, so deadlock is not checked. Safety
only, no fairness. The request identities of one role are interchangeable.

## 10. Region records: `RegionRecords`

Three accounts of the same records: the file's rows, what the save worker has
written and not yet said, and what the engine believes is on disk and therefore may
forget. `TakeWritten` and `TakeAppended` are how a command hears of the worker, in
two critical sections; `Execute` is a command with its transition, its entry, a
checkpoint when one is due and its publication; `Refuse` one that built regions in vain.
`Drain`, `Commit`, `Report`, `ReportFailure` and `RequestFlush` are the worker;
`Crash` and `Reopen` run the records after the checkpoint again, with the rows and
inputs the file has.

| code | definitions |
|------|-------------|
| `Game::try_region_transition`, `register_generated_regions` | `Transition`, `Builds`, `Numbered` |
| `Game::continue_record_ids` | `ContinueIds` |
| `Regions::written`, `appended`, `unwritten`, `need_files`, `publish` | `Written`, `Appended`, `Unwritten`, `NeedFiles`, `Published` |
| `Checkpoint::referenced`, `add_records` | `Referenced`, `Captured` |
| `commit_batch`, `write_region_rows` | `Committed`, `Keep`, `Conflict` |
| `InputOwnership` | `Admitted`, `ReleaseCommitted`, `ReleaseNone` |

Abstractions. A record's content is the entry that made it, and a reference carries
that content beside the identity, so that a record found under the right identity but
of another time is recognised. Which regions a turn needs is a choice among `Horizons`.
Every retained boundary may be selected by a rewind (the rule is in `Commands`). The
queue's limit, its deadlines and the order within a push are in `Storage`; a region
copies one file, its own. A source is never deleted, so a reader that has left
`InputOwnership` for the file finds what was there, and one predicate stands for its
two steps. Chart history, the files of neighbours and declared regions, the preloader
(`Preload`) and `require_region_sources` are left out.

`region_records` (about 750,000 states): a region to start in and two that are
generated together; four entries of turns and rewinds; failed and uncertain
commits; a restart.

- `RecordsReachable`: whatever the game or a boundary refers to is in memory or in
  the file, at every step of both threads, and is the record that was meant.
- `SaveRestores`: no batch meets a row it would contradict (`RowsNeverConflict`),
  the checkpoint's records are in the file, and every file opens.
- `InputsReadable`: an input the save has accepted is pending or in the file.

Bounds. `CachedRecords` 0, where the code keeps 32, forgets a record as soon as the code
ever could. `CheckpointInterval` 2 puts entries before and after a checkpoint into one
batch, and so makes rows that the checkpoint does not name. `Window` 2 lets a
boundary outlive the game that replaced it and then be dropped. A group of two gives a
region a record before it is ever loaded. The run also passes with `CachedRecords` 1 and a
checkpoint at every entry, and with a third horizon in which both regions of the group
are loaded. Safety only, no fairness.

## 11. What is proved

Everything below holds for every number of flushing threads, sequences and openings,
every checkpoint interval, queue limit and set of copied sizes:
`ConstantsAssumption` says only that they are numbers of the right sign. What is said
of output holds for any finite set of connections, any frames and any limits that
`OutboundLimits::is_valid` admits (`LimitsAssumption`); what is said of the preloader,
for any number of jobs and groups and any additive weight (`CostAssumption`).

### Types, order and promises: `StorageProofs`

- `TypeCorrect`: `Spec => []TypeOK`,
- `QueueStaysInOrder`: `Spec => []QueueInOrder`,
- `PromisesAreKept`: `Spec => []PromiseKept`,
- `InductiveInvariant`: `Spec => []IInv`, from which the three follow.

The invariant `IInv` joins `TypeOK` and `QueueInOrder` with

- `WithinLimit`: a begun producer still has a sequence left. Without it
  `PushAccept` could leave the type of an entry's sequence.
- `BatchHeld`: the batch is not empty exactly from the drain to the end of the
  attempt. Without it `FinishCommitted` could read the last entry of nothing, and
  `WorkerTake` could overwrite a batch and leave a hole in the queue.
- `FileAhead`: the file holds exactly the sequences up to its last, at least up
  to the durable one, up to the promised one, and up to the end of a committed
  batch. `PromiseKept` alone says nothing of the moment between a commit and
  its report, and a commit keeps the file without gaps only because the batch
  begins where State's durable sequence ends (`QueueInOrder`).
- `FlushersLeave`, `ExitedClosing`: nobody is inside `flush` when the owner is
  dropped or the process ends, so no target outlives the accepted sequence it
  was taken from.

The argument: initial states satisfy `IInv` (`IInvInit`); each part is preserved
by its own lemma, with one step per action that can disturb it (`PushTypes`,
`WorkerTypes`, `OtherTypes`, `QueueStep`, `CommittedRows`, `CommittedFile`,
`FileStep`, `FlushersStep`); `IInvStep` joins them.

### The refinement: `StorageProofs`

- `SaveIsDurableLog`: `Spec => ImplementsDurableLog`,
- `FileAndQueueAgree`: `Spec => []RInv`.

The mapping reads the log from the file up to the durable sequence and from batch
and queue behind it, while an uncertain commit has put entries of the batch in the
file as well. Two logs could therefore be read, and the step that moves the
boundary between them must be a stutter. `RInv` adds to `IInv` what makes them one:

- `RowsAgree`: no sequence has two rows. After a crash a lost sequence is given out
  again to another entry; this says that it was lost from the file too.
- `LogCovered`: a row under the sequence of a queued entry is that entry, and the
  queue continues the log from the durable to the accepted sequence.
- `GateFree`: no producer survives its process, so that what a restart keeps is
  the stable prefix and nothing that was still under way.

The argument: `LogInMemory` and `LogInFile` say what the log is, entry by entry,
wherever it is read. `PushAccept` appends to it (`AcceptStep`), `CommitBatch` moves
the stable prefix and not the log (`CommitStep`), `FinishCommitted` moves the
reading boundary and changes neither (`FinishStep`), crash and reopening leave the
stable prefix (`RestartStep`), and a returning flush promises no more than it
(`FlushCheckStep`). Every other action leaves all that is read alone
(`QuietSteps`).

### The worker's wakeups and failures: `StorageProofs`

- `WakeupsReachTheWorker`: `Spec => []WakeupReachesWorker`,
- `FailuresStopAdmission`: `Spec => FailureStopsAdmission`.

`WInv` adds to `IInv`

- `TargetsAsked`: what a flusher inside `flush` waits for has been asked of the
  worker. Otherwise a worker could rightly sleep while a flusher waits for it.
- `SleepersHaveWork`: a flusher sleeps only over entries that are not durable,
  and over a failure only while the worker is about to report it.
- `AttemptUnfailed`: an attempt starts without a failure and ends with one or a
  commit, so that a failure never comes while the worker is idle.

The argument turns on the one `notify_one` that more than one thread may take:
a notification meant for the worker is lost only on a flusher that waits for a
worker that waits, and that never is (`NotifyReachesWorker`).

### The file: `StorageProofs`

- `FileAlwaysLoads`: `Spec => []FileLoads`,
- `RetriesReconcile`: `Spec => []RetryReconciles`.

`FInv` adds to `RInv`

- `KindsKnown`, `HistoryCovered`: the base row is sequence 0 and nothing else, and a
  row is in `history` exactly if the stored checkpoint covers it. `load` demands
  both, and a retried batch must find its rows in the table it would put them in.
- `StoredDescribes`: the stored checkpoint counts the records of the log up to it.
- `CheckpointsOrdered`: of the stored checkpoint, the one in flight and the one that
  waits, each is newer than the one before or, after an uncertain commit, the same.
  A merged retry takes the newest; an older one would leave rows in `history` that
  no checkpoint covers.
- `CaptureNewer`: a producer captures the state after its own entry, outside the lock, and
  meanwhile no checkpoint as new is requested. That is what the admission gate is for.

The argument compares counts with the log of the refinement: a checkpoint that
describes the log goes on doing so, because the log only grows
(`DescribesKept`), a count grows by one with each record (`RecordsNext`), and the
rows of the file are as many as the entries of its log (`RowsCounted`).

### The size of the queue: `StorageProofs`

- `PendingBytesAreExact`: `Spec => []PendingBytesExact`, inductive together with `IInv`.

`push` adds to `bytes`, `finish_attempt` takes the batch off, and a failed attempt
changes neither: that the counter still is the size of what is queued follows
from the size of a concatenation (`JoinedSize`). Only an entry admitted to
an empty queue may pass the limit (`AcceptCounts`), and since a commit takes away at
least one entry, what it leaves is below it (`CommittedCounts`).

The models sum with the folds of the community modules, recursive functions that
take the elements of a set in an order left to CHOOSE. `FoldSums` shows that such a
fold of + does not depend on the order, by induction over the subsets of the
set; the induction itself is applied to a set of subsets and not to a predicate
(`SubsetsReached`), so that no theorem with an operator as parameter is needed. From it
follow the lemmas the proofs cite: bounds, and the sums over sequences that are
concatenated or appended to (`TotalConcat`, `TotalAppend`). `OutboundProofs` has the same
lemmas and a few more, for sums over connections: the two modules stand on their own.

### The accounting of output: `OutboundProofs`

- `OutputInvariant`: `Spec => []OInv`,
- `AccountingIsExact`: `Spec => []AccountingExact`,
- `GuaranteesAreBacked`: `Spec => []GuaranteesBacked`.

`OInv` joins `TypeOK` and the two halves of `AccountingExact` (`PoolExact` for the
pool, `HeldExact` for each connection) with

- `SendOpen`: a send that has taken a slot still finds its queue short of `Slots`
  and its sender open, although other threads step in between; only the service's
  thread pushes or detaches.
- `AllocationLives`: a reservation is there as long as a sender or a lease; a released
  one leaves nothing used. Without it `Release` would shrink `reserved` under a lease.
- `WithinTotal`: reserved and borrowed fit the pool together.

The argument: a lease changes one connection's use, and the pool's counters by the
same change of the sums (`LeaseSums`). What is leased and what is still free of the
guarantees is, connection by connection, what is borrowed and what is reserved, so
that `WithinTotal` backs the guarantees (`RestFits`). The sums come first in the
module: what a changed value changes (`TotalChanged`), bounds, sums of sums
(`TotalAdds`), sums of equal numbers (`TotalOfEqual`), and sums over queues (`TotalTail`).

### The preloader: `PreloadProofs`

- `PreloadInvariant`: `Spec => []PInv`,
- `BudgetIsHeld`, `NoWorkIsDuplicated`, `DemandComesFirst`: `Spec => []BudgetHeld`,
  `Spec => []NoDuplicateWork`, `Spec => []DemandIsNext`.

`PInv` joins the three with `TypeOK` and `DemandsHeld`: a group is demanded exactly while
its one caller asks for it, and it is wanted. So `want`, which that caller would have to
call, never meets a demand, and the thread keeps the demanded group's result when
it finishes (`FinishStep`).

`Admitted` and `QueueOf` are recursions over a list of any length. `RecursionExists`
and `StaysIn` are the induction, over a set again: what holds at the first position
and carries over from each to the next holds at the last (`EnlistedLists`,
`AdmittedFits`). The budget then follows from the additivity of weights alone
(`Weights`): what is prepared and what runs are disjoint parts of what is wanted.

### The owner loop: `RunnerProofs`

- `HandledInOrder`: `Spec => []CommandsInOrder`,
- `TypeCorrect`, `InvariantHolds`: `Spec => []TypeOK`, `Spec => []IInv`.

`RunnerAssumption` gives the constants their signs: any clients, any capacity, any
number of commands. `CommandsInOrder` speaks of the two queues as one; the invariant
takes it apart: what is held is in order (`HeldOrdered`), so are the commands in the
mailbox (`MailOrdered`), every held command comes before every one in the mailbox
(`HeldFirst`), and no number is beyond what has arrived (`Numbered`). A step does one
of five things to the queues. The one that could go wrong is `Handling`: a command
straight from the mailbox is handled only if nothing is held, which is the second half
of `holds`. The types need `Sent`: whatever is no shutdown comes from the task of a
client.

### The session service: `SessionProofs`

- `InvariantHolds`, `TypeCorrect`: `Spec => []IInv`, `Spec => []TypeOK`,
- `WorkIsUnderLease`: `Spec => []WorkUnderLease`,
- `PausedBeforePlay`: `Spec => []PauseBeforePlay`,
- `BranchesApart`: `Spec => []NoOldBranchUpdate`,
- `InformedWhenIdle`: `Spec => []ClientsInformed`.

A handler of the service is a stack of statements still to be run, and any send
before one of them may disconnect a client, release control, owe a pause and stop
a journey. So the invariant is about the stack. `IInv` joins `TypeOK` with

- `Stacked`: how frames may lie on each other (`Structured`: what executes is on top,
  what ends a handler is below everything else), and what each kind of frame may
  still rely on when its turn comes (`FrameOK`). A `drop` finds the journey of
  its client stopped if that client is in control; `pauses` and `pausePrep` are of actors
  that do not travel; `settled` finds nothing human queued and nothing active; an
  `executeAi` finds no pause owed, or the game no longer playing by itself. Frames
  that run as soon as they are pushed rely on more (`OnTop`).
- `Leased`: human work that is queued is under the lease of who controls its
  actor, or its lease is lost; a lost lease has its pause owed; a journey is
  under the lease of its owner, who is in control, and its actor owes no pause.

What a step may do to the frames below it is `Calm`: control is only taken away,
journeys only stop, and a pause becomes owed only when the game stops. `BaseKept`
shows once that every condition survives a calm step, and each action is shown to be
calm, or to run where nothing is below it that relies on anything (`AcquireRest`
gives control away, and `Lasts` says that only the end of the handler is left then).
`DepartsKeeps` is the disconnect, which every send may become.

`ResetPending` is kept by the same steps: while a client has no snapshot of the
new branch, the top of the stack is the reset of the streams, or a frame of it, with
that client still among its recipients, and no journey has a status. So a
disconnect in the middle of it has nothing to tell (`StreamAwaited`), and only these
few frames can run (`OnlyReset`).

`ClientsInformed` holds between handlers only, and most steps of a handler break what
it says. Four invariants say what the stack still holds that will make up for it:

- `Published`: a handler that ends by refreshing readiness will still do so, or it
  did and only replies are left. A pass of the refresh that has seen a client go
  since it began (its `count` is above the number attached) will be followed by
  another. One that has not is at the head, and whom it has seen has the
  readiness that holds (`PassOK`). So the pass after which nothing follows was
  disturbed by nothing (`SeenCurrent`).
- `Told`: a client with readiness was told the status of its actor's journey, or a
  frame on the stack will tell it (`WillTell`), or it waits for the snapshot of
  the new branch. A `finish` counts as long as the journey is there, a round of
  sends if the client is still among its recipients or the status is no longer
  the one the round began with.
- `Broadcasting`: there is one round of sends at most, at the head or right
  under the release of control by a client it disconnected, and all that may
  happen to its status is that the journey ends. A journey stopped meanwhile is
  not told of at once, because `broadcasting` is set: the round's own end finds
  the status changed and begins again (`NextTold`, `EndTold`). Were two rounds on
  the stack, the inner one would clear the flag of the outer one.
- `Fresh`: nobody was given readiness before it arrived.

Every other step leaves an actor's journey and what is still to be told of it alone
(`Steady`), or puts the telling of what became of it on the stack (`Announces`);
`ToldKept` concludes from either. These need of a step only what it does to the stack
under the head, and `UnwindGrown` says that once for all of them.

The module begins with what the proofs need of stacks written with `\o`, `Head` and
`Tail`, of the lowest client of a set, and of sets listed in some order.

### Commands and recovery: `CommandsProofs`

- `InvariantHolds`: `Spec => []IInv`,
- `RequestsOnce`, `AuthorityAfterMarker`: `Spec => []ExecutedOnce`,
  `Spec => []AuthorityMarked`,
- `AnswersStand`: `Spec => SavedAnswerStands`,
- `EverySaveOpens`: `Spec => []RecoveryReproduces`.

They hold for any set of requests, any window, any number of
openings and any length of the log: `CommandsAssumption` says that a player's and a wizard's identity
differ and that `None` is no identity.

None of them is inductive: whether a repeat is recognised depends on the
receipts an opening restores, and they depend on what the records hold. `IInv` joins `TypeOK` with

- `Legal`: the records are a history an engine ran. `Ran(h)` is the engine that
  ran `h` from the start, `Fits(e, r)` says that `r` is of a command which `e` permits
  and which leads where `r` says, with the checkpoint `r` carries.
- `Running`: the engine that is up is `Like` the one that ran the log's records:
  alike but for authority. It knows of the marker, and gives authority
  only over a saved one.
- `Placed`: an entry's identifier says where it stands and no later opening than the
  present, so no two entries share one; what a wizard did comes after the marker.
- `Answered`: a receipt a client holds names a record of its request.

The argument. In a legal history the receipts after `k` records are exactly the
places of the requests among them (`ReceiptsRun`), so a second record of a request
never fits (`LegalExecutesOnce`). A fresh command makes a record that fits
(`RecordFits`, `RecordAccepted`), a crash leaves the beginning of a legal history
(`MarkedBegins`, `RecordsBegin`), and what is opened from it is like the engine that
ran it (`OpenedReproduces`): a restored checkpoint is what was captured of the engine
there (`SnapshotIs`, `RestoredLike`), the receipts read off the records are those of
the run (`ReceiptsExact`), and each record of the replay fits and so is run as it
was (`Replays`).

For `EverySaveOpens` it remains that `DiskCheckpoint::restore` refuses no checkpoint
the engine wrote (`SnapshotAllowed`) and that what the engine holds can be read off the
history (`RanDescribed`). Both rest on what `retain_boundaries` keeps. The engine retains
of what it retained before; the history's `Expected` picks the newest of all at once.
The two agree because a boundary once dropped is never among the newest
again (`KeptAgain`, `KeptGrows`), so after each record the engine has
the expected boundaries with the games of their moments (`BoundariesRun`,
`BoundariesExpected`). Between two of them only private records and notes lie, or one
in between would have been kept as well (`GapPrivate`), and so the game of the
second is that of the first and what these add (`GapGame`, `GapHolds`). A rewind's
target is a retained boundary, so an earlier record with an identifier of its own
(`RecordsApart`, by `Placed`): the game the engine restores is the one that `Lineage`
finds there (`RewindLeads`, `LineageIs`).

`Picked`, `Ran`, `Replayed` and `Lineage` are recursive functions over sequences; that such a
function exists and is the only one (`PickedIs`, `RanIs`, `ReplayIs`, `LineageIs`) is
induction over a set of numbers.

### Intentions: `IntentionsProofs`

- `InvariantHolds`: `Spec => []IInv`, and `TypeCorrect`,
- `EntriesAccepted`: `Spec => []JournalAccepted`,
- `GameAndPhasesAgree`: `Spec => []GameMatchesPhases`.

They hold for any set of actors and any number of identities. `NoneAssumption` says
that `None` is no entry, preparation, phase or admission.

Neither property is inductive. Which entry is accepted depends on the phase the
journal left its intention in, and a rewind restores a boundary kept long before.
`IInv` joins `TypeOK` with

- `Match`: the phase of every identity is among those the game means for it
  (`Meant`). A game means one phase, but for queued work in `overtaken`: a suspension
  without an entry leaves its phase behind (`Behind`).
- `Sound`: queue and preparation of an actor hold admitted work of its own. If they
  share an identity, the entry is the resume of that paused preparation, and a
  resume next to a preparation is always one of it; the dead prepare nothing.
- `StaleOvertaken`: a resume without its preparation, and suspended work of the
  dead, are in `overtaken`.
- `Given`: exactly the identities below `game.next` were admitted, and the saved
  boundary's `next` is not above it. So a rewind gives no identity twice.

The first three are said of `game` with `phases` and of `saved` alike, while nothing is
refused; and `refused` is within `overtaken`.

The argument follows an entry in two halves. An identity the entry is not about
can only have lost or paused its preparation, or have been suspended or bereft in
the queue. The first gets a derived end or suspension whatever the action was, the
second joins `overtaken` (`Aside`, `OthersLeft`). For the identity the entry is about,
there is a lemma for each kind of entry (`StartedSettles`, `ResumedSettles`, ...).
`Account` says both of a step. From it follow that the acceptor refuses
at overtaken identities only, the limits of its scope and the two places of an actor
included (`RefusesOvertaken`, `MisplacedRefused`, `OnePlace`), and that an accepted
entry leaves phases the new game means (`AcceptedMatches`); hence a commit keeps
`IInv` (`CommitKeeps`). `overtaken` only grows, and with it what `Meant` allows, so the
saved boundary stays consistent (`ConsistentGrows`).

What is proved carries the same proviso as what is checked: `intentions_readable`
shows that without it the statement is false.

### Region records: `RegionRecordsProofs`

- `TypeCorrect`: `Spec => []TypeOK`,
- `Reachable`: `Spec => []RecordsReachable`,
- `Restores`: `Spec => []SaveRestores`,
- `Readable`: `Spec => []InputsReadable`.

They hold for any finite set of regions, any group and horizons of them, any window,
checkpoint interval and number of cached records, and any number of entries and
openings. `RegionRecordsAssumption` says that the regions are finitely many
and numbered, as the world's are; without that a turn would have no next identity.

The three accounts of the records, the file's, the save's and the engine's, are
never equal while a batch is under way, so the invariant does not compare them with
each other. It compares each with one thing behind them: the line `L` of the
entries accepted so far and `H`, the game and boundaries after each of them. `IInv`
joins `TypeOK` with: there are such `L`, `H`, and positions `p` and `q` in the line, that
explain every variable (`Explains`).

- `Legal`: each entry is one that was possible where it stands, and made what its
  operation makes of that game. The records of an entry lie in the interval of
  identities that it gave out, and `ContinueIds` never lets a rewind go back behind it. So
  a record is known by its identity alone (`Unique`): whatever is stored under the
  identity of a reference is the record that was meant (`FoundIs`), and no row
  conflicts with another.
- `Placed`: the file is a beginning of the line, the worker's batch is what lies
  between `p` and `q`, and pending is the rest. An uncertain commit puts entries beyond
  `p` in the file, never beyond `q`.
- `Checkpoints`: a checkpoint, waiting, in flight or stored, is of one of the line's
  games, and what it names is among its records or in the file already.
- `FileHolds`: rows and sources are of the file's entries, the sources are all
  of them, and a committed batch has its rows.
- `ReportIs`: what the engine has yet to hear is of one of the line's games.
- `EngineHolds`: the game is the last of the line; what it refers to is resident or in
  the file; and what is claimed to be on disk, by the engine or by a report it has
  not heard (`Claimed`), is on disk, as far as the game refers to it.

The last half sentence is what makes it inductive. A checkpoint deletes rows
that the engine still believes to be on disk. That is harmless because a game refers
only to records that an earlier game of the line refers to, or that were made
between the two (`Inherits`): what a checkpoint does not name, and what was made no later
than it, no later game can mean (`KeepsLater`). For the same reason `Written` may
forget resident records that the report does not name and that are older than its
watermark.

Opening (`ReplayResumes`): the stored checkpoint is the line's game there, with
rows for all it names, and each further entry of the file finds the rows it
attaches and the inputs it builds from, and makes the same records again (`RedoIs`). So
the replay ends with the line's game (`Resumed`), the process is up and never refused, and
the line is cut to what the file holds. `Replayed` is a recursive function; that it
exists is once more induction over a set of numbers (`ReplayIs`).

### Only model-checked

All liveness: fairness and ENABLED are out of the prover's reach. Among it are
`EndedReleases`, `DemandReturns`, `DropJoins` and `HandlersEnd`.

## 12. What is not modelled

Row 9 of the plan: the recovery of a client's connection. Of the simulation's
streaming, pins, freezing and thawing, and the time of unloaded regions.
Of the session, arenas, the paging of disclosures and the AI's decision queue; of
the engine, annotations' anchors, input generations and the history index. Some
hazards in `PROJECT.json` have no property for this reason, and their notes say so.

Not planned: the content of commands and of the world, codecs and wire formats,
presentation, the scenario compiler, the rules of the simulation and the world's
geometry (sequential, deterministic and over data too large for TLC), and the
clients' rendering. These make up most of the repository's lines, and so the map
covers a small share of them.
SQLite, the operating system and tokio are modelled only by how the
code uses them: a transaction is atomic and durable, a condition variable may wake
without cause, a semaphore and a bounded channel count what they hold.
