--------------------------- MODULE RegionRecords ---------------------------
(***************************************************************************)
(* Where the records of unloaded regions are (regions.rs, the regions and  *)
(* region_sources tables of storage.rs, and detached regions of            *)
(* simulation/src/streaming.rs).                                           *)
(*                                                                         *)
(* A turn loads the regions its actors need and detaches the others, each  *)
(* into a record under an identity of its own; the game and the boundaries *)
(* a rewind may restore keep the identities.  Records stay in memory until *)
(* the engine has heard that they are on disk.  The save worker writes     *)
(* them with their entries and with the checkpoints that name them, and    *)
(* deletes rows that a new checkpoint does not name.  Three accounts of    *)
(* the same records, the file's, the save's and the engine's, are apart by *)
(* a batch or two, and a lost record or a record under the wrong identity  *)
(* is found only when somebody walks back there.                           *)
(*                                                                         *)
(* Abstracted: a record's content is the entry that made it.  The save is  *)
(* what Storage.tla says of it, with a failure and its retry, without the  *)
(* queue's limit and deadlines.  Which regions a turn needs is a choice.   *)
(***************************************************************************)
EXTENDS Naturals, Sequences, FiniteSets, SequencesExt

CONSTANTS
  Regions,             \* numbers, in the order of their identities
  Group,               \* regions that can only be generated together
  Horizons,            \* what may be loaded at once
  Start,               \* what is loaded first
  Window,              \* REWIND_BOUNDARIES
  CheckpointInterval,
  CachedRecords,       \* CACHED_RECORDS
  MaxEntries,          \* bound on the length of the journal
  MaxOpenings,         \* bound on how often the save is opened
  NotBuilt, Loaded,    \* the states of a region that are not a record
  None

ASSUME RegionRecordsAssumption ==
  /\ IsFiniteSet(Regions) /\ Regions \subseteq Nat /\ Group \subseteq Regions
  /\ Horizons \subseteq SUBSET Regions /\ Start \in Horizons
  /\ Window \in Nat \ {0} /\ CheckpointInterval \in Nat \ {0}
  /\ CachedRecords \in Nat

VARIABLES
  \* the engine
  game,        \* its current game
  boundaries,  \* the games a rewind may restore, oldest first
  regions,     \* struct Regions
  command,     \* how far the command at hand has come
  \* the save
  store,       \* struct State, under the mutex
  inputs,      \* struct InputOwnership
  worker,      \* the worker's batch and how far it has come
  file,        \* the SQLite file
  \* the process
  status, opening

vars == <<game, boundaries, regions, command, store, inputs, worker, file, status, opening>>
engineVars  == <<game, boundaries, regions, command>>
processVars == <<status, opening>>

-----------------------------------------------------------------------------
(* Games and their records *)

\* A record, and also a reference to it.  The code's references are the
\* identity alone: whose record is found under it is what could be wrong.
RecordOf(id, by) == [id |-> id, by |-> by]
IsReference(x) == x \notin {NotBuilt, Loaded}

References(g) == {g.at[r] : r \in {r \in Regions : IsReference(g.at[r])}}

\* Checkpoint::referenced.
Referenced(g, bs) == References(g) \cup UNION {References(b.game) : b \in Range(bs)}

Identities(records) == {record.id : record \in records}

\* The identities from `first` on, given to a set of regions in order.
Numbered(S, first, by) ==
  [r \in S |-> RecordOf(first + Cardinality({q \in S : q < r}), by)]

Builds(g, horizon) ==
  LET wanted == {r \in horizon : g.at[r] = NotBuilt}
  IN  wanted \cup IF wanted \cap Group = {} THEN {} ELSE {r \in Group : g.at[r] = NotBuilt}
Attaches(g, horizon) == {g.at[r] : r \in {r \in horizon : IsReference(g.at[r])}}

\* register_generated_regions and apply_region_transition: a group gets
\* records as a whole, then what is not wanted any more is detached.
Transition(g, horizon, by) ==
  LET group    == Builds(g, horizon) \cap Group
      shared   == Numbered(group, g.next, by)
      leaving  == {r \in Regions : g.at[r] = Loaded /\ r \notin horizon}
      detached == Numbered(leaving, g.next + Cardinality(group), by)
  IN  [game |-> [at   |-> [r \in Regions |->
                             CASE r \in horizon -> Loaded
                               [] r \in leaving -> detached[r]
                               [] r \in group \ horizon -> shared[r]
                               [] OTHER -> g.at[r]],
                 next |-> g.next + Cardinality(group) + Cardinality(leaving)],
       made |-> Range(shared) \cup Range(detached)]

\* (Mutant: the allocator goes back with the game.)
RestoreOnly(g, later) == g

\* continue_record_ids: a rewound game does not give an identity out again.
ContinueIds(g, later) ==
  [g EXCEPT !.next = IF later.next > @ THEN later.next ELSE @]

\* The newest boundaries.  Which of them may be selected is in Commands.
RetainLast(bs) == SubSeq(bs, IF Len(bs) > Window THEN Len(bs) - Window + 1 ELSE 1, Len(bs))

\* What an operation makes of a game: a turn, or a rewind to a boundary.
Applied(g, bs, op, by) ==
  IF op.kind = "turn" THEN Transition(g, op.horizon, by)
  ELSE [game |-> ContinueIds((CHOOSE b \in Range(bs) : b.sequence = op.target).game, g),
        made |-> {}]

-----------------------------------------------------------------------------
(* struct Regions *)

\* Rows and resident records are looked up by identity.
Stored(records, ref) == \E record \in records : record.id = ref.id

\* Excess records leave memory, oldest first, if they are on disk.
Evict(resident, durable) ==
  LET onDisk(record) == record.id \in durable
      older(record)  == {q \in resident : onDisk(q) /\ q.id < record.id}
  IN  {record \in resident :
         onDisk(record) => Cardinality(older(record)) + CachedRecords >= Cardinality(resident)}

\* Regions::written: what a checkpoint named and what is newer than it.
Written(rg, report) ==
  LET kept == {record \in rg.resident : record.id \in report.named \/ record.id >= report.watermark}
  IN  [rg EXCEPT !.durable = report.named, !.resident = Evict(kept, report.named)]

\* Regions::appended: what entries wrote.
Appended(rg, ids) ==
  [rg EXCEPT !.durable = @ \cup ids, !.resident = Evict(@, rg.durable \cup ids)]

\* Regions::unwritten.
Unwritten(rg, refs) ==
  {record \in rg.resident : record.id \in Identities(refs) \ rg.durable}

\* Regions::need_files.
NeedFiles(rg, files) == [rg EXCEPT !.unsaved = @ \cup (files \ rg.saved)]

\* Regions::publish and mark_saved.
Published(rg, made) ==
  [rg EXCEPT !.resident = {q \in @ : q.id \notin Identities(made)} \cup made,
             !.saved = @ \cup rg.unsaved, !.unsaved = {}]

-----------------------------------------------------------------------------
(* The file *)

\* write_region_rows, and a checkpoint's rows: a stored row must be the same.
RowsOf(entries) == UNION {entry.made : entry \in Range(entries)}
NewRows(batch, checkpoint) ==
  RowsOf(batch) \cup IF checkpoint = None THEN {} ELSE checkpoint.records
Conflict(batch, checkpoint) ==
  \E row \in NewRows(batch, checkpoint), old \in file.rows \cup NewRows(batch, checkpoint) :
    row.id = old.id /\ row # old

\* (Mutant: the checkpoint alone decides.)
KeepNamed(batch, checkpoint) == Identities(Referenced(checkpoint.game, checkpoint.boundaries))
\* What a new checkpoint leaves in the regions table.
Keep(batch, checkpoint) ==
  Identities(Referenced(checkpoint.game, checkpoint.boundaries)) \cup Identities(RowsOf(batch))

\* commit_batch.  Entries that are already stored are the same entries.
Committed(batch, checkpoint) ==
  LET rows == file.rows \cup NewRows(batch, checkpoint)
  IN  [entries    |-> SubSeq(file.entries, 1, Head(batch).sequence - 1) \o batch,
       checkpoint |-> IF checkpoint = None THEN file.checkpoint ELSE checkpoint,
       rows       |-> IF checkpoint = None THEN rows
                      ELSE {row \in rows : row.id \in Keep(batch, checkpoint)},
       sources    |-> file.sources \cup UNION {entry.sources : entry \in Range(batch)}]

-----------------------------------------------------------------------------
(* Opening a save *)

\* start_streaming, and the file Store::open creates of it.
Unbuilt == [at |-> [r \in Regions |-> NotBuilt], next |-> 1]
Initial ==
  LET first == Transition(Unbuilt, Start, <<0, 0>>)
  IN  [game |-> first.game, boundaries |-> <<[sequence |-> 0, game |-> first.game]>>,
       regions |-> [resident |-> first.made, durable |-> {},
                    saved |-> {}, unsaved |-> Builds(Unbuilt, Start)],
       valid |-> TRUE]

\* DiskCheckpoint::restore: what the checkpoint names was written with it.
Restored(checkpoint) ==
  [game |-> checkpoint.game, boundaries |-> checkpoint.boundaries,
   regions |-> [resident |-> {}, saved |-> {}, unsaved |-> {},
                durable |-> Identities(Referenced(checkpoint.game, checkpoint.boundaries))],
   valid |-> TRUE]

\* The record store finds exactly the record that is meant.
Finds(resident, ref) ==
  IF Stored(resident, ref) THEN ref \in resident ELSE ref \in file.rows

\* One entry, through the command path, with the save's files alone.
Redo(e, entry) ==
  LET op    == entry.op
      after == Applied(e.game, e.boundaries, op, entry.by)
      built == IF op.kind = "turn" THEN Builds(e.game, op.horizon) ELSE {}
      possible ==
        IF op.kind = "turn"
        THEN /\ \A ref \in Attaches(e.game, op.horizon) : Finds(e.regions.resident, ref)
             /\ built \subseteq file.sources
        ELSE \E b \in Range(e.boundaries) : b.sequence = op.target
  IN  IF ~e.valid \/ ~possible THEN [e EXCEPT !.valid = FALSE]
      ELSE [game |-> after.game,
            boundaries |-> RetainLast(Append(e.boundaries,
                             [sequence |-> entry.sequence, game |-> after.game])),
            regions |-> [NeedFiles(e.regions, built) EXCEPT !.resident = @ \cup after.made],
            valid |-> after.made = entry.made]

\* Engine::replay.
Replayed ==
  LET start == IF file.checkpoint = None THEN Initial ELSE Restored(file.checkpoint)
      from  == IF file.checkpoint = None THEN 0 ELSE file.checkpoint.sequence
      redone[i \in from..Len(file.entries)] ==
        IF i = from THEN start ELSE Redo(redone[i - 1], file.entries[i])
  IN  redone[Len(file.entries)]

\* Store::open: State for what the file holds.
OpenedStore ==
  [pending |-> <<>>, checkpoint |-> None, failed |-> FALSE, written |-> None,
   appended |-> Identities(file.rows), accepted |-> Len(file.entries),
   requested |-> IF file.checkpoint = None THEN 0 ELSE file.checkpoint.sequence]
OpenedInputs == [known |-> file.sources, pending |-> [r \in {} |-> 0]]

Resting == [stage |-> "idle", batch |-> <<>>, checkpoint |-> None]

-----------------------------------------------------------------------------
(* Commands *)

\* capture_command_candidate, in two critical sections.
TakeWritten ==
  /\ status = "up" /\ command = "none"
  /\ regions' = IF store.written = None THEN regions ELSE Written(regions, store.written)
  /\ store' = [store EXCEPT !.written = None]
  /\ command' = "heard"
  /\ UNCHANGED <<game, boundaries, inputs, worker, file, processVars>>

TakeAppended ==
  /\ command = "heard"
  /\ regions' = Appended(regions, store.appended)
  /\ store' = [store EXCEPT !.appended = {}]
  /\ command' = "ready"
  /\ UNCHANGED <<game, boundaries, inputs, worker, file, processVars>>

Operations ==
  [kind : {"turn"}, horizon : Horizons] \cup
  [kind : {"rewind"}, target : {b.sequence : b \in Range(boundaries)}]

BuiltBy(op) == IF op.kind = "turn" THEN Builds(game, op.horizon) ELSE {}

\* Checkpoint::capture_candidate and add_records.
Captured(sequence, after, bs, rg) ==
  LET named == Referenced(after.game, bs)
  IN  [sequence |-> sequence, game |-> after.game, boundaries |-> bs,
       watermark |-> after.game.next,
       records |-> Unwritten(rg, named) \cup (after.made \cap named)]

\* InputOwnership::admit.
Admitted(sequence, sources) ==
  [known   |-> inputs.known \cup sources,
   pending |-> [r \in DOMAIN inputs.pending \cup sources |->
                  IF r \in sources THEN sequence ELSE inputs.pending[r]]]

\* The command runs on a candidate, the save accepts its entry, and the
\* candidate becomes the engine.
Execute ==
  /\ command = "ready" /\ ~store.failed /\ store.accepted < MaxEntries
  /\ \E op \in Operations :
       LET sequence == store.accepted + 1
           after    == Applied(game, boundaries, op, <<opening, sequence>>)
           bs       == RetainLast(Append(boundaries, [sequence |-> sequence, game |-> after.game]))
           needed   == NeedFiles(regions, BuiltBy(op))
           due      == sequence - store.requested >= CheckpointInterval
           entry    == [sequence |-> sequence, by |-> <<opening, sequence>>, op |-> op,
                        made |-> after.made, sources |-> needed.unsaved]
       IN  /\ game' = after.game /\ boundaries' = bs
           /\ regions' = Published(needed, after.made)
           /\ inputs' = Admitted(sequence, needed.unsaved)
           /\ store' = [store EXCEPT
                !.pending = Append(@, entry), !.accepted = sequence,
                !.checkpoint = IF due THEN Captured(sequence, after, bs, needed) ELSE @,
                !.requested = IF due THEN sequence ELSE @]
  /\ command' = "none"
  /\ UNCHANGED <<worker, file, processVars>>

\* The command, or the save, refuses after regions were built for it: their
\* files are offered again with the next entry.
Refuse ==
  /\ command = "ready"
  /\ \E op \in Operations : regions' = NeedFiles(regions, BuiltBy(op))
  /\ command' = "none"
  /\ UNCHANGED <<game, boundaries, store, inputs, worker, file, processVars>>

-----------------------------------------------------------------------------
(* The save worker *)

Drain ==
  /\ status = "up" /\ worker.stage = "idle" /\ ~store.failed /\ store.pending # <<>>
  /\ worker' = [stage |-> "writing", batch |-> store.pending, checkpoint |-> store.checkpoint]
  /\ store' = [store EXCEPT !.pending = <<>>, !.checkpoint = None]
  /\ UNCHANGED <<engineVars, inputs, file, processVars>>

Commit ==
  /\ worker.stage = "writing" /\ ~Conflict(worker.batch, worker.checkpoint)
  /\ file' = Committed(worker.batch, worker.checkpoint)
  /\ worker' = [worker EXCEPT !.stage = "committed"]
  /\ UNCHANGED <<engineVars, store, inputs, processVars>>

\* (Mutant: the inputs are released with the batch, however it ended.)
ReleaseAll(pending) ==
  LET owners == {entry.sequence : entry \in Range(worker.batch)}
  IN  [r \in {r \in DOMAIN pending : pending[r] \notin owners} |-> pending[r]]
\* A failed write leaves accepted inputs readable as pending.
ReleaseNone(pending) == pending

\* InputOwnership::committed, for each entry of the batch.
ReleaseCommitted(pending) ==
  LET owned(r) == \E entry \in Range(worker.batch) :
                    r \in entry.sources /\ pending[r] = entry.sequence
  IN  [r \in {r \in DOMAIN pending : ~owned(r)} |-> pending[r]]

\* The commit is reported: what is on disk now, for the engine to hear.
Report ==
  /\ worker.stage = "committed"
  /\ LET checkpoint == worker.checkpoint
     IN  store' = [store EXCEPT
           !.written  = IF checkpoint = None THEN @
                        ELSE [named |-> Identities(Referenced(checkpoint.game, checkpoint.boundaries)),
                              watermark |-> checkpoint.watermark],
           !.appended = (IF checkpoint = None THEN @ ELSE {}) \cup Identities(RowsOf(worker.batch))]
  /\ inputs' = [inputs EXCEPT !.pending = ReleaseCommitted(@)]
  /\ worker' = Resting
  /\ UNCHANGED <<engineVars, file, processVars>>

\* The transaction fails, or took effect and is reported as failed.
ReportFailure ==
  /\ worker.stage \in {"writing", "committed"}
  /\ store' = [store EXCEPT
       !.pending = worker.batch \o @, !.failed = TRUE,
       !.checkpoint = IF @ = None THEN worker.checkpoint ELSE @]
  /\ inputs' = [inputs EXCEPT !.pending = ReleaseNone(@)]
  /\ worker' = Resting
  /\ UNCHANGED <<engineVars, file, processVars>>

\* Store::request_flush.
RequestFlush ==
  /\ status = "up" /\ store.failed
  /\ store' = [store EXCEPT !.failed = FALSE]
  /\ UNCHANGED <<engineVars, inputs, worker, file, processVars>>

-----------------------------------------------------------------------------
(* The process *)

Crash ==
  /\ status = "up"
  /\ status' = "down"
  /\ game' = Initial.game /\ boundaries' = Initial.boundaries
  /\ regions' = Initial.regions /\ command' = "none"
  /\ store' = OpenedStore /\ inputs' = OpenedInputs /\ worker' = Resting
  /\ UNCHANGED <<file, opening>>

\* Engine::open_with_policy, with set_saved.
Reopen ==
  /\ status = "down" /\ opening < MaxOpenings
  /\ opening' = opening + 1
  /\ LET e == Replayed
     IN  /\ status' = IF e.valid THEN "up" ELSE "refused"
         /\ game' = e.game /\ boundaries' = e.boundaries
         /\ regions' = [e.regions EXCEPT !.saved = file.sources, !.unsaved = @ \ file.sources]
  /\ store' = OpenedStore /\ inputs' = OpenedInputs
  /\ UNCHANGED <<command, worker, file>>

Init ==
  /\ game = Initial.game /\ boundaries = Initial.boundaries
  /\ file = [entries |-> <<>>, checkpoint |-> None, rows |-> Initial.regions.resident,
             sources |-> Initial.regions.unsaved]
  /\ regions = [Initial.regions EXCEPT !.saved = Initial.regions.unsaved, !.unsaved = {}]
  /\ store = OpenedStore /\ inputs = OpenedInputs /\ worker = Resting
  /\ command = "none" /\ status = "up" /\ opening = 1

Next ==
  \/ TakeWritten \/ TakeAppended \/ Execute \/ Refuse
  \/ Drain \/ Commit \/ Report \/ ReportFailure \/ RequestFlush
  \/ Crash \/ Reopen

Spec == Init /\ [][Next]_vars

-----------------------------------------------------------------------------
(* Properties *)

\* At every moment of every thread, each record that the game or a boundary a
\* rewind may restore refers to is in memory or in the file, and it is the
\* record that was meant (Regions::written, appended; the deletions of
\* commit_batch; continue_record_ids).
RecordsReachable ==
  status = "up" =>
    \A ref \in Referenced(game, boundaries) : Finds(regions.resident, ref)

\* A batch never writes a row again with another content, by an entry, by a
\* checkpoint, by a retry or after a rewind: that would fail it and every retry
\* of it (write_region_rows).
RowsNeverConflict ==
  worker.stage = "writing" => ~Conflict(worker.batch, worker.checkpoint)

\* What is accepted can be saved, and whenever the process ends its file opens:
\* what the checkpoint names is in the file, and the entries after it find the
\* rows they attach and the inputs of the regions they build (commit_batch,
\* Engine::replay, mark_saved).
SaveRestores ==
  /\ RowsNeverConflict
  /\ status # "refused"
  /\ file.checkpoint # None =>
       Referenced(file.checkpoint.game, file.checkpoint.boundaries) \subseteq file.rows

\* An input the save has accepted can be read by any thread: it is pending, or
\* it is in the file, from which nothing takes it while the reader, outside the
\* lock, looks for it there (SourceReader::read).
InputsReadable ==
  status = "up" => inputs.known \subseteq DOMAIN inputs.pending \cup file.sources
=============================================================================
