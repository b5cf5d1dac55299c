------------------------------ MODULE Commands ------------------------------
(***************************************************************************)
(* Commands, receipts and recovery (engine.rs, command_request.rs,         *)
(* checkpoint.rs and the command path of session.rs).                      *)
(*                                                                         *)
(* A command names itself by its user's request identity.  The engine      *)
(* journals it once, with that identity as its receipt; a repeat of it is  *)
(* answered from the receipt, in this opening of the save or a later one,  *)
(* before or after a rewind.  Opening a save restores the checkpoint it    *)
(* holds and runs the records after it through the same command path, and  *)
(* the result must be the engine that wrote them.  The save is the         *)
(* abstract log of DurableLog, which Storage implements.                   *)
(*                                                                         *)
(* Abstracted: what a command does to the world.  A game is the set of     *)
(* the entries that made it; a rewind restores that of a retained          *)
(* boundary.  A refusal and a save that refuses an entry change nothing    *)
(* and have no action.                                                     *)
(***************************************************************************)
EXTENDS Integers, Sequences, FiniteSets, SequencesExt

CONSTANTS
  Players, Wizards,  \* request identities, by the role of who uses them
  Window,            \* REWIND_BOUNDARIES
  MaxEntries,        \* bound on the length of the log
  MaxOpenings,       \* bound on how often the save is opened
  MaxInFlight,       \* bound on the commands in flight at once
  None

Requests == Players \cup Wizards

\* UUIDs: no entry of another opening, lost or not, has the same.
Ids == (1..MaxOpenings) \X (1..MaxEntries)

ASSUME CommandsAssumption ==
  /\ Players \cap Wizards = {} /\ None \notin Requests \cup Ids
  /\ Window \in Nat \ {0} /\ MaxEntries \in Nat /\ MaxOpenings \in Nat \ {0}

VARIABLES
  \* the save: DurableLog's variables, and the entry its checkpoint is of
  log, stable, promised,
  checkpoint,
  \* the process
  status,    \* "up", "enabling" (inside enable_wizard's flush), "down", "refused"
  opening,   \* how often the save has been opened
  engine,
  \* the clients
  asked,     \* the command in flight under each request identity
  current,   \* the requests whose input context is still the current one
  answer     \* the entry the last receipt for a request named

saveVars   == <<log, stable, promised, checkpoint>>
clientVars == <<asked, current, answer>>
vars == <<saveVars, status, opening, engine, clientVars>>

\* An admitted intention and an annotation are a player's; setup and rewind a
\* wizard's; the scheduler starts work and admits its own without a receipt.
WizardKinds == {"setup", "rewind"}
Private     == {"intention", "queued"}    \* not JournalContent::rewindable

-----------------------------------------------------------------------------
(* The engine *)

\* Engine::memory; the first branch is None, the initial boundary has no entry.
Fresh == [valid      |-> TRUE, branch |-> None, game |-> {},
          boundaries |-> <<[id |-> None, selectable |-> TRUE, game |-> {}]>>,
          receipts   |-> [r \in Requests |-> 0],
          count      |-> 0, marked |-> FALSE, enabled |-> FALSE]

\* What a sequence holds at these positions.
Picked(seq, kept) ==
  LET upto[i \in 0..Len(seq)] ==
        IF i = 0 THEN <<>>
        ELSE IF i \in kept THEN Append(upto[i - 1], seq[i]) ELSE upto[i - 1]
  IN  upto[Len(seq)]

\* Where a boundary is one that a rewind may select.
SelectableAt(seq) == {i \in DOMAIN seq : seq[i].selectable}

\* (Mutant: the newest boundaries, whatever their kind.)
RetainNewest(bs) ==
  Picked(bs, {i \in DOMAIN bs : i > Len(bs) - Window})

\* retain_boundaries: the newest, and as many of those a rewind may select.
Retain(bs) ==
  LET selectable == SelectableAt(bs)
  IN  Picked(bs, {i \in DOMAIN bs :
        \/ i > Len(bs) - Window
        \/ /\ i \in selectable
           /\ Cardinality({j \in selectable : j > i}) < Window})

Selectable(e) == {b.id : b \in {b \in Range(e.boundaries) : b.selectable}}
Restores(e, target) == {b \in Range(e.boundaries) : b.selectable /\ b.id = target}

\* check_request and apply_wizard, on the engine that runs the command.
Permits(e, c) ==
  /\ c.branch = e.branch
  /\ c.kind \in WizardKinds => e.enabled
  /\ c.kind = "rewind" => Restores(e, c.target) # {}

GameAfter(e, c) ==
  CASE c.kind = "note"   -> e.game
    [] c.kind = "rewind" -> (CHOOSE b \in Restores(e, c.target) : TRUE).game
    [] OTHER             -> e.game \cup {c.id}

\* finish_checked_command, commit_candidate_with_resolution, publish and
\* append_record.  A note owns no boundary.
Committed(e, c) ==
  [e EXCEPT
    !.branch     = IF c.kind = "rewind" THEN c.id ELSE @,
    !.game       = GameAfter(e, c),
    !.boundaries = IF c.kind = "note" THEN @
                   ELSE Retain(Append(@, [id |-> c.id, selectable |-> c.kind \notin Private,
                                          game |-> GameAfter(e, c)])),
    !.receipts   = IF c.by = None THEN @ ELSE [@ EXCEPT ![c.by] = e.count + 1],
    !.count      = @ + 1]

-----------------------------------------------------------------------------
(* The save *)

Save == INSTANCE DurableLog WITH Entry <- Ids

Marker    == [kind |-> "marker"]
IsRecord(item) == item.kind # "marker"
Records(items) == Picked(items, {i \in DOMAIN items : IsRecord(items[i])})
Marked(items)  == Contains(items, Marker)

\* What a record's checkpoint would hold: it is captured from the candidate
\* the record leads to, before the record is appended.
Snapshot(e) == [count |-> e.count, branch |-> e.branch, game |-> e.game,
                boundaries |-> e.boundaries, marked |-> e.marked]

Record(c, e) == [kind |-> c.kind, id |-> c.id, by |-> c.by, branch |-> c.branch,
                 target |-> c.target, leaves |-> e.branch, snapshot |-> Snapshot(e)]

\* DurableLog's Accept.
Accept(item) == log' = Append(log, item) /\ UNCHANGED <<stable, promised, checkpoint>>

Saved(id) == \E i \in 1..stable : IsRecord(log[i]) /\ log[i].id = id

NewId == <<opening, Len(log) + 1>>
Room  == Len(log) < MaxEntries

-----------------------------------------------------------------------------
(* Opening a save *)

Branch(records) == IF records = <<>> THEN None ELSE Last(records).leaves

\* The boundaries a history leaves: the start, and every record but notes.
Transactions(records) ==
  <<[id |-> None, selectable |-> TRUE, at |-> 0]>> \o
  Picked([i \in DOMAIN records |-> [id |-> records[i].id, at |-> i,
                                    selectable |-> records[i].kind \notin Private]],
         {i \in DOMAIN records : records[i].kind # "note"})

\* expected_boundaries: the last of all, and the last of the selectable.
Newest(S) == {i \in S : Cardinality({j \in S : j > i}) < Window}
Kept(all) == Newest(DOMAIN all) \cup Newest(SelectableAt(all))
Expected(records) ==
  LET all == Transactions(records)
  IN  Picked(all, Kept(all))

\* Between two retained boundaries only private records are missing, and they
\* and a private boundary can be replayed from the one before.
GapReplays(before, boundary, from, to, records) ==
  LET between == {records[i] : i \in (from + 1)..(to - 1)}
  IN  /\ \A r \in between : r.kind \in Private \cup {"note"}
      /\ records[to].kind \in Private =>
           boundary.game = before.game \cup {boundary.id}
                           \cup {r.id : r \in {r \in between : r.kind # "note"}}

RecordsOf(r, records) == {i \in DOMAIN records : records[i].by = r}
Receipted(records) ==
  [r \in Requests |-> LET at == RecordsOf(r, records)
                      IN  IF at = {} THEN 0 ELSE CHOOSE i \in at : TRUE]

\* DiskCheckpoint::restore, with load's check of the checkpoint's count.
RestoreAllowed(s, records, marked) ==
  LET expected == Expected(records)
  IN  /\ s.count = Len(records)
      /\ s.marked => marked
      /\ s.branch = Branch(records)
      /\ \A r \in Requests : Cardinality(RecordsOf(r, records)) <= 1
      /\ \A i \in DOMAIN records : records[i].kind \in WizardKinds => s.marked
      /\ Len(s.boundaries) = Len(expected)
      /\ \A i \in DOMAIN expected : s.boundaries[i].id = expected[i].id
      /\ \A i \in 2..Len(expected) :
           GapReplays(s.boundaries[i - 1], s.boundaries[i],
                      expected[i - 1].at, expected[i].at, records)
      /\ Last(s.boundaries).game = s.game

\* (Mutant: only what is replayed has a receipt.)
ForgottenReceipts(records) == Fresh.receipts
RestoredReceipts(records) == Receipted(records)

Restored(s, records, marked) ==
  IF ~RestoreAllowed(s, records, marked) THEN [Fresh EXCEPT !.valid = FALSE]
  ELSE [Fresh EXCEPT !.branch = s.branch, !.game = s.game, !.boundaries = s.boundaries,
                     !.receipts = RestoredReceipts(records), !.count = Len(records)]

\* One record of replay, through the command path, which resolves receipts
\* first: a second record of one request would be answered with the first.
Redo(e, r) ==
  LET after == Committed(e, r)
  IN  IF e.valid /\ Permits(e, r) /\ (r.by # None => e.receipts[r.by] = 0)
            /\ after.branch = r.leaves
      THEN after ELSE [Fresh EXCEPT !.valid = FALSE]

\* replay: the records after those the checkpoint covers.
Replayed(start, records, covered) ==
  LET redone[i \in covered..Len(records)] ==
        IF i = covered THEN start ELSE Redo(redone[i - 1], records[i])
  IN  redone[Len(records)]

\* load, then replay: wizard commands are allowed to records of a wizard game,
\* and to nobody afterwards.
Loaded ==
  IF checkpoint = 0 THEN Fresh
  ELSE Restored(log[checkpoint].snapshot, Records(SubSeq(log, 1, checkpoint)), Marked(log))
Ordered ==
  \A i \in DOMAIN log : log[i].kind \in WizardKinds => Marked(SubSeq(log, 1, i - 1))
Opened ==
  LET start == [Loaded EXCEPT !.marked = Marked(log), !.enabled = Marked(log)]
      end   == Replayed(start, Records(log), Len(Records(SubSeq(log, 1, checkpoint))))
  IN  IF Ordered THEN [end EXCEPT !.enabled = FALSE] ELSE [Fresh EXCEPT !.valid = FALSE]

-----------------------------------------------------------------------------
(* Clients *)

Authorised(r) == r \in Wizards => engine.enabled

\* A client chooses a command for what it sees now, under a request identity
\* of its own, which it may, wrongly, have used before.  What has no authority
\* from the start is refused and leaves nothing.
Compose(r) ==
  /\ status = "up" /\ asked[r] = None /\ Authorised(r)
  /\ Cardinality({q \in Requests : asked[q] # None}) < MaxInFlight
  /\ \E k \in IF r \in Wizards THEN WizardKinds ELSE {"intention", "note"} :
       \E t \in IF k = "rewind" THEN Selectable(engine) ELSE {None} :
         asked' = [asked EXCEPT ![r] = [kind |-> k, branch |-> engine.branch, target |-> t]]
  /\ current' = current \cup {r}
  /\ UNCHANGED <<saveVars, status, opening, engine, answer>>

\* (Mutant: only a repeat of the same command counts as a use.)
UsedForSame(r) ==
  /\ engine.receipts[r] # 0
  /\ LET record == Records(log)[engine.receipts[r]]
     IN  asked[r] = [kind |-> record.kind, branch |-> record.branch, target |-> record.target]
Used(r) == engine.receipts[r] # 0

\* retry_decoded and resolve_receipt, ahead of every check of freshness: a
\* client that may not have had the reply repeats a command that was executed.
Retry(r) ==
  /\ status = "up" /\ Authorised(r) /\ Used(r)
  /\ answer' = [answer EXCEPT ![r] = Records(log)[engine.receipts[r]].id]
  /\ UNCHANGED <<saveVars, status, opening, engine, asked, current>>

Command(r) == [kind |-> asked[r].kind, id |-> NewId, by |-> r, branch |-> asked[r].branch,
               target |-> asked[r].target]
Fulfilled(r) == asked' = [asked EXCEPT ![r] = None]

\* A fresh command.  Setup and rewind give every client a new stream.
Execute(r) ==
  /\ status = "up" /\ asked[r] # None /\ Authorised(r) /\ Room
  /\ ~Used(r) /\ r \in current /\ Permits(engine, Command(r))
  /\ LET after == Committed(engine, Command(r))
     IN  Accept(Record(Command(r), after)) /\ engine' = after
  /\ current' = IF r \in Wizards THEN {} ELSE current \ {r}
  /\ answer' = [answer EXCEPT ![r] = NewId]
  /\ Fulfilled(r)
  /\ UNCHANGED <<status, opening>>

\* Refused: for an identity that means another command, for
\* a context or branch that is over or a boundary that is gone, or by the save.
Refuse(r) ==
  /\ status = "up" /\ asked[r] # None
  /\ Fulfilled(r) /\ current' = current \ {r}
  /\ UNCHANGED <<saveVars, status, opening, engine, answer>>

\* What the scheduler journals: work started, work admitted by itself.
Schedule ==
  /\ status = "up" /\ Room
  /\ \E k \in {"started", "queued"} :
       LET c == [kind |-> k, id |-> NewId, by |-> None, branch |-> engine.branch,
                 target |-> None]
           after == Committed(engine, c)
       IN  Accept(Record(c, after)) /\ engine' = after
  /\ UNCHANGED <<status, opening, clientVars>>

-----------------------------------------------------------------------------
(* Authority, the worker and the process *)

\* enable_wizard up to its flush, during which the service does nothing else.
EnableWizard ==
  /\ status = "up" /\ ~engine.enabled
  /\ IF engine.marked THEN UNCHANGED <<saveVars, engine>>
     ELSE Room /\ Accept(Marker) /\ engine' = [engine EXCEPT !.marked = TRUE]
  /\ status' = "enabling"
  /\ UNCHANGED <<opening, clientVars>>

\* (Mutant: the marker is accepted, and that is enough.)
AtOnce == UNCHANGED <<log, stable, promised>>
FlushReturns == Save!Promise(Len(log))

WizardEnabled ==
  /\ status = "enabling"
  /\ FlushReturns
  /\ engine' = [engine EXCEPT !.enabled = TRUE]
  /\ status' = "up"
  /\ UNCHANGED <<checkpoint, opening, clientVars>>

\* The flush fails: the promotion stays, the authority is not given.
EnableFails ==
  /\ status = "enabling"
  /\ status' = "up"
  /\ UNCHANGED <<saveVars, opening, engine, clientVars>>

Harden ==
  /\ status \in {"up", "enabling"}
  /\ \E n \in (stable + 1)..Len(log) : Save!Harden(n)
  /\ UNCHANGED <<checkpoint, status, opening, engine, clientVars>>

\* The process ends.  Which record's checkpoint was the last to be saved is
\* free among those of the stable prefix that are not older than the last.
\* Every client loses its stream, and what it had in flight can only be
\* answered if it is in the history; a receipt for a lost entry is void.
Crash ==
  /\ status \in {"up", "enabling"}
  /\ Save!Restart
  /\ checkpoint' \in {checkpoint} \cup
       {i \in (checkpoint + 1)..stable : IsRecord(log[i])}
  /\ status' = "down" /\ engine' = Fresh
  /\ asked' = [r \in Requests |-> None] /\ current' = {}
  /\ answer' = [r \in Requests |-> IF Saved(answer[r]) THEN answer[r] ELSE None]
  /\ UNCHANGED opening

Reopen ==
  /\ status = "down" /\ opening < MaxOpenings
  /\ opening' = opening + 1
  /\ engine' = Opened
  /\ status' = IF Opened.valid THEN "up" ELSE "refused"
  /\ UNCHANGED <<saveVars, clientVars>>

-----------------------------------------------------------------------------
Init ==
  /\ Save!LogInit /\ checkpoint = 0
  /\ status = "up" /\ opening = 1 /\ engine = Fresh
  /\ asked = [r \in Requests |-> None] /\ current = {}
  /\ answer = [r \in Requests |-> None]

Next ==
  \/ \E r \in Requests : Compose(r) \/ Retry(r) \/ Execute(r) \/ Refuse(r)
  \/ Schedule
  \/ EnableWizard \/ WizardEnabled \/ EnableFails
  \/ Harden \/ Crash \/ Reopen

Spec == Init /\ [][Next]_vars

-----------------------------------------------------------------------------
(* Properties *)

\* However often a request is repeated, across lost replies, crashes, rewinds
\* and other uses of its identity, the surviving history holds at most one
\* record of it (resolve_receipt, restore's duplicate check).
ExecutedOnce ==
  \A r \in Requests :
    Cardinality({i \in DOMAIN log : IsRecord(log[i]) /\ log[i].by = r}) <= 1

\* Once a receipt has named an entry that is saved, no later receipt for that
\* request names another: "retrying it after rewind or restart returns the
\* same receipt" (docs/reference/protocol.md).
SavedAnswerStands ==
  [][\A r \in Requests : Saved(answer[r]) => answer'[r] = answer[r]]_vars

\* Wizard commands are possible only after the marker that allows them is on
\* disk, so that no crash can leave one without it (Engine::enable_wizard).
AuthorityMarked ==
  /\ status = "up" /\ engine.enabled => Marked(SubSeq(log, 1, stable))
  /\ \A i \in DOMAIN log : log[i].kind \in WizardKinds => Marked(SubSeq(log, 1, i - 1))

\* The game a history leads to, read off the history alone.
Lineage(records) ==
  LET at(id) == IF id = None THEN 0 ELSE CHOOSE i \in DOMAIN records : records[i].id = id
      game[i \in 0..Len(records)] ==
        IF i = 0 THEN {}
        ELSE CASE records[i].kind = "note"   -> game[i - 1]
               [] records[i].kind = "rewind" -> game[at(records[i].target)]
               [] OTHER                      -> game[i - 1] \cup {records[i].id}
  IN  game

\* Every save opens, from whatever checkpoint it holds, and the engine is at
\* every moment the one its history describes: its game, the boundaries a
\* rewind may select with their games, the branch and the receipts (replay,
\* restore, retain_boundaries, append_record).
RecoveryReproduces ==
  LET records  == Records(log)
      expected == Expected(records)
  IN  /\ status # "refused"
      /\ status \in {"up", "enabling"} =>
           /\ engine.game = Lineage(records)[Len(records)]
           /\ engine.boundaries =
                [i \in DOMAIN expected |->
                   [id |-> expected[i].id, selectable |-> expected[i].selectable,
                    game |-> Lineage(records)[expected[i].at]]]
           /\ engine.branch = Branch(records)
           /\ engine.receipts = Receipted(records)
           /\ engine.count = Len(records)
           /\ engine.marked = Marked(log)
=============================================================================
