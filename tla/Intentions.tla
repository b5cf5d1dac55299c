----------------------------- MODULE Intentions -----------------------------
(***************************************************************************)
(* Admitted work, and the journal's account of it.                         *)
(*                                                                         *)
(* The simulation owns a queue with at most one intention per actor and a  *)
(* preparation per actor (simulation/src/intention.rs).  The engine runs   *)
(* every change of them on a candidate game, derives which preparations    *)
(* the change suspended and which intentions it ended                      *)
(* (server/src/intention.rs), and appends one journal entry.  A save is    *)
(* opened by reading the entries again: an acceptor                        *)
(* (server/src/intention_lifecycle.rs) follows the phase of every          *)
(* intention from the entries alone, refuses the archive at the first      *)
(* entry its phases do not allow, and compares every retained game of a    *)
(* checkpoint with the phases it reached.  Writer and acceptor are two     *)
(* programs that must agree on every interleaving, across rewinds.         *)
(*                                                                         *)
(* Abstracted: what an action does.  The execution of one is a choice of   *)
(* its own fate and of what it does to the work of every actor.  Clocks    *)
(* are a choice of the next ready actor; condition sets are one condition  *)
(* that denies voluntary input and pauses preparations.  Unloaded actors,  *)
(* arenas and the links between the steps of a journey are left out.       *)
(***************************************************************************)
EXTENDS Integers, FiniteSets

CONSTANTS Humans,        \* actors played through clients
          Creatures,     \* actors played by the scenario's AI
          MaxIntentions, \* bound on the identities admitted
          None           \* no entry, no preparation, no identity

Actors == Humans \cup Creatures

ASSUME IntentionsAssumption ==
    /\ Humans \cap Creatures = {}
    /\ Actors # {}
    /\ MaxIntentions \in Nat \ {0}
    /\ None \notin 1..MaxIntentions

Ids == 1..MaxIntentions

VARIABLES
    game,       \* the engine's current game
    roots,      \* the admission of each identity: its actor and origin
    phases,     \* what the acceptor makes of the journal so far
    saved,      \* one selectable boundary of the history, with its phases
    refused,    \* the identities at which the acceptor refuses the archive
    overtaken   \* identities of queued work changed without an entry of its own

vars == <<game, roots, phases, saved, refused, overtaken>>

Entries == [id : Ids, work : {"action", "decision", "resume"},
            origin : {"human", "travel", "autonomous"},
            state : {"queued", "suspended"}]
Preparations == [id : Ids, active : BOOLEAN]
Games == [queue : [Actors -> Entries \cup {None}],
          prep : [Actors -> Preparations \cup {None}],
          dead : SUBSET Actors,
          denied : SUBSET Actors,
          next : 1..MaxIntentions + 1]
Phases == {"initial queued", "initial suspended", "running",
           "progress paused", "progress queued", "progress queue suspended"}

\* None is nothing else.
ASSUME NoneAssumption ==
    None \notin Entries \cup Preparations \cup Phases \cup [actor : Actors, human : BOOLEAN]

-----------------------------------------------------------------------------
(* The simulation's queue and preparations.                                *)

HasEntry(g, a, i) == g.queue[a] # None /\ g.queue[a].id = i
Prepares(g, a, i) == g.prep[a] # None /\ g.prep[a].id = i
Paused(g, a) == g.prep[a] # None /\ ~g.prep[a].active

\* An actor that may be the scheduler's next: alive, not denied and not in
\* the middle of a preparation.
MayAct(g, a) ==
    a \notin g.dead \cup g.denied /\ (g.prep[a] # None => ~g.prep[a].active)

FreeSlot(g, a) == g.queue[a] = None /\ g.next \in Ids

Inserted(g, a, work, origin) ==
    [g EXCEPT !.queue[a] = [id |-> g.next, work |-> work,
                            origin |-> origin, state |-> "queued"],
              !.next = @ + 1]

Dequeued(g, a) == [g EXCEPT !.queue[a] = None]
Discarded(g, a, i) ==
    IF Prepares(g, a, i) THEN [g EXCEPT !.prep[a] = None] ELSE g

\* Work of dead actors comes first, in the order of admission and whatever
\* its state; otherwise the next actor's, unless it is suspended.
Selected(g, a) ==
    LET unavailable == {b \in g.dead : g.queue[b] # None}
    IN  IF unavailable # {}
        THEN /\ a \in unavailable
             /\ \A b \in unavailable : g.queue[a].id <= g.queue[b].id
        ELSE /\ g.queue[a] # None
             /\ g.queue[a].state = "queued"
             /\ MayAct(g, a)

Suspended(g, a, i) ==
    IF a \in Humans /\ Prepares(g, a, i) /\ g.prep[a].active
    THEN [g EXCEPT !.prep[a].active = FALSE]
    ELSE [g EXCEPT !.queue[a].state = "suspended"]
MaySuspend(g, a, i) ==
    \/ a \in Humans /\ Prepares(g, a, i) /\ g.prep[a].active
    \/ /\ HasEntry(g, a, i)
       /\ g.queue[a].origin = "human"
       /\ g.queue[a].state = "queued"

\* A suspended entry is queued again; a paused preparation gets an entry of
\* the same identity that continues it.
Resumed(g, a, i) ==
    IF g.queue[a] # None
    THEN [g EXCEPT !.queue[a].state = "queued"]
    ELSE [g EXCEPT !.queue[a] = [id |-> i, work |-> "resume",
                                 origin |-> "human", state |-> "queued"]]
MayResume(g, a, i) ==
    /\ a \notin g.denied
    /\ IF g.queue[a] # None
       THEN /\ HasEntry(g, a, i)
            /\ g.queue[a].origin = "human"
            /\ g.queue[a].state = "suspended"
       ELSE a \in Humans /\ Prepares(g, a, i) /\ ~g.prep[a].active

Cancelled(g, a, i) ==
    Discarded(IF HasEntry(g, a, i) THEN Dequeued(g, a) ELSE g, a, i)

-----------------------------------------------------------------------------
(* What the time an action takes does to the work of an actor.             *)

\* A preparation is carried out, paused or discarded (a discard also takes a
\* paused one: its plan is checked at every boundary); a condition is
\* applied or runs out; the actor dies.
Fates(g, a) ==
    {"none"}
    \cup (IF g.prep[a] # None THEN {"discard"} ELSE {})
    \cup (IF g.prep[a] # None /\ g.prep[a].active
          THEN {"complete", "pause"} ELSE {})
    \cup (IF a \in g.dead THEN {}
          ELSE {"die", IF a \in g.denied THEN "release" ELSE "deny"})
    \cup (IF a \notin g.dead \cup g.denied /\ g.prep[a] # None
             /\ g.queue[a] # None /\ g.queue[a].work = "action"
          THEN {"deny matching"} ELSE {})

\* A condition that pauses preparations also suspends a queued entry that
\* would continue the paused one: a resume, or an action that asks for the
\* same work again.
Thawing(g, a, fate) ==
    /\ g.queue[a] # None /\ g.prep[a] # None
    /\ \/ g.queue[a].work = "resume" /\ Prepares(g, a, g.queue[a].id)
       \/ g.queue[a].work = "action" /\ fate = "deny matching"

Fated(g, fate) ==
    LET Gone(a) == fate[a] \in {"discard", "complete", "die"}
        Denied(a) == fate[a] \in {"deny", "deny matching"}
    IN  [g EXCEPT
        !.prep = [a \in Actors |->
            IF Gone(a) THEN None
            ELSE IF (Denied(a) \/ fate[a] = "pause") /\ g.prep[a] # None
                 THEN [g.prep[a] EXCEPT !.active = FALSE] ELSE g.prep[a]],
        !.queue = [a \in Actors |->
            IF Denied(a) /\ Thawing(g, a, fate[a])
            THEN [g.queue[a] EXCEPT !.state = "suspended"] ELSE g.queue[a]],
        !.dead = @ \cup {a \in Actors : fate[a] = "die"},
        !.denied = (@ \cup {a \in Actors : Denied(a)})
                       \ {a \in Actors : fate[a] = "release"}]

FateOf(g) ==
    LET possible == [a \in Actors |-> Fates(g, a)]
    IN  {fate \in [Actors -> UNION {possible[a] : a \in Actors}] :
            \A a \in Actors : fate[a] \in possible[a]}

\* The preparations whose completion is an event of the game.
Completed(g, fate) ==
    {g.prep[a].id : a \in {b \in Actors : fate[b] = "complete"}}

-----------------------------------------------------------------------------
(* The derivation of an entry's suspensions and ends.  An entry has its    *)
(* content, the actor and identity it is about, and for a start the kind   *)
(* of action: "prepared", "immediate" or "wait".                           *)

Entry(content, a, i, action) ==
    [content |-> content, actor |-> a, id |-> i, action |-> action]

Starts(e) == e.content \in {"started", "continued"}
Fails(e) == e.content \in {"failed", "continuation failed"}
Cancels(e) == e.content \in {"cancelled", "escaped"}

\* Mutant: only the entry's own actor is looked at.
OwnSuspensionOwners(before, e) ==
    {[actor |-> a, id |-> before.prep[a].id] :
        a \in {b \in Actors \cap {e.actor} :
                  before.prep[b] # None /\ before.prep[b].active}}
    \cup {[actor |-> e.actor, id |-> i] : i \in IF Starts(e) THEN {e.id} ELSE {}}

\* Owners of what may be suspended: the active preparations of before and
\* what the entry itself starts or continues.
SuspensionOwners(before, e) ==
    {[actor |-> a, id |-> before.prep[a].id] :
        a \in {b \in Actors : before.prep[b] # None /\ before.prep[b].active}}
    \cup {[actor |-> e.actor, id |-> i] : i \in IF Starts(e) THEN {e.id} ELSE {}}

\* Owners of what may end: all preparations of before and what the entry
\* starts, continues, fails or cancels.
EndOwners(before, e) ==
    {[actor |-> a, id |-> before.prep[a].id] :
        a \in {b \in Actors : before.prep[b] # None}}
    \cup {[actor |-> e.actor, id |-> i] :
             i \in IF Starts(e) \/ Fails(e) \/ Cancels(e) THEN {e.id} ELSE {}}

Suspensions(before, after, e) ==
    {o \in SuspensionOwners(before, e) :
        /\ Prepares(after, o.actor, o.id) /\ ~after.prep[o.actor].active
        /\ ~(e.content = "suspended" /\ e.id = o.id)}

EndKind(e, o, events) ==
    LET current == (Starts(e) \/ Fails(e) \/ Cancels(e)) /\ e.id = o.id
        replaced == ~current /\ e.actor = o.actor
                    /\ e.content = "started" /\ e.action # "wait"
    IN  IF \/ o.id \in events
           \/ current /\ e.content = "started" /\ e.action # "prepared"
        THEN "resolved"
        ELSE IF replaced \/ (Cancels(e) /\ e.id = o.id)
             THEN "cancelled" ELSE "failed"

Ends(before, after, e, events) ==
    {[actor |-> o.actor, id |-> o.id, kind |-> EndKind(e, o, events)] :
        o \in {p \in EndOwners(before, e) : ~Prepares(after, p.actor, p.id)}}

-----------------------------------------------------------------------------
(* The acceptor.                                                           *)

Live(ph, a) == {i \in Ids : ph[i] # None /\ roots[i].actor = a}
QueuedPhases == {"initial queued", "initial suspended",
                 "progress queued", "progress queue suspended"}
PreparingPhases == {"running", "progress paused",
                    "progress queued", "progress queue suspended"}

\* Which work facts an entry of this content may carry.
InScope(e, suspensions, ends) ==
    /\ {o.id : o \in suspensions} \cap {n.id : n \in ends} = {}
    /\ CASE e.content \in {"admitted", "suspended", "resumed"} ->
                suspensions = {} /\ ends = {}
         [] e.content = "cancelled" ->
                /\ suspensions = {}
                /\ ends = {[actor |-> e.actor, id |-> e.id, kind |-> "cancelled"]}
         [] Fails(e) ->
                /\ suspensions = {}
                /\ ends = {[actor |-> e.actor, id |-> e.id, kind |-> "failed"]}
         [] e.content = "escaped" ->
                [actor |-> e.actor, id |-> e.id, kind |-> "cancelled"] \in ends
         [] OTHER -> TRUE

\* The phase an entry of this content puts its intention in, or None where
\* the entry is not allowed in the phase it is in.
NextPhase(content, phase) ==
    CASE content = "suspended" /\ phase = "initial queued" -> "initial suspended"
      [] content = "suspended" /\ phase = "running" -> "progress paused"
      [] content = "suspended" /\ phase = "progress queued" ->
             "progress queue suspended"
      [] content = "resumed" /\ phase = "initial suspended" -> "initial queued"
      [] content = "resumed"
         /\ phase \in {"progress paused", "progress queue suspended"} ->
             "progress queued"
      [] content = "cancelled" -> phase
      [] content = "escaped" /\ phase \in PreparingPhases -> phase
      [] content = "started" /\ phase = "initial queued" -> "running"
      [] content = "failed" /\ phase = "initial queued" -> phase
      [] content = "continued" /\ phase = "progress queued" -> "running"
      [] content = "continuation failed" /\ phase = "progress queued" -> phase
      [] OTHER -> None

\* The phases after the entry's own fact: a new identity takes one of its
\* actor's two places.
Own(ph, e) ==
    CASE e.content = "wizard" -> ph
      [] e.content = "admitted" -> [ph EXCEPT ![e.id] = "initial queued"]
      [] OTHER -> [ph EXCEPT ![e.id] = NextPhase(e.content, @)]
OwnAllowed(ph, e) ==
    CASE e.content = "wizard" -> TRUE
      [] e.content = "admitted" ->
             roots[e.id] = None /\ Cardinality(Live(ph, e.actor)) < 2
      [] OTHER -> /\ roots[e.id] # None /\ roots[e.id].actor = e.actor
                  /\ NextPhase(e.content, ph[e.id]) # None

\* Its suspensions and ends, and the phases all of it leaves.
Observed(own, suspensions, ends) ==
    [i \in Ids |-> IF \E n \in ends : n.id = i THEN None
                   ELSE IF \E o \in suspensions : o.id = i
                        THEN "progress paused" ELSE own[i]]

\* The work of the actor of an identity fits its queue and its preparation.
OwnerOf(i, e) == IF e.content = "admitted" /\ e.id = i THEN e.actor ELSE roots[i].actor
Fits(ph, i, e) ==
    \A j \in Ids : j # i /\ ph[j] # None /\ OwnerOf(i, e) = OwnerOf(j, e) =>
        /\ ~(ph[i] \in QueuedPhases /\ ph[j] \in QueuedPhases)
        /\ ~(ph[i] \in PreparingPhases /\ ph[j] \in PreparingPhases)

\* The identities at which an entry is refused: its own, or those of facts
\* that do not fit the phases its own fact leaves.
Refusals(e, suspensions, ends, own, left) ==
    LET about == IF e.id = None THEN {} ELSE {e.id}
        direct == IF Starts(e) \/ Fails(e) \/ Cancels(e) THEN about ELSE {}
        unresolved == e.content = "started" /\ e.action # "prepared"
                      /\ ~\E n \in ends : n.id = e.id /\ n.kind = "resolved"
    IN  {o.id : o \in {s \in suspensions : own[s.id] # "running"}}
        \cup {n.id : n \in {m \in ends :
                 own[m.id] \in {None} \cup
                    (IF m.id \in direct THEN {}
                     ELSE {"initial queued", "initial suspended"})}}
        \cup {i \in about : \/ ~InScope(e, suspensions, ends)
                             \/ ~OwnAllowed(phases, e)
                             \/ unresolved}
        \cup {i \in Ids : left[i] # None /\ ~Fits(left, i, e)}

-----------------------------------------------------------------------------
(* Committing a candidate.                                                 *)

\* Queued work that the commit changed although the entry is not about it:
\* suspended by a condition, deprived of the preparation it continues, or
\* suspended work of an actor that died.
Overtaken(before, after, e) ==
    {after.queue[a].id : a \in {b \in Actors :
        /\ after.queue[b] # None
        /\ HasEntry(before, b, after.queue[b].id)
        /\ \/ /\ before.queue[b].state = "queued"
              /\ after.queue[b].state = "suspended"
              /\ ~(e.content = "suspended" /\ e.id = after.queue[b].id)
           \/ /\ after.queue[b].work = "resume"
              /\ ~Prepares(after, b, after.queue[b].id)
           \/ b \in after.dead /\ after.queue[b].state = "suspended"}}

Rewindable(e) == e.content \in {"started", "continued", "escaped", "wizard"}

\* Any selectable boundary may be the one a later rewind goes back to.
Boundary == [game |-> game', phases |-> phases']
KeepBoundary(selectable) ==
    \/ saved' = saved
    \/ selectable /\ saved' = Boundary

\* One entry: its facts are derived from the game before and after, and the
\* acceptor of a later opening follows it.  Nothing that follows a refused
\* entry can be read again.
Commit(after, e, events) ==
    /\ refused = {}
    /\ game' = after
    /\ \E suspensions \in {Suspensions(game, after, e)},
          ends \in {Ends(game, after, e, events)} :
          \E left \in {Observed(Own(phases, e), suspensions, ends)} :
             /\ refused' = Refusals(e, suspensions, ends, Own(phases, e), left)
             /\ phases' = IF refused' = {} THEN left ELSE phases
    /\ overtaken' = overtaken \cup Overtaken(game, after, e)
    /\ KeepBoundary(Rewindable(e))

-----------------------------------------------------------------------------
Init ==
    /\ game = [queue |-> [a \in Actors |-> None],
               prep |-> [a \in Actors |-> None],
               dead |-> {}, denied |-> {}, next |-> 1]
    /\ roots = [i \in Ids |-> None]
    /\ phases = [i \in Ids |-> None]
    /\ saved = [game |-> game, phases |-> phases]
    /\ refused = {}
    /\ overtaken = {}

Admitted(a, work, origin) ==
    /\ FreeSlot(game, a)
    /\ a \notin game.dead
    /\ roots' = IF roots[game.next] = None
                THEN [roots EXCEPT ![game.next] =
                         [actor |-> a, human |-> origin = "human"]]
                ELSE roots
    /\ LET e == Entry("admitted", a, game.next, None)
       IN  Commit(Inserted(game, a, work, origin), e, {})

\* A player's action; it need not be the actor's turn.
AdmitHuman(a) == a \in Humans \ game.denied /\ Admitted(a, "action", "human")

\* A step of a journey, for the actor whose turn it is.
AdmitTravel(a) == a \in Humans /\ MayAct(game, a) /\ Admitted(a, "action", "travel")

\* A creature's decision, taken when it is executed.
AdmitDecision(a) ==
    a \in Creatures /\ MayAct(game, a) /\ Admitted(a, "decision", "autonomous")

\* The scheduler finds the actor of the selected work dead.
FailUnavailable(a) ==
    /\ UNCHANGED roots
    /\ Selected(game, a) /\ a \in game.dead
    /\ LET entry == game.queue[a]
           content == IF entry.work = "resume" THEN "continuation failed" ELSE "failed"
       IN  Commit(Dequeued(game, a), Entry(content, a, entry.id, None), {})

\* Queued work is carried out: at once, leaving or replacing a paused
\* preparation, or as a new preparation; time passes for everybody.
Start(a) ==
    /\ UNCHANGED roots
    /\ Selected(game, a) /\ a \notin game.dead
    /\ game.queue[a].work \in {"action", "decision"}
    /\ LET i == game.queue[a].id
           idle == Dequeued(game, a)
           begun == [idle EXCEPT !.prep[a] = [id |-> i, active |-> TRUE]]
           Took(action, g) == \E fate \in FateOf(g) :
               Commit(Fated(g, fate), Entry("started", a, i, action),
                      Completed(g, fate))
       IN  \/ \E action \in {"immediate", "wait"} : Took(action, idle)
           \/ game.queue[a].origin # "travel" /\ Took("prepared", begun)

\* Queued work is refused when its turn comes: it is dropped, nothing else.
FailStart(a) ==
    /\ UNCHANGED roots
    /\ Selected(game, a) /\ a \notin game.dead
    /\ game.queue[a].work \in {"action", "decision"}
    /\ Commit(Dequeued(game, a), Entry("failed", a, game.queue[a].id, None), {})

\* A paused preparation is continued.
Continue(a) ==
    /\ UNCHANGED roots
    /\ Selected(game, a) /\ a \notin game.dead
    /\ game.queue[a].work = "resume"
    /\ Prepares(game, a, game.queue[a].id) /\ Paused(game, a)
    /\ LET running == [Dequeued(game, a) EXCEPT !.prep[a].active = TRUE]
       IN  \E fate \in FateOf(running) :
               Commit(Fated(running, fate),
                      Entry("continued", a, game.queue[a].id, None),
                      Completed(running, fate))

\* It cannot be: what is left of it is discarded.
FailContinue(a) ==
    /\ UNCHANGED roots
    /\ Selected(game, a) /\ a \notin game.dead
    /\ game.queue[a].work = "resume"
    /\ LET i == game.queue[a].id
       IN  Commit(Dequeued(Discarded(game, a, i), a),
                  Entry("continuation failed", a, i, None), {})

\* Changes of one admitted intention go through its admission by a player.
Changeable(a, i) ==
    /\ roots[i] # None /\ roots[i].actor = a /\ roots[i].human
    /\ HasEntry(game, a, i) \/ (a \in Humans /\ Prepares(game, a, i))

\* A player left, or released the actor: its work waits for a resume.
Suspend(a, i) ==
    /\ UNCHANGED roots
    /\ Changeable(a, i) /\ MaySuspend(game, a, i)
    /\ Commit(Suspended(game, a, i), Entry("suspended", a, i, None), {})

Resume(a, i) ==
    /\ UNCHANGED roots
    /\ Changeable(a, i) /\ MayResume(game, a, i)
    /\ Commit(Resumed(game, a, i), Entry("resumed", a, i, None), {})

Cancel(a, i) ==
    /\ UNCHANGED roots
    /\ Changeable(a, i)
    /\ Commit(Cancelled(game, a, i), Entry("cancelled", a, i, None), {})

\* A journey was stopped: its pending step is withdrawn.
CancelTravel(a) ==
    /\ UNCHANGED roots
    /\ game.queue[a] # None /\ game.queue[a].origin = "travel"
    /\ LET i == game.queue[a].id
       IN  Commit(Cancelled(game, a, i), Entry("cancelled", a, i, None), {})

\* A preparation is given up for a step, which takes time.
Escape(a, i) ==
    /\ UNCHANGED roots
    /\ Changeable(a, i) /\ Prepares(game, a, i)
    /\ LET stepped == Cancelled(game, a, i)
       IN  \E fate \in FateOf(stepped) :
               Commit(Fated(stepped, fate), Entry("escaped", a, i, None),
                      Completed(stepped, fate))

\* A privileged change of the world.
Wizard ==
    /\ UNCHANGED roots
    /\ \E fate \in FateOf(game) :
           Commit(Fated(game, fate), Entry("wizard", None, None, None),
                  Completed(game, fate))

\* Mutants: the identities of the abandoned branch are given again, or one
\* more is skipped at every rewind.
ContinuedAsSaved(earlier, later) == earlier
ContinuedPast(earlier, later) == [earlier EXCEPT !.next = later.next + 1]

\* A rewind brings an earlier game back, but no identity of the abandoned
\* branch; the acceptor goes back to the phases of the same boundary.
Continued(earlier, later) ==
    [earlier EXCEPT !.next = IF later.next > @ THEN later.next ELSE @]
Rewind ==
    /\ refused = {}
    /\ game' = Continued(saved.game, game)
    /\ phases' = saved.phases
    /\ KeepBoundary(TRUE)
    /\ UNCHANGED <<roots, refused, overtaken>>

Next ==
    \/ \E a \in Actors :
          \/ AdmitHuman(a) \/ AdmitTravel(a) \/ AdmitDecision(a)
          \/ FailUnavailable(a)
          \/ Start(a) \/ FailStart(a) \/ Continue(a) \/ FailContinue(a)
          \/ CancelTravel(a)
          \/ \E i \in Ids : \/ Suspend(a, i) \/ Resume(a, i)
                            \/ Cancel(a, i) \/ Escape(a, i)
    \/ Wizard
    \/ Rewind

Spec == Init /\ [][Next]_vars
-----------------------------------------------------------------------------
(* Properties.                                                             *)

TypeOK ==
    /\ game \in Games
    /\ roots \in [Ids -> [actor : Actors, human : BOOLEAN] \cup {None}]
    /\ phases \in [Ids -> Phases \cup {None}]
    /\ saved \in [game : Games, phases : [Ids -> Phases \cup {None}]]
    /\ refused \subseteq Ids
    /\ overtaken \subseteq Ids

\* Every entry the engine writes is one the acceptor allows, after whatever
\* rewinds: a save is refused at the entry of an intention only if the queued
\* work of that intention was changed without an entry of its own
\* (derive_intention_changes against JournalLifecycle::observe).
JournalAccepted == refused \subseteq overtaken

\* The phases the acceptor reaches are those of the game at every boundary,
\* so that a checkpoint of it is accepted (JournalLifecycle::valid_game and
\* Game::intentions_valid), but for work so overtaken.
GameMatchesPhases ==
    refused = {} =>
    /\ \A a \in Actors :
         /\ game.queue[a] # None /\ game.queue[a].id \notin overtaken =>
              LET entry == game.queue[a]
                  fresh == entry.work \in {"action", "decision"}
              IN  phases[entry.id] =
                    IF entry.state = "queued"
                    THEN IF fresh THEN "initial queued" ELSE "progress queued"
                    ELSE IF fresh THEN "initial suspended"
                         ELSE "progress queue suspended"
         /\ game.prep[a] # None /\ game.prep[a].id \notin overtaken =>
              /\ phases[game.prep[a].id] \in PreparingPhases
              /\ (phases[game.prep[a].id] = "running") = game.prep[a].active
    /\ \A i \in Ids \ overtaken : phases[i] # None =>
         /\ phases[i] \in QueuedPhases => HasEntry(game, roots[i].actor, i)
         /\ phases[i] \in PreparingPhases => Prepares(game, roots[i].actor, i)

\* All history remains readable: no entry the server wrote is refused when
\* the save is opened again (src/docs/architecture/persistence.md:247).
HistoryReadable == refused = {}
=============================================================================
