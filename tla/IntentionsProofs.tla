-------------------------- MODULE IntentionsProofs --------------------------
(***************************************************************************)
(* The journal of admitted work and its reader agree.                      *)
(*                                                                         *)
(* The writer derives each entry from the game before and after it; the    *)
(* acceptor of a later opening sees the entries alone.  The invariant says *)
(* which phases a game allows an identity (Meant), that the acceptor's     *)
(* phases are among them (Match), what the simulation keeps true of queue  *)
(* and preparation (Sound), and that work changed without an entry of its  *)
(* own is counted as such (StaleOvertaken), of the game and of the saved   *)
(* boundary alike.                                                         *)
(*                                                                         *)
(* A step is followed in two halves.  The identities its entry is not      *)
(* about are left to the entry's derived suspensions and ends, whatever    *)
(* the step was (Aside, OthersLeft); the one it is about depends on the    *)
(* step (Settles, a lemma for each kind of entry).  Account brings both    *)
(* together: from it follow that an entry is refused only at overtaken     *)
(* identities (RefusesOvertaken), that an accepted one leaves phases the   *)
(* game allows (AcceptedMatches), and so that a commit keeps the invariant *)
(* (CommitKeeps).  Each action then only has to show its Account.          *)
(***************************************************************************)
EXTENDS Intentions, FiniteSetTheorems, TLAPS

-----------------------------------------------------------------------------
(* The inductive invariant *)

\* A suspension without an entry of its own leaves the phase of queued work.
Behind(entry, queued, suspended, over) ==
  IF entry.state = "queued" THEN {queued}
  ELSE IF entry.id \in over THEN {queued, suspended} ELSE {suspended}

\* The phases that a game allows an identity of an actor.
Meant(over, g, a, i) ==
  IF Prepares(g, a, i)
  THEN IF g.prep[a].active THEN {"running"}
       ELSE IF HasEntry(g, a, i)
            THEN Behind(g.queue[a], "progress queued", "progress queue suspended", over)
            ELSE {"progress paused"}
  ELSE IF HasEntry(g, a, i) /\ g.queue[a].work # "resume"
       THEN Behind(g.queue[a], "initial queued", "initial suspended", over)
       ELSE {None}

\* The phases are those a game allows.
Match(over, rs, g, ph) ==
  \A i \in Ids : IF rs[i] = None THEN ph[i] = None
                 ELSE ph[i] \in Meant(over, g, rs[i].actor, i)

\* Work is that of its actor.  Only a resume has the identity of a preparation,
\* a paused one; and the dead prepare nothing.
Sound(rs, g) ==
  \A a \in Actors :
    /\ g.queue[a] # None =>
         /\ rs[g.queue[a].id] # None /\ rs[g.queue[a].id].actor = a
         /\ g.queue[a].id < g.next
    /\ g.prep[a] # None =>
         /\ rs[g.prep[a].id] # None /\ rs[g.prep[a].id].actor = a
         /\ g.prep[a].id < g.next
         /\ a \notin g.dead
    /\ g.queue[a] # None /\ g.prep[a] # None =>
         IF g.queue[a].work = "resume"
         THEN g.queue[a].id = g.prep[a].id /\ ~g.prep[a].active
         ELSE g.queue[a].id # g.prep[a].id

\* A resume without a preparation, or suspended work of the dead.
Stale(g, a) ==
  /\ g.queue[a] # None
  /\ \/ g.queue[a].work = "resume" /\ g.prep[a] = None
     \/ g.queue[a].state = "suspended" /\ a \in g.dead

StaleOvertaken(over, g) == \A a \in Actors : Stale(g, a) => g.queue[a].id \in over

Consistent(g, ph) ==
  Match(overtaken, roots, g, ph) /\ Sound(roots, g) /\ StaleOvertaken(overtaken, g)

Given == \A i \in Ids : roots[i] # None <=> i < game.next

IInv ==
  /\ TypeOK
  /\ Given /\ saved.game.next <= game.next
  /\ refused = {} => Consistent(game, phases) /\ Consistent(saved.game, saved.phases)
  /\ refused \subseteq overtaken

-----------------------------------------------------------------------------
(* Types of games *)

LEMMA GameTypes ==
  ASSUME NEW g \in Games
  PROVE  /\ g = [queue |-> g.queue, prep |-> g.prep, dead |-> g.dead,
                 denied |-> g.denied, next |-> g.next]
         /\ g.queue \in [Actors -> Entries \cup {None}]
         /\ g.prep \in [Actors -> Preparations \cup {None}]
         /\ g.dead \subseteq Actors /\ g.denied \subseteq Actors
         /\ g.next \in 1..MaxIntentions + 1
  BY DEF Games

LEMMA MakesGame ==
  ASSUME NEW q \in [Actors -> Entries \cup {None}],
         NEW p \in [Actors -> Preparations \cup {None}],
         NEW dead \in SUBSET Actors, NEW denied \in SUBSET Actors,
         NEW n \in 1..MaxIntentions + 1
  PROVE  [queue |-> q, prep |-> p, dead |-> dead, denied |-> denied, next |-> n] \in Games
  BY DEF Games

LEMMA QueueTypes ==
  ASSUME NEW g \in Games, NEW a \in Actors
  PROVE  /\ g.queue[a] # None =>
              /\ g.queue[a] \in Entries /\ g.queue[a].id \in Ids
              /\ g.queue[a].work \in {"action", "decision", "resume"}
              /\ g.queue[a].state \in {"queued", "suspended"}
         /\ g.prep[a] # None =>
              /\ g.prep[a] \in Preparations /\ g.prep[a].id \in Ids
              /\ g.prep[a].active \in BOOLEAN
  BY GameTypes DEF Entries, Preparations

LEMMA MadeEntries ==
  ASSUME NEW i \in Ids, NEW work \in {"action", "decision", "resume"},
         NEW origin \in {"human", "travel", "autonomous"},
         NEW state \in {"queued", "suspended"}, NEW active \in BOOLEAN
  PROVE  /\ [id |-> i, work |-> work, origin |-> origin, state |-> state] \in Entries
         /\ [id |-> i, work |-> work, origin |-> origin, state |-> state] # None
         /\ [id |-> i, active |-> active] \in Preparations
         /\ [id |-> i, active |-> active] # None
  BY NoneAssumption DEF Entries, Preparations

LEMMA Names ==
  /\ \A i \in Ids : i # None /\ i \in Nat
  /\ \A p \in Phases : p # None
  /\ QueuedPhases \subseteq Phases /\ PreparingPhases \subseteq Phases
  /\ \A a \in Actors, b \in BOOLEAN : [actor |-> a, human |-> b] # None
<1>1. \A i \in Ids : i # None /\ i \in Nat
  BY IntentionsAssumption DEF Ids
<1>2. \A p \in Phases : p # None
  BY NoneAssumption
<1>3. QueuedPhases \subseteq Phases /\ PreparingPhases \subseteq Phases
  BY DEF QueuedPhases, PreparingPhases, Phases
<1>4. \A a \in Actors, b \in BOOLEAN : [actor |-> a, human |-> b] # None
  BY NoneAssumption
<1>5. QED
  BY <1>1, <1>2, <1>3, <1>4

-----------------------------------------------------------------------------
(* The updates of a game *)

LEMMA InsertedIs ==
  ASSUME NEW g \in Games, NEW a \in Actors, g.next \in Ids,
         NEW work \in {"action", "decision", "resume"},
         NEW origin \in {"human", "travel", "autonomous"},
         NEW h, h = Inserted(g, a, work, origin),
         NEW new, new = [id |-> g.next, work |-> work, origin |-> origin, state |-> "queued"]
  PROVE  /\ h \in Games
         /\ h.queue = [g.queue EXCEPT ![a] = new]
         /\ h.prep = g.prep /\ h.dead = g.dead /\ h.denied = g.denied
         /\ h.next = g.next + 1
<1>1. new \in Entries
  BY MadeEntries
<1>2. h = [queue |-> [g.queue EXCEPT ![a] = new], prep |-> g.prep, dead |-> g.dead,
           denied |-> g.denied, next |-> g.next + 1]
  <2>1. g = [queue |-> g.queue, prep |-> g.prep, dead |-> g.dead,
             denied |-> g.denied, next |-> g.next]
    BY GameTypes
  <2>2. h = [g EXCEPT !.queue = [g.queue EXCEPT ![a] = new], !.next = g.next + 1]
    BY <2>1 DEF Inserted
  <2>3. QED
    BY <2>1, <2>2
<1>3. [g.queue EXCEPT ![a] = new] \in [Actors -> Entries \cup {None}]
  BY <1>1, GameTypes
<1>4. g.next + 1 \in 1..MaxIntentions + 1
  BY IntentionsAssumption DEF Ids
<1>5. h \in Games
  BY <1>2, <1>3, <1>4, GameTypes, MakesGame
<1>6. QED
  BY <1>2, <1>5

LEMMA DequeuedIs ==
  ASSUME NEW g \in Games, NEW a \in Actors
  PROVE  LET h == Dequeued(g, a)
         IN  /\ h \in Games
             /\ h.queue = [g.queue EXCEPT ![a] = None]
             /\ h.prep = g.prep /\ h.dead = g.dead /\ h.denied = g.denied
             /\ h.next = g.next
<1> DEFINE h == Dequeued(g, a)
<1>1. h = [queue |-> [g.queue EXCEPT ![a] = None], prep |-> g.prep, dead |-> g.dead,
           denied |-> g.denied, next |-> g.next]
  BY GameTypes DEF Dequeued
<1>2. [g.queue EXCEPT ![a] = None] \in [Actors -> Entries \cup {None}]
  BY GameTypes
<1>3. h \in Games
  BY <1>1, <1>2, GameTypes, MakesGame
<1>4. QED
  BY <1>1, <1>3

\* A preparation is put in place, changed or taken away.
LEMMA PreparedIs ==
  ASSUME NEW g \in Games, NEW a \in Actors, NEW p \in Preparations \cup {None}
  PROVE  LET h == [g EXCEPT !.prep[a] = p]
         IN  /\ h \in Games
             /\ h.prep = [g.prep EXCEPT ![a] = p]
             /\ h.queue = g.queue /\ h.dead = g.dead /\ h.denied = g.denied
             /\ h.next = g.next
<1> DEFINE h == [g EXCEPT !.prep[a] = p]
<1>1. h = [queue |-> g.queue, prep |-> [g.prep EXCEPT ![a] = p], dead |-> g.dead,
           denied |-> g.denied, next |-> g.next]
  BY GameTypes
<1>2. [g.prep EXCEPT ![a] = p] \in [Actors -> Preparations \cup {None}]
  BY GameTypes
<1>3. h \in Games
  BY <1>1, <1>2, GameTypes, MakesGame
<1>4. QED
  BY <1>1, <1>3

LEMMA ActiveIs ==
  ASSUME NEW g \in Games, NEW a \in Actors, g.prep[a] # None, NEW active \in BOOLEAN
  PROVE  LET h == [g EXCEPT !.prep[a].active = active]
         IN  /\ h \in Games
             /\ h.prep = [g.prep EXCEPT ![a] = [id |-> g.prep[a].id, active |-> active]]
             /\ h.queue = g.queue /\ h.dead = g.dead /\ h.denied = g.denied
             /\ h.next = g.next
<1> DEFINE p == [id |-> g.prep[a].id, active |-> active]
<1>1. g.prep[a] \in Preparations /\ g.prep[a].id \in Ids
  BY QueueTypes
<1>2. [g.prep[a] EXCEPT !.active = active] = p /\ p \in Preparations
  BY <1>1 DEF Preparations
<1>3. [g EXCEPT !.prep[a].active = active] = [g EXCEPT !.prep[a] = p]
  BY <1>2
<1>4. QED
  BY <1>2, <1>3, PreparedIs

\* The state of a queued entry changes.
LEMMA RestatedIs ==
  ASSUME NEW g \in Games, NEW a \in Actors, g.queue[a] # None,
         NEW state \in {"queued", "suspended"}
  PROVE  LET h == [g EXCEPT !.queue[a].state = state]
             q == [id |-> g.queue[a].id, work |-> g.queue[a].work,
                   origin |-> g.queue[a].origin, state |-> state]
         IN  /\ h \in Games
             /\ q \in Entries /\ h.queue = [g.queue EXCEPT ![a] = q]
             /\ h.prep = g.prep /\ h.dead = g.dead /\ h.denied = g.denied
             /\ h.next = g.next
<1> DEFINE q == [id |-> g.queue[a].id, work |-> g.queue[a].work,
                 origin |-> g.queue[a].origin, state |-> state]
           h == [g EXCEPT !.queue[a].state = state]
<1>1. g.queue[a] \in Entries
  BY QueueTypes
<1>2. [g.queue[a] EXCEPT !.state = state] = q /\ q \in Entries
  BY <1>1 DEF Entries
<1>3. h = [queue |-> [g.queue EXCEPT ![a] = q], prep |-> g.prep, dead |-> g.dead,
           denied |-> g.denied, next |-> g.next]
  BY <1>2, GameTypes
<1>4. [g.queue EXCEPT ![a] = q] \in [Actors -> Entries \cup {None}]
  BY <1>2, GameTypes
<1>5. h \in Games
  BY <1>3, <1>4, GameTypes, MakesGame
<1>6. QED
  BY <1>2, <1>3, <1>5

LEMMA DiscardedIs ==
  ASSUME NEW g \in Games, NEW a \in Actors, NEW i
  PROVE  LET h == Discarded(g, a, i)
         IN  /\ h \in Games
             /\ h.prep = IF Prepares(g, a, i) THEN [g.prep EXCEPT ![a] = None] ELSE g.prep
             /\ h.queue = g.queue /\ h.dead = g.dead /\ h.denied = g.denied
             /\ h.next = g.next
<1>1. CASE Prepares(g, a, i)
  <2>1. Discarded(g, a, i) = [g EXCEPT !.prep[a] = None]
    BY <1>1 DEF Discarded
  <2>2. QED
    BY <1>1, <2>1, PreparedIs
<1>2. CASE ~Prepares(g, a, i)
  BY <1>2 DEF Discarded
<1>3. QED
  BY <1>1, <1>2

LEMMA CancelledIs ==
  ASSUME NEW g \in Games, NEW a \in Actors, NEW i
  PROVE  LET h == Cancelled(g, a, i)
         IN  /\ h \in Games
             /\ h.prep = IF Prepares(g, a, i) THEN [g.prep EXCEPT ![a] = None] ELSE g.prep
             /\ h.queue = IF HasEntry(g, a, i) THEN [g.queue EXCEPT ![a] = None] ELSE g.queue
             /\ h.dead = g.dead /\ h.denied = g.denied /\ h.next = g.next
<1>1. PICK m : m = IF HasEntry(g, a, i) THEN Dequeued(g, a) ELSE g
  OBVIOUS
<1>2. /\ m \in Games
      /\ m.queue = IF HasEntry(g, a, i) THEN [g.queue EXCEPT ![a] = None] ELSE g.queue
      /\ m.prep = g.prep /\ m.dead = g.dead /\ m.denied = g.denied /\ m.next = g.next
  BY <1>1, DequeuedIs
<1>3. Cancelled(g, a, i) = Discarded(m, a, i) /\ (Prepares(m, a, i) <=> Prepares(g, a, i))
  BY <1>1, <1>2 DEF Cancelled, Prepares
<1>4. LET h == Discarded(m, a, i)
      IN  /\ h \in Games
          /\ h.prep = IF Prepares(m, a, i) THEN [m.prep EXCEPT ![a] = None] ELSE m.prep
          /\ h.queue = m.queue /\ h.dead = m.dead /\ h.denied = m.denied
          /\ h.next = m.next
  BY <1>2, DiscardedIs
<1>5. QED
  BY <1>2, <1>3, <1>4

-----------------------------------------------------------------------------
(* What the time of an action does *)

\* Entries stay, and may be suspended; preparations are paused or go; the dead
\* lose theirs.
Passed(g, h) ==
  /\ h \in Games /\ h.next = g.next /\ g.dead \subseteq h.dead
  /\ \A b \in Actors :
       /\ h.queue[b] = None <=> g.queue[b] = None
       /\ g.queue[b] # None =>
            /\ h.queue[b].id = g.queue[b].id /\ h.queue[b].work = g.queue[b].work
            /\ h.queue[b].state \in {g.queue[b].state, "suspended"}
       /\ h.prep[b] # None =>
            /\ g.prep[b] # None /\ h.prep[b].id = g.prep[b].id
            /\ h.prep[b].active => g.prep[b].active
            /\ b \in h.dead => b \in g.dead

LEMMA FatedPasses ==
  ASSUME NEW g \in Games, NEW fate \in FateOf(g)
  PROVE  Passed(g, Fated(g, fate))
<1> DEFINE h == Fated(g, fate)
           Gone(b) == fate[b] \in {"discard", "complete", "die"}
           Denied(b) == fate[b] \in {"deny", "deny matching"}
           q == [b \in Actors |->
                  IF Denied(b) /\ Thawing(g, b, fate[b])
                  THEN [g.queue[b] EXCEPT !.state = "suspended"] ELSE g.queue[b]]
           p == [b \in Actors |->
                  IF Gone(b) THEN None
                  ELSE IF (Denied(b) \/ fate[b] = "pause") /\ g.prep[b] # None
                       THEN [g.prep[b] EXCEPT !.active = FALSE] ELSE g.prep[b]]
           dead == g.dead \cup {b \in Actors : fate[b] = "die"}
           denied == (g.denied \cup {b \in Actors : Denied(b)})
                       \ {b \in Actors : fate[b] = "release"}
<1>1. h = [queue |-> q, prep |-> p, dead |-> dead, denied |-> denied, next |-> g.next]
  <2>1. g = [queue |-> g.queue, prep |-> g.prep, dead |-> g.dead,
             denied |-> g.denied, next |-> g.next]
    BY GameTypes
  <2>2. h = [g EXCEPT !.prep = p, !.queue = q, !.dead = dead, !.denied = denied]
    BY <2>1 DEF Fated
  <2> HIDE DEF h, p, q, dead, denied
  <2>3. QED
    BY <2>1, <2>2
<1>2. ASSUME NEW b \in Actors
      PROVE  /\ q[b] \in Entries \cup {None}
             /\ q[b] = None <=> g.queue[b] = None
             /\ g.queue[b] # None =>
                  /\ q[b].id = g.queue[b].id /\ q[b].work = g.queue[b].work
                  /\ q[b].state \in {g.queue[b].state, "suspended"}
  <2>1. CASE Denied(b) /\ Thawing(g, b, fate[b])
    <3>1. g.queue[b] # None /\ g.queue[b] \in Entries
      BY <2>1, QueueTypes DEF Thawing
    <3>2. q[b] = [g.queue[b] EXCEPT !.state = "suspended"]
      BY <2>1
    <3>3. q[b] \in Entries /\ q[b].id = g.queue[b].id /\ q[b].work = g.queue[b].work
          /\ q[b].state = "suspended"
      BY <3>1, <3>2 DEF Entries
    <3>4. QED
      BY <3>1, <3>3, NoneAssumption
  <2>2. CASE ~(Denied(b) /\ Thawing(g, b, fate[b]))
    <3>1. q[b] = g.queue[b]
      BY <2>2
    <3>2. QED
      BY <3>1, GameTypes
  <2>3. QED
    BY <2>1, <2>2
<1>3. ASSUME NEW b \in Actors
      PROVE  /\ p[b] \in Preparations \cup {None}
             /\ p[b] # None =>
                  /\ g.prep[b] # None /\ p[b].id = g.prep[b].id
                  /\ p[b].active => g.prep[b].active
                  /\ b \in dead => b \in g.dead
  <2>1. CASE Gone(b)
    BY <2>1
  <2>2. CASE ~Gone(b) /\ (Denied(b) \/ fate[b] = "pause") /\ g.prep[b] # None
    <3>1. g.prep[b] \in Preparations
      BY <2>2, QueueTypes
    <3>2. p[b] = [g.prep[b] EXCEPT !.active = FALSE]
      BY <2>2
    <3>3. p[b] \in Preparations /\ p[b].id = g.prep[b].id /\ p[b].active = FALSE
      BY <3>1, <3>2 DEF Preparations
    <3>4. QED
      BY <2>2, <3>3
  <2>3. CASE ~Gone(b) /\ ~((Denied(b) \/ fate[b] = "pause") /\ g.prep[b] # None)
    <3>1. p[b] = g.prep[b]
      BY <2>3
    <3>2. QED
      BY <2>3, <3>1, GameTypes
  <2>4. QED
    BY <2>1, <2>2, <2>3
<1> HIDE DEF q, p
<1>4. q \in [Actors -> Entries \cup {None}]
  <2>1. q = [b \in Actors |-> q[b]]
    BY DEF q
  <2>2. QED
    BY <1>2, <2>1
<1>5. p \in [Actors -> Preparations \cup {None}]
  <2>1. p = [b \in Actors |-> p[b]]
    BY DEF p
  <2>2. QED
    BY <1>3, <2>1
<1>6. dead \in SUBSET Actors /\ denied \in SUBSET Actors /\ g.next \in 1..MaxIntentions + 1
  BY GameTypes
<1>7. g.dead \subseteq dead
  OBVIOUS
<1> HIDE DEF dead, denied
<1>8. [queue |-> q, prep |-> p, dead |-> dead, denied |-> denied, next |-> g.next] \in Games
  BY <1>4, <1>5, <1>6, MakesGame
<1>9. /\ h \in Games /\ h.queue = q /\ h.prep = p /\ h.dead = dead /\ h.next = g.next
  BY <1>1, <1>8
<1> HIDE DEF h
<1>10. QED
  BY <1>2, <1>3, <1>7, <1>9 DEF Passed, h

LEMMA NoTimePasses ==
  ASSUME NEW g \in Games PROVE Passed(g, g)
  BY DEF Passed

\* What is carried out is no preparation any more.
LEMMA CompletedAre ==
  ASSUME NEW g \in Games, NEW fate \in FateOf(g), NEW i \in Completed(g, fate)
  PROVE  \E b \in Actors : Prepares(g, b, i)
<1>1. PICK b \in Actors : fate[b] = "complete" /\ i = g.prep[b].id
  BY DEF Completed
<1>2. fate[b] \in Fates(g, b)
  BY DEF FateOf
<1>3. g.prep[b] # None
  BY <1>1, <1>2 DEF Fates
<1>4. QED
  BY <1>1, <1>3 DEF Prepares

-----------------------------------------------------------------------------
(* What an entry says of the work of others *)

\* What a step does to an identity its entry is not about: its queued work
\* stays, and may be suspended; its preparation is paused or goes.
Aside(g, h, i) ==
  \A b \in Actors :
    /\ HasEntry(h, b, i) <=> HasEntry(g, b, i)
    /\ HasEntry(g, b, i) =>
         /\ h.queue[b].work = g.queue[b].work
         /\ h.queue[b].state \in {g.queue[b].state, "suspended"}
    /\ Prepares(h, b, i) =>
         Prepares(g, b, i) /\ (h.prep[b].active => g.prep[b].active)

\* What entries are about.
Changes == {"suspended", "resumed", "cancelled", "failed", "continuation failed",
            "started", "continued", "escaped"}
About(e) ==
  \/ e.content = "wizard" /\ e.id = None
  \/ /\ e.id \in Ids /\ e.actor \in Actors
     /\ \/ e.content = "admitted" /\ roots[e.id] = None
        \/ e.content \in Changes /\ roots[e.id] # None /\ roots[e.id].actor = e.actor

\* The identities an entry calls suspended, and ended.
Halts(after, e, a, i) ==
  /\ \/ Prepares(game, a, i) /\ game.prep[a].active
     \/ Starts(e) /\ i = e.id /\ a = e.actor
  /\ Prepares(after, a, i) /\ ~after.prep[a].active
  /\ ~(e.content = "suspended" /\ i = e.id)

Leaves(after, e, a, i) ==
  /\ \/ Prepares(game, a, i)
     \/ (Starts(e) \/ Fails(e) \/ Cancels(e)) /\ i = e.id /\ a = e.actor
  /\ ~Prepares(after, a, i)

LEMMA AboutOwned ==
  ASSUME NEW e, About(e), Starts(e) \/ Fails(e) \/ Cancels(e)
  PROVE  e.id \in Ids /\ e.actor \in Actors /\ roots[e.id] # None /\ roots[e.id].actor = e.actor
  BY DEF About, Starts, Fails, Cancels

LEMMA PreparationOwned ==
  ASSUME game \in Games, Sound(roots, game), NEW a \in Actors, NEW i, Prepares(game, a, i)
  PROVE  i \in Ids /\ roots[i] # None /\ roots[i].actor = a
  BY QueueTypes DEF Prepares, Sound

LEMMA HaltsOwned ==
  ASSUME game \in Games, Sound(roots, game), NEW after, NEW e, About(e),
         NEW a \in Actors, NEW i, Halts(after, e, a, i) \/ Leaves(after, e, a, i)
  PROVE  i \in Ids /\ roots[i] # None /\ roots[i].actor = a
  BY AboutOwned, PreparationOwned DEF Halts, Leaves

LEMMA SuspensionIs ==
  ASSUME game \in Games, Sound(roots, game), NEW after, NEW e, About(e),
         NEW o \in Suspensions(game, after, e)
  PROVE  /\ o = [actor |-> o.actor, id |-> o.id] /\ o.actor \in Actors
         /\ Halts(after, e, o.actor, o.id)
<1>1. /\ o \in SuspensionOwners(game, e)
      /\ Prepares(after, o.actor, o.id) /\ ~after.prep[o.actor].active
      /\ ~(e.content = "suspended" /\ e.id = o.id)
  BY DEF Suspensions
<1>2. CASE \E a \in Actors : /\ game.prep[a] # None /\ game.prep[a].active
                             /\ o = [actor |-> a, id |-> game.prep[a].id]
  BY <1>1, <1>2 DEF Halts, Prepares
<1>3. CASE Starts(e) /\ o = [actor |-> e.actor, id |-> e.id]
  <2>1. e.actor \in Actors
    BY <1>3, AboutOwned
  <2>2. QED
    BY <1>1, <1>3, <2>1 DEF Halts
<1>4. QED
  BY <1>1, <1>2, <1>3 DEF SuspensionOwners

LEMMA SuspensionMade ==
  ASSUME NEW after, NEW e, NEW a \in Actors, NEW i, Halts(after, e, a, i)
  PROVE  [actor |-> a, id |-> i] \in Suspensions(game, after, e)
<1> DEFINE o == [actor |-> a, id |-> i]
<1>1. o \in SuspensionOwners(game, e)
  <2>1. CASE Prepares(game, a, i) /\ game.prep[a].active
    BY <2>1 DEF SuspensionOwners, Prepares
  <2>2. CASE Starts(e) /\ i = e.id /\ a = e.actor
    BY <2>2 DEF SuspensionOwners
  <2>3. QED
    BY <2>1, <2>2 DEF Halts
<1>2. QED
  BY <1>1 DEF Suspensions, Halts

LEMMA EndIs ==
  ASSUME game \in Games, Sound(roots, game), NEW after, NEW e, About(e), NEW events,
         NEW n \in Ends(game, after, e, events)
  PROVE  /\ n = [actor |-> n.actor, id |-> n.id,
                 kind |-> EndKind(e, [actor |-> n.actor, id |-> n.id], events)]
         /\ n.actor \in Actors
         /\ Leaves(after, e, n.actor, n.id)
<1>1. PICK o \in EndOwners(game, e) :
        /\ ~Prepares(after, o.actor, o.id)
        /\ n = [actor |-> o.actor, id |-> o.id, kind |-> EndKind(e, o, events)]
  BY DEF Ends
<1>2. CASE \E a \in Actors : game.prep[a] # None /\ o = [actor |-> a, id |-> game.prep[a].id]
  BY <1>1, <1>2 DEF Leaves, Prepares
<1>3. CASE (Starts(e) \/ Fails(e) \/ Cancels(e)) /\ o = [actor |-> e.actor, id |-> e.id]
  <2>1. e.actor \in Actors
    BY <1>3, AboutOwned
  <2>2. QED
    BY <1>1, <1>3, <2>1 DEF Leaves
<1>4. QED
  BY <1>1, <1>2, <1>3 DEF EndOwners

LEMMA EndMade ==
  ASSUME NEW after, NEW e, NEW events, NEW a \in Actors, NEW i, Leaves(after, e, a, i)
  PROVE  [actor |-> a, id |-> i, kind |-> EndKind(e, [actor |-> a, id |-> i], events)]
           \in Ends(game, after, e, events)
<1> DEFINE o == [actor |-> a, id |-> i]
<1>1. o \in EndOwners(game, e)
  <2>1. CASE Prepares(game, a, i)
    BY <2>1 DEF EndOwners, Prepares
  <2>2. CASE (Starts(e) \/ Fails(e) \/ Cancels(e)) /\ i = e.id /\ a = e.actor
    BY <2>2 DEF EndOwners
  <2>3. QED
    BY <2>1, <2>2 DEF Leaves
<1>2. ~Prepares(after, o.actor, o.id) /\ o.actor = a /\ o.id = i
  BY DEF Leaves
<1>3. QED
  BY <1>1, <1>2 DEF Ends

-----------------------------------------------------------------------------
(* The phases an entry leaves *)

LeftBy(own, after, e, events) ==
  Observed(own, Suspensions(game, after, e), Ends(game, after, e, events))

\* The phase of what an entry calls suspended.
Halted == "progress paused"

LEMMA LeftIs ==
  ASSUME game \in Games, Sound(roots, game), NEW after, NEW e, About(e), NEW events,
         NEW own, NEW i \in Ids
  PROVE  /\ roots[i] = None => LeftBy(own, after, e, events)[i] = own[i]
         /\ \A a \in Actors : roots[i] # None /\ roots[i].actor = a =>
              /\ Leaves(after, e, a, i) => LeftBy(own, after, e, events)[i] = None
              /\ ~Leaves(after, e, a, i) /\ Halts(after, e, a, i) =>
                   LeftBy(own, after, e, events)[i] = Halted
              /\ ~Leaves(after, e, a, i) /\ ~Halts(after, e, a, i) =>
                   LeftBy(own, after, e, events)[i] = own[i]
<1> DEFINE s == Suspensions(game, after, e)
           d == Ends(game, after, e, events)
           left == LeftBy(own, after, e, events)
<1>1. left[i] = IF \E n \in d : n.id = i THEN None
                ELSE IF \E o \in s : o.id = i THEN Halted ELSE own[i]
  BY DEF Observed, LeftBy, Halted
<1>2. ASSUME NEW o \in s, o.id = i
      PROVE  roots[i] # None /\ Halts(after, e, roots[i].actor, i)
  BY <1>2, SuspensionIs, HaltsOwned
<1>3. ASSUME NEW n \in d, n.id = i
      PROVE  roots[i] # None /\ Leaves(after, e, roots[i].actor, i)
  <2>1. n.actor \in Actors /\ Leaves(after, e, n.actor, i)
    BY <1>3, EndIs
  <2>2. roots[i] # None /\ roots[i].actor = n.actor
    BY <2>1, HaltsOwned
  <2>3. QED
    BY <2>1, <2>2
<1>4. ASSUME NEW a \in Actors, Halts(after, e, a, i) PROVE \E o \in s : o.id = i
  <2>1. [actor |-> a, id |-> i] \in s
    BY <1>4, SuspensionMade
  <2>2. QED
    BY <2>1
<1>5. ASSUME NEW a \in Actors, Leaves(after, e, a, i) PROVE \E n \in d : n.id = i
  <2>1. [actor |-> a, id |-> i, kind |-> EndKind(e, [actor |-> a, id |-> i], events)] \in d
    BY <1>5, EndMade
  <2>2. QED
    BY <2>1
<1> HIDE DEF s, d, left
<1>6. roots[i] = None => left[i] = own[i]
  BY <1>1, <1>2, <1>3
<1>7. ASSUME NEW a \in Actors, roots[i] # None, roots[i].actor = a
      PROVE  /\ Leaves(after, e, a, i) => left[i] = None
             /\ ~Leaves(after, e, a, i) /\ Halts(after, e, a, i) => left[i] = Halted
             /\ ~Leaves(after, e, a, i) /\ ~Halts(after, e, a, i) => left[i] = own[i]
  <2>1. (\E n \in d : n.id = i) <=> Leaves(after, e, a, i)
    BY <1>3, <1>5, <1>7
  <2>2. (\E o \in s : o.id = i) <=> Halts(after, e, a, i)
    BY <1>2, <1>4, <1>7
  <2>3. QED
    BY <1>1, <2>1, <2>2
<1>8. QED
  BY <1>6, <1>7 DEF left

\* Whom the entry is not about is left in a phase the game allows.
LEMMA OthersLeft ==
  ASSUME game \in Games, Sound(roots, game), Match(overtaken, roots, game, phases),
         NEW after \in Games, NEW e, About(e), NEW events, NEW own, NEW over,
         overtaken \subseteq over,
         NEW i \in Ids, i # e.id, own[i] = phases[i], Aside(game, after, i),
         NEW a \in Actors, roots[i] # None, roots[i].actor = a,
         HasEntry(after, a, i) /\ after.queue[a].state = "suspended"
           /\ game.queue[a].state = "queued" => i \in over
  PROVE  LeftBy(own, after, e, events)[i] \in Meant(over, after, a, i)
<1>0. PICK left : left = LeftBy(own, after, e, events)
  OBVIOUS
<1> SUFFICES left[i] \in Meant(over, after, a, i)
  BY <1>0
<1>1. /\ Leaves(after, e, a, i) => left[i] = None
      /\ ~Leaves(after, e, a, i) /\ Halts(after, e, a, i) => left[i] = Halted
      /\ ~Leaves(after, e, a, i) /\ ~Halts(after, e, a, i) => left[i] = phases[i]
  <2>1. \A b \in Actors : roots[i] # None /\ roots[i].actor = b =>
          /\ Leaves(after, e, b, i) => LeftBy(own, after, e, events)[i] = None
          /\ ~Leaves(after, e, b, i) /\ Halts(after, e, b, i) =>
               LeftBy(own, after, e, events)[i] = Halted
          /\ ~Leaves(after, e, b, i) /\ ~Halts(after, e, b, i) =>
               LeftBy(own, after, e, events)[i] = own[i]
    BY LeftIs
  <2>2. QED
    BY <1>0, <2>1
<1>2. phases[i] \in Meant(overtaken, game, a, i)
  BY DEF Match
<1>3. /\ HasEntry(after, a, i) <=> HasEntry(game, a, i)
      /\ HasEntry(game, a, i) =>
           /\ after.queue[a].work = game.queue[a].work
           /\ after.queue[a].state \in {game.queue[a].state, "suspended"}
           /\ game.queue[a].state \in {"queued", "suspended"}
           /\ after.queue[a].id = i /\ game.queue[a].id = i
      /\ Prepares(after, a, i) =>
           Prepares(game, a, i) /\ (after.prep[a].active => game.prep[a].active)
  <2>1. /\ HasEntry(after, a, i) <=> HasEntry(game, a, i)
        /\ HasEntry(game, a, i) =>
             /\ after.queue[a].work = game.queue[a].work
             /\ after.queue[a].state \in {game.queue[a].state, "suspended"}
        /\ Prepares(after, a, i) =>
             Prepares(game, a, i) /\ (after.prep[a].active => game.prep[a].active)
    BY DEF Aside
  <2>2. HasEntry(game, a, i) => game.queue[a].state \in {"queued", "suspended"}
    BY QueueTypes DEF HasEntry
  <2>3. QED
    BY <2>1, <2>2 DEF HasEntry
<1>4. HasEntry(game, a, i) /\ Prepares(game, a, i) =>
        game.queue[a].work = "resume" /\ ~game.prep[a].active
  BY DEF Sound, HasEntry, Prepares
<1>5. CASE Prepares(after, a, i) /\ after.prep[a].active
  BY <1>1, <1>2, <1>3, <1>5 DEF Leaves, Halts, Meant
<1>6. CASE Prepares(after, a, i) /\ ~after.prep[a].active /\ game.prep[a].active
  BY <1>1, <1>3, <1>4, <1>6 DEF Leaves, Halts, Meant, Halted
<1>7. CASE Prepares(after, a, i) /\ ~after.prep[a].active /\ ~game.prep[a].active
  <2>1. left[i] = phases[i]
    BY <1>1, <1>7 DEF Leaves, Halts
  <2>2. QED
    BY <1>2, <1>3, <1>7, <2>1 DEF Meant, Behind
<1>8. CASE ~Prepares(after, a, i) /\ Prepares(game, a, i)
  BY <1>1, <1>3, <1>4, <1>8 DEF Leaves, Meant
<1>9. CASE ~Prepares(after, a, i) /\ ~Prepares(game, a, i)
  <2>1. left[i] = phases[i]
    BY <1>1, <1>9 DEF Leaves, Halts
  <2>2. QED
    BY <1>2, <1>3, <1>9, <2>1 DEF Meant, Behind
<1>10. QED
  BY <1>5, <1>6, <1>7, <1>8, <1>9 

-----------------------------------------------------------------------------
(* What the entry is about *)

LEMMA NextPhases ==
  /\ NextPhase("suspended", "initial queued") = "initial suspended"
  /\ NextPhase("suspended", "running") = "progress paused"
  /\ NextPhase("suspended", "progress queued") = "progress queue suspended"
  /\ NextPhase("resumed", "initial suspended") = "initial queued"
  /\ NextPhase("resumed", "progress paused") = "progress queued"
  /\ NextPhase("resumed", "progress queue suspended") = "progress queued"
  /\ \A p : NextPhase("cancelled", p) = p
  /\ \A p \in PreparingPhases : NextPhase("escaped", p) = p
  /\ NextPhase("started", "initial queued") = "running"
  /\ NextPhase("failed", "initial queued") = "initial queued"
  /\ NextPhase("continued", "progress queued") = "running"
  /\ NextPhase("continuation failed", "progress queued") = "progress queued"
  BY DEF NextPhase, PreparingPhases

LEMMA CancelledStays ==
  ASSUME NEW p
  PROVE  NextPhase("cancelled", p) = p
  BY NextPhases

LEMMA Nones ==
  /\ NextPhase("suspended", None) = None
  /\ NextPhase("continuation failed", None) = None
  /\ NextPhase("resumed", None) = None
  /\ NextPhase("resumed", "initial queued") = None
  /\ NextPhase("resumed", "progress queued") = None
  /\ NextPhase("failed", "initial suspended") = None
  BY NoneAssumption DEF NextPhase, PreparingPhases, Phases

LEMMA NextPhaseType ==
  ASSUME NEW c, NEW p \in Phases \cup {None}
  PROVE  NextPhase(c, p) \in Phases \cup {None}
  BY DEF NextPhase, PreparingPhases, Phases

\* An entry's own phase fits the game after it; and where its intention is in no
\* phase that allows the entry, its work was overtaken.
Settles(after, e, over) ==
  /\ NextPhase(e.content, phases[e.id]) = None =>
       e.id \in over /\ ~Halts(after, e, e.actor, e.id)
  /\ Halts(after, e, e.actor, e.id) =>
       /\ NextPhase(e.content, phases[e.id]) \in {"running"}
       /\ Halted \in Meant(over, after, e.actor, e.id)
  /\ Leaves(after, e, e.actor, e.id) =>
       /\ Starts(e) \/ Fails(e) \/ Cancels(e)
       /\ None \in Meant(over, after, e.actor, e.id)
  /\ \/ NextPhase(e.content, phases[e.id]) = None
     \/ Halts(after, e, e.actor, e.id)
     \/ Leaves(after, e, e.actor, e.id)
     \/ NextPhase(e.content, phases[e.id]) \in Meant(over, after, e.actor, e.id)

\* Where the work of an identity stands before a step.
LEMMA StandsAt ==
  ASSUME game \in Games, Sound(roots, game), Match(overtaken, roots, game, phases),
         StaleOvertaken(overtaken, game),
         NEW i \in Ids, NEW a \in Actors, roots[i] # None, roots[i].actor = a
  PROVE  /\ HasEntry(game, a, i) /\ game.queue[a].work # "resume" =>
              /\ ~Prepares(game, a, i)
              /\ game.queue[a].state = "queued" => phases[i] \in {"initial queued"}
              /\ game.queue[a].state = "suspended" =>
                   \/ phases[i] \in {"initial suspended"}
                   \/ phases[i] \in {"initial queued"} /\ i \in overtaken
         /\ HasEntry(game, a, i) /\ game.queue[a].work = "resume" /\ Prepares(game, a, i) =>
              /\ ~game.prep[a].active
              /\ game.queue[a].state = "queued" => phases[i] \in {"progress queued"}
              /\ game.queue[a].state = "suspended" =>
                   \/ phases[i] \in {"progress queue suspended"}
                   \/ phases[i] \in {"progress queued"} /\ i \in overtaken
         /\ HasEntry(game, a, i) /\ game.queue[a].work = "resume" /\ ~Prepares(game, a, i) =>
              phases[i] = None /\ i \in overtaken
         /\ Prepares(game, a, i) /\ ~HasEntry(game, a, i) =>
              IF game.prep[a].active THEN phases[i] \in {"running"}
              ELSE phases[i] \in {"progress paused"}
         /\ Prepares(game, a, i) => phases[i] \in PreparingPhases
<1>1. phases[i] \in Meant(overtaken, game, a, i)
  BY DEF Match
<1>2. HasEntry(game, a, i) =>
        /\ game.queue[a].id = i /\ game.queue[a] # None
        /\ game.queue[a].state \in {"queued", "suspended"}
  BY QueueTypes DEF HasEntry
<1>3. HasEntry(game, a, i) /\ Prepares(game, a, i) =>
        game.queue[a].work = "resume" /\ ~game.prep[a].active
  BY DEF Sound, HasEntry, Prepares
<1>4. HasEntry(game, a, i) /\ game.queue[a].work = "resume" /\ ~Prepares(game, a, i) =>
        i \in overtaken
  BY <1>2 DEF StaleOvertaken, Stale, Sound, Prepares
<1>5. HasEntry(game, a, i) /\ game.queue[a].work # "resume" =>
        /\ ~Prepares(game, a, i)
        /\ game.queue[a].state = "queued" => phases[i] \in {"initial queued"}
        /\ game.queue[a].state = "suspended" =>
             \/ phases[i] \in {"initial suspended"}
             \/ phases[i] \in {"initial queued"} /\ i \in overtaken
  BY <1>1, <1>2, <1>3 DEF Meant, Behind
<1>6. HasEntry(game, a, i) /\ game.queue[a].work = "resume" /\ Prepares(game, a, i) =>
        /\ ~game.prep[a].active
        /\ game.queue[a].state = "queued" => phases[i] \in {"progress queued"}
        /\ game.queue[a].state = "suspended" =>
             \/ phases[i] \in {"progress queue suspended"}
             \/ phases[i] \in {"progress queued"} /\ i \in overtaken
  BY <1>1, <1>2, <1>3 DEF Meant, Behind
<1>7. HasEntry(game, a, i) /\ game.queue[a].work = "resume" /\ ~Prepares(game, a, i) =>
        phases[i] = None /\ i \in overtaken
  BY <1>1, <1>4 DEF Meant
<1>8. Prepares(game, a, i) /\ ~HasEntry(game, a, i) =>
        IF game.prep[a].active THEN phases[i] \in {"running"}
        ELSE phases[i] \in {"progress paused"}
  BY <1>1 DEF Meant
<1>9. Prepares(game, a, i) => phases[i] \in PreparingPhases
  BY <1>1, <1>2, <1>3 DEF Meant, Behind, PreparingPhases
<1>10. QED
  BY <1>5, <1>6, <1>7, <1>8, <1>9

\* What a settling step is asked.
Settling(after, e, over) ==
  /\ game \in Games /\ after \in Games
  /\ Sound(roots, game) /\ Match(overtaken, roots, game, phases)
  /\ StaleOvertaken(overtaken, game) /\ overtaken \subseteq over
  /\ e.id \in Ids /\ e.actor \in Actors
  /\ roots[e.id] # None /\ roots[e.id].actor = e.actor

\* Work that was not carried out, is withdrawn or given up leaves nothing.
LEMMA DroppedSettles ==
  ASSUME NEW after, NEW e, NEW over, Settling(after, e, over),
         Fails(e) \/ Cancels(e),
         ~HasEntry(after, e.actor, e.id), ~Prepares(after, e.actor, e.id),
         NextPhase(e.content, phases[e.id]) = None => e.id \in over
  PROVE  Settles(after, e, over)
<1>1. ~Halts(after, e, e.actor, e.id) /\ Leaves(after, e, e.actor, e.id)
  BY DEF Halts, Leaves
<1>2. None \in Meant(over, after, e.actor, e.id)
  BY DEF Meant
<1>3. QED
  BY <1>1, <1>2 DEF Settles

LEMMA FailedSettles ==
  ASSUME NEW after, NEW e, NEW over, Settling(after, e, over),
         ~HasEntry(after, e.actor, e.id), ~Prepares(after, e.actor, e.id),
         HasEntry(game, e.actor, e.id),
         game.queue[e.actor].state = "suspended" => e.actor \in game.dead,
         IF game.queue[e.actor].work = "resume" THEN e.content = "continuation failed"
         ELSE e.content = "failed"
  PROVE  Settles(after, e, over)
<1> DEFINE a == e.actor
           i == e.id
<1>0. game.queue[a].state \in {"queued", "suspended"} /\ game.queue[a] # None
      /\ game.queue[a].id = i
  BY QueueTypes DEF Settling, HasEntry
<1>1. game.queue[a].state = "suspended" => i \in overtaken
  BY <1>0 DEF Settling, StaleOvertaken, Stale
<1>2. CASE game.queue[a].work # "resume"
  <2>1. phases[i] \in {"initial queued"} \/ i \in over
    BY <1>0, <1>1, <1>2, StandsAt DEF Settling
  <2>2. NextPhase(e.content, phases[i]) = None => i \in over
    BY <1>2, <2>1, NextPhases, Names DEF Phases
  <2>3. QED
    BY <1>2, <2>2, DroppedSettles DEF Fails
<1>3. CASE game.queue[a].work = "resume"
  <2>1. phases[i] \in {"progress queued"} \/ i \in over
    BY <1>0, <1>1, <1>3, StandsAt DEF Settling
  <2>2. NextPhase(e.content, phases[i]) = None => i \in over
    BY <1>3, <2>1, NextPhases, Names DEF Phases
  <2>3. QED
    BY <1>3, <2>2, DroppedSettles DEF Fails
<1>4. QED
  BY <1>2, <1>3

LEMMA CancelledSettles ==
  ASSUME NEW after, NEW e, NEW over, Settling(after, e, over),
         ~HasEntry(after, e.actor, e.id), ~Prepares(after, e.actor, e.id),
         HasEntry(game, e.actor, e.id) \/ Prepares(game, e.actor, e.id),
         e.content = "cancelled"
  PROVE  Settles(after, e, over)
<1> DEFINE a == e.actor
           i == e.id
<1>0. HasEntry(game, a, i) => game.queue[a].state \in {"queued", "suspended"}
  BY QueueTypes DEF Settling, HasEntry
<1>1. phases[i] = None => i \in over
  <2>1. \A p \in PreparingPhases : p # None
    BY Names
  <2>2. "initial queued" # None /\ "initial suspended" # None
    BY Names DEF Phases
  <2>3. CASE Prepares(game, a, i)
    BY <2>1, <2>3, StandsAt DEF Settling
  <2>4. CASE ~Prepares(game, a, i) /\ game.queue[a].work = "resume"
    BY <2>4, StandsAt DEF Settling
  <2>5. CASE ~Prepares(game, a, i) /\ game.queue[a].work # "resume"
    BY <1>0, <2>2, <2>5, StandsAt DEF Settling
  <2>6. QED
    BY <2>3, <2>4, <2>5
<1>2. NextPhase(e.content, phases[i]) = phases[i]
  BY CancelledStays
<1>3. QED
  BY <1>1, <1>2, DroppedSettles DEF Cancels

LEMMA EscapedSettles ==
  ASSUME NEW after, NEW e, NEW over, Settling(after, e, over),
         ~HasEntry(after, e.actor, e.id), ~Prepares(after, e.actor, e.id),
         Prepares(game, e.actor, e.id),
         e.content = "escaped"
  PROVE  Settles(after, e, over)
<1>1. phases[e.id] \in PreparingPhases
  BY StandsAt DEF Settling
<1>2. NextPhase(e.content, phases[e.id]) # None
  BY <1>1, NextPhases, Names
<1>3. QED
  BY <1>2, DroppedSettles DEF Cancels

\* Work that is begun or continued runs, is paused, or ends at once.
LEMMA StartedSettles ==
  ASSUME NEW after, NEW e, NEW over, Settling(after, e, over),
         ~HasEntry(after, e.actor, e.id),
         HasEntry(game, e.actor, e.id), game.queue[e.actor].state = "queued",
         \/ e.content = "started" /\ game.queue[e.actor].work # "resume"
         \/ /\ e.content = "continued" /\ game.queue[e.actor].work = "resume"
            /\ Prepares(game, e.actor, e.id)
  PROVE  Settles(after, e, over)
<1> DEFINE a == e.actor
           i == e.id
<1>1. NextPhase(e.content, phases[i]) \in {"running"}
  <2>1. CASE e.content = "started" /\ game.queue[a].work # "resume"
    <3>1. phases[i] \in {"initial queued"}
      BY <2>1, StandsAt DEF Settling
    <3>2. QED
      BY <2>1, <3>1, NextPhases
  <2>2. CASE /\ e.content = "continued" /\ game.queue[a].work = "resume"
             /\ Prepares(game, a, i)
    <3>1. phases[i] \in {"progress queued"}
      BY <2>2, StandsAt DEF Settling
    <3>2. QED
      BY <2>2, <3>1, NextPhases
  <2>3. QED
    BY <2>1, <2>2
<1>2. Starts(e)
  BY DEF Starts
<1>3. "running" # None
  BY Names DEF Phases
<1>4. Prepares(after, a, i) => after.prep[a].active \in BOOLEAN
  BY QueueTypes DEF Settling, Prepares
<1>5. CASE Prepares(after, a, i) /\ after.prep[a].active
  <2>1. ~Halts(after, e, a, i) /\ ~Leaves(after, e, a, i)
    BY <1>5 DEF Halts, Leaves
  <2>2. Meant(over, after, a, i) = {"running"}
    BY <1>5 DEF Meant
  <2>3. QED
    BY <1>1, <1>3, <2>1, <2>2 DEF Settles
<1>6. CASE Prepares(after, a, i) /\ ~after.prep[a].active
  <2>1. ~Leaves(after, e, a, i)
    BY <1>6 DEF Leaves
  <2>2. Halts(after, e, a, i)
    BY <1>2, <1>6 DEF Halts, Starts
  <2>3. Halted \in Meant(over, after, a, i)
    BY <1>6 DEF Meant, Halted
  <2>4. QED
    BY <1>1, <1>3, <2>1, <2>2, <2>3 DEF Settles
<1>7. CASE ~Prepares(after, a, i)
  <2>1. ~Halts(after, e, a, i) /\ Leaves(after, e, a, i)
    BY <1>2, <1>7 DEF Halts, Leaves
  <2>2. None \in Meant(over, after, a, i)
    BY <1>7 DEF Meant
  <2>3. QED
    BY <1>1, <1>2, <1>3, <2>1, <2>2 DEF Settles
<1>8. QED
  BY <1>4, <1>5, <1>6, <1>7

\* A preparation is paused, or queued work suspended.
LEMMA SuspendedSettles ==
  ASSUME NEW after, NEW e, NEW over, Settling(after, e, over), e.content = "suspended",
         \/ /\ Prepares(game, e.actor, e.id) /\ game.prep[e.actor].active
            /\ Prepares(after, e.actor, e.id) /\ ~after.prep[e.actor].active
            /\ after.queue[e.actor] = game.queue[e.actor]
         \/ /\ HasEntry(game, e.actor, e.id) /\ game.queue[e.actor].state = "queued"
            /\ HasEntry(after, e.actor, e.id) /\ after.queue[e.actor].state = "suspended"
            /\ after.queue[e.actor].work = game.queue[e.actor].work
            /\ after.prep[e.actor] = game.prep[e.actor]
  PROVE  Settles(after, e, over)
<1> DEFINE a == e.actor
           i == e.id
<1>0. /\ ~Halts(after, e, a, i)
      /\ (Prepares(game, a, i) => Prepares(after, a, i)) => ~Leaves(after, e, a, i)
  BY DEF Halts, Leaves, Starts, Fails, Cancels
<1>1. CASE /\ Prepares(game, a, i) /\ game.prep[a].active
           /\ Prepares(after, a, i) /\ ~after.prep[a].active
           /\ after.queue[a] = game.queue[a]
  <2>1. ~HasEntry(game, a, i)
    BY <1>1 DEF Settling, Sound, HasEntry, Prepares
  <2>2. phases[i] \in {"running"}
    BY <1>1, <2>1, StandsAt DEF Settling
  <2>3. NextPhase(e.content, phases[i]) \in {"progress paused"}
    BY <2>2, NextPhases
  <2>4. Meant(over, after, a, i) = {"progress paused"}
    BY <1>1, <2>1 DEF Meant, HasEntry
  <2>5. "progress paused" # None
    BY Names DEF Phases
  <2>6. QED
    BY <1>0, <1>1, <2>3, <2>4, <2>5 DEF Settles
<1>2. CASE /\ HasEntry(game, a, i) /\ game.queue[a].state = "queued"
           /\ HasEntry(after, a, i) /\ after.queue[a].state = "suspended"
           /\ after.queue[a].work = game.queue[a].work
           /\ after.prep[a] = game.prep[a]
  <2>0. (Prepares(after, a, i) <=> Prepares(game, a, i)) /\ ~Leaves(after, e, a, i)
    BY <1>0, <1>2 DEF Prepares
  <2>1. CASE game.queue[a].work # "resume"
    <3>1. phases[i] \in {"initial queued"} /\ ~Prepares(after, a, i)
      BY <1>2, <2>0, <2>1, StandsAt DEF Settling
    <3>2. NextPhase(e.content, phases[i]) \in {"initial suspended"}
      BY <3>1, NextPhases
    <3>3. "initial suspended" \in Meant(over, after, a, i)
      BY <1>2, <2>1, <3>1 DEF Meant, Behind
    <3>4. "initial suspended" # None
      BY Names DEF Phases
    <3>5. QED
      BY <1>0, <2>0, <3>2, <3>3, <3>4 DEF Settles
  <2>2. CASE game.queue[a].work = "resume" /\ Prepares(game, a, i)
    <3>1. phases[i] \in {"progress queued"} /\ Prepares(after, a, i) /\ ~after.prep[a].active
      BY <1>2, <2>0, <2>2, StandsAt DEF Settling
    <3>2. NextPhase(e.content, phases[i]) \in {"progress queue suspended"}
      BY <3>1, NextPhases
    <3>3. "progress queue suspended" \in Meant(over, after, a, i)
      BY <1>2, <3>1 DEF Meant, Behind
    <3>4. "progress queue suspended" # None
      BY Names DEF Phases
    <3>5. QED
      BY <1>0, <2>0, <3>2, <3>3, <3>4 DEF Settles
  <2>3. CASE game.queue[a].work = "resume" /\ ~Prepares(game, a, i)
    <3>1. phases[i] = None /\ i \in over
      BY <1>2, <2>3, StandsAt DEF Settling
    <3>2. NextPhase(e.content, phases[i]) = None
      BY <3>1, Nones
    <3>3. QED
      BY <1>0, <2>0, <3>1, <3>2 DEF Settles
  <2>4. QED
    BY <2>1, <2>2, <2>3
<1>3. QED
  BY <1>1, <1>2

\* Suspended work is queued again, or a paused preparation is.
LEMMA ResumedSettles ==
  ASSUME NEW after, NEW e, NEW over, Settling(after, e, over), e.content = "resumed",
         HasEntry(after, e.actor, e.id), after.queue[e.actor].state = "queued",
         after.prep[e.actor] = game.prep[e.actor],
         \/ /\ HasEntry(game, e.actor, e.id) /\ game.queue[e.actor].state = "suspended"
            /\ after.queue[e.actor].work = game.queue[e.actor].work
         \/ game.queue[e.actor] = None /\ Prepares(game, e.actor, e.id)
            /\ ~game.prep[e.actor].active
  PROVE  Settles(after, e, over)
<1> DEFINE a == e.actor
           i == e.id
<1>0. Prepares(after, a, i) <=> Prepares(game, a, i)
  BY DEF Prepares
<1>1. Prepares(game, a, i) => ~game.prep[a].active
  <2>1. CASE HasEntry(game, a, i)
    BY <2>1 DEF Settling, Sound, HasEntry, Prepares
  <2>2. QED
    BY <2>1
<1>2. ~Halts(after, e, a, i) /\ ~Leaves(after, e, a, i)
  BY <1>0, <1>1 DEF Halts, Leaves, Starts, Fails, Cancels
<1>3. CASE /\ HasEntry(game, a, i) /\ game.queue[a].state = "suspended"
           /\ after.queue[a].work = game.queue[a].work
  <2>1. CASE game.queue[a].work # "resume"
    <3>1. /\ \/ phases[i] \in {"initial suspended"}
             \/ phases[i] \in {"initial queued"} /\ i \in over
          /\ ~Prepares(after, a, i)
      BY <1>0, <1>3, <2>1, StandsAt DEF Settling
    <3>2. \/ NextPhase(e.content, phases[i]) \in {"initial queued"}
          \/ NextPhase(e.content, phases[i]) = None /\ i \in over
      BY <3>1, NextPhases, Nones
    <3>3. "initial queued" \in Meant(over, after, a, i)
      BY <1>3, <2>1, <3>1 DEF Meant, Behind
    <3>4. "initial queued" # None
      BY Names DEF Phases
    <3>5. QED
      BY <1>2, <3>2, <3>3, <3>4 DEF Settles
  <2>2. CASE game.queue[a].work = "resume" /\ Prepares(game, a, i)
    <3>1. /\ \/ phases[i] \in {"progress queue suspended"}
             \/ phases[i] \in {"progress queued"} /\ i \in over
          /\ Prepares(after, a, i) /\ ~after.prep[a].active
      BY <1>0, <1>1, <1>3, <2>2, StandsAt DEF Settling
    <3>2. \/ NextPhase(e.content, phases[i]) \in {"progress queued"}
          \/ NextPhase(e.content, phases[i]) = None /\ i \in over
      BY <3>1, NextPhases, Nones
    <3>3. "progress queued" \in Meant(over, after, a, i)
      BY <3>1 DEF Meant, Behind
    <3>4. "progress queued" # None
      BY Names DEF Phases
    <3>5. QED
      BY <1>2, <3>2, <3>3, <3>4 DEF Settles
  <2>3. CASE game.queue[a].work = "resume" /\ ~Prepares(game, a, i)
    <3>1. phases[i] = None /\ i \in over
      BY <1>3, <2>3, StandsAt DEF Settling
    <3>2. NextPhase(e.content, phases[i]) = None
      BY <3>1, Nones
    <3>3. QED
      BY <1>2, <3>1, <3>2 DEF Settles
  <2>4. QED
    BY <2>1, <2>2, <2>3
<1>4. CASE game.queue[a] = None /\ Prepares(game, a, i) /\ ~game.prep[a].active
  <2>1. phases[i] \in {"progress paused"}
    BY <1>4, StandsAt DEF Settling, HasEntry
  <2>2. NextPhase(e.content, phases[i]) \in {"progress queued"}
    BY <2>1, NextPhases
  <2>3. "progress queued" \in Meant(over, after, a, i)
    BY <1>0, <1>4 DEF Meant, Behind
  <2>4. "progress queued" # None
    BY Names DEF Phases
  <2>5. QED
    BY <1>2, <2>2, <2>3, <2>4 DEF Settles
<1>5. QED
  BY <1>3, <1>4

-----------------------------------------------------------------------------
(* Steps keep games sound *)

\* Work only goes, or is changed in place.
Lessened(g, h) ==
  /\ h.next = g.next
  /\ \A b \in Actors :
       /\ h.queue[b] # None =>
            g.queue[b] # None /\ h.queue[b].id = g.queue[b].id /\ h.queue[b].work = g.queue[b].work
       /\ h.prep[b] # None =>
            /\ g.prep[b] # None /\ h.prep[b].id = g.prep[b].id
            /\ h.prep[b].active => g.prep[b].active
            /\ b \in h.dead => b \in g.dead

LEMMA SoundLessened ==
  ASSUME NEW rs, NEW g, NEW h, Sound(rs, g), Lessened(g, h)
  PROVE  Sound(rs, h)
  BY DEF Sound, Lessened

LEMMA PassedLessens ==
  ASSUME NEW g, NEW h, Passed(g, h)
  PROVE  Lessened(g, h)
  BY DEF Passed, Lessened

LEMMA AsidePasses ==
  ASSUME NEW g \in Games, NEW m \in Games, NEW h, NEW i, Aside(g, m, i), Passed(m, h)
  PROVE  Aside(g, h, i)
<1> SUFFICES ASSUME NEW b \in Actors
             PROVE  /\ HasEntry(h, b, i) <=> HasEntry(g, b, i)
                    /\ HasEntry(g, b, i) =>
                         /\ h.queue[b].work = g.queue[b].work
                         /\ h.queue[b].state \in {g.queue[b].state, "suspended"}
                    /\ Prepares(h, b, i) =>
                         Prepares(g, b, i) /\ (h.prep[b].active => g.prep[b].active)
  BY DEF Aside
<1>1. /\ HasEntry(m, b, i) <=> HasEntry(g, b, i)
      /\ HasEntry(g, b, i) =>
           /\ m.queue[b].work = g.queue[b].work
           /\ m.queue[b].state \in {g.queue[b].state, "suspended"}
      /\ Prepares(m, b, i) => Prepares(g, b, i) /\ (m.prep[b].active => g.prep[b].active)
  BY DEF Aside
<1>2. /\ h.queue[b] = None <=> m.queue[b] = None
      /\ m.queue[b] # None =>
           /\ h.queue[b].id = m.queue[b].id /\ h.queue[b].work = m.queue[b].work
           /\ h.queue[b].state \in {m.queue[b].state, "suspended"}
      /\ h.prep[b] # None =>
           /\ m.prep[b] # None /\ h.prep[b].id = m.prep[b].id
           /\ h.prep[b].active => m.prep[b].active
  BY DEF Passed
<1>3. HasEntry(h, b, i) <=> HasEntry(m, b, i)
  BY <1>2 DEF HasEntry
<1>4. HasEntry(m, b, i) =>
        /\ h.queue[b].work = m.queue[b].work
        /\ h.queue[b].state \in {m.queue[b].state, "suspended"}
  BY <1>2 DEF HasEntry
<1>5. Prepares(h, b, i) => Prepares(m, b, i) /\ (h.prep[b].active => m.prep[b].active)
  BY <1>2 DEF Prepares
<1>6. QED
  BY <1>1, <1>3, <1>4, <1>5

\* A new identity, and what was overtaken since, do not disturb an earlier game.
LEMMA ConsistentGrows ==
  ASSUME NEW rs, NEW rs2, NEW over, NEW over2, NEW g \in Games, NEW ph,
         Match(over, rs, g, ph), Sound(rs, g), StaleOvertaken(over, g),
         over \subseteq over2,
         \A i \in Ids : rs[i] # None => rs2[i] = rs[i],
         \A i \in Ids : rs[i] = None /\ rs2[i] # None => rs2[i].actor \in Actors
  PROVE  Match(over2, rs2, g, ph) /\ Sound(rs2, g) /\ StaleOvertaken(over2, g)
<1>1. Sound(rs2, g)
  <2>1. ASSUME NEW a \in Actors
        PROVE  /\ g.queue[a] # None => rs2[g.queue[a].id] = rs[g.queue[a].id]
               /\ g.prep[a] # None => rs2[g.prep[a].id] = rs[g.prep[a].id]
    BY QueueTypes DEF Sound
  <2>2. QED
    BY <2>1 DEF Sound
<1>2. StaleOvertaken(over2, g)
  BY DEF StaleOvertaken
<1>3. ASSUME NEW i \in Ids
      PROVE  IF rs2[i] = None THEN ph[i] = None
             ELSE ph[i] \in Meant(over2, g, rs2[i].actor, i)
  <2>1. IF rs[i] = None THEN ph[i] = None
        ELSE ph[i] \in Meant(over, g, rs[i].actor, i)
    BY DEF Match
  <2>2. CASE rs[i] # None
    <3>1. Meant(over, g, rs[i].actor, i) \subseteq Meant(over2, g, rs[i].actor, i)
      BY DEF Meant, Behind, HasEntry
    <3>2. QED
      BY <2>1, <2>2, <3>1
  <2>3. CASE rs[i] = None /\ rs2[i] # None
    <3>1. ~HasEntry(g, rs2[i].actor, i) /\ ~Prepares(g, rs2[i].actor, i)
      BY <2>3 DEF Sound, HasEntry, Prepares
    <3>2. QED
      BY <2>1, <2>3, <3>1 DEF Meant
  <2>4. CASE rs2[i] = None
    BY <2>1, <2>4
  <2>5. QED
    BY <2>2, <2>3, <2>4
<1>4. QED
  BY <1>1, <1>2, <1>3 DEF Match

-----------------------------------------------------------------------------
(* The acceptor follows an entry *)

LEMMA OwnIs ==
  ASSUME phases \in [Ids -> Phases \cup {None}], NEW e, About(e)
  PROVE  /\ Own(phases, e) \in [Ids -> Phases \cup {None}]
         /\ \A i \in Ids : i # e.id => Own(phases, e)[i] = phases[i]
         /\ e.content = "admitted" => Own(phases, e)[e.id] \in {"initial queued"}
         /\ e.content \in Changes => Own(phases, e)[e.id] = NextPhase(e.content, phases[e.id])
<1>1. CASE e.content = "wizard"
  BY <1>1 DEF Own, About, Changes
<1>2. CASE e.content = "admitted"
  <2>1. e.id \in Ids /\ "initial queued" \in Phases
    BY <1>2 DEF About, Phases
  <2>2. Own(phases, e) = [phases EXCEPT ![e.id] = "initial queued"]
    BY <1>2 DEF Own
  <2>3. QED
    BY <1>2, <2>1, <2>2 DEF Changes
<1>3. CASE e.content \in Changes
  <2>1. e.id \in Ids /\ e.content # "wizard" /\ e.content # "admitted"
    BY <1>3 DEF About, Changes
  <2>2. PICK next : next = NextPhase(e.content, phases[e.id])
    OBVIOUS
  <2>3. Own(phases, e) = [phases EXCEPT ![e.id] = next]
    BY <2>1, <2>2 DEF Own
  <2>4. next \in Phases \cup {None}
    BY <2>1, <2>2, NextPhaseType
  <2>5. QED
    BY <2>1, <2>2, <2>3, <2>4
<1>4. QED
  BY <1>1, <1>2, <1>3 DEF About

\* What an entry's change of the game does, in the terms of the acceptor.
Account(after, e, over, rs) ==
  /\ game \in Games /\ after \in Games /\ phases \in [Ids -> Phases \cup {None}]
  /\ Sound(roots, game) /\ Match(overtaken, roots, game, phases)
  /\ StaleOvertaken(overtaken, game)
  /\ About(e)
  /\ over = overtaken \cup Overtaken(game, after, e)
  /\ Sound(rs, after)
  /\ \A i \in Ids : i # e.id => rs[i] = roots[i] /\ Aside(game, after, i)
  /\ \A i \in Ids : roots[i] # None => roots[i].actor \in Actors
  /\ e.content = "admitted" =>
       /\ rs[e.id] # None /\ rs[e.id].actor = e.actor
       /\ HasEntry(after, e.actor, e.id) /\ after.queue[e.actor].state = "queued"
       /\ after.queue[e.actor].work # "resume"
  /\ e.content \in Changes => rs[e.id] = roots[e.id] /\ Settles(after, e, over)
  /\ \A b \in Actors : Stale(after, b) => HasEntry(game, b, after.queue[b].id)

\* The entry's own phase does not allow it.
Misplaced(e) == e.content \in Changes /\ NextPhase(e.content, phases[e.id]) = None

LEMMA Leaving ==
  ASSUME NEW after, NEW e, NEW over, NEW rs, Account(after, e, over, rs), NEW events,
         NEW left, left = LeftBy(Own(phases, e), after, e, events), NEW i \in Ids
  PROVE  /\ rs[i] = None => left[i] = None
         /\ rs[i] # None /\ ~(i = e.id /\ Misplaced(e)) =>
              left[i] \in Meant(over, after, rs[i].actor, i)
         /\ i = e.id /\ Misplaced(e) => left[i] = None /\ i \in over
<1>0. PICK own : own = Own(phases, e)
  OBVIOUS
<1>1. /\ \A j \in Ids : j # e.id => own[j] = phases[j]
      /\ e.content = "admitted" => own[e.id] \in {"initial queued"}
      /\ e.content \in Changes => own[e.id] = NextPhase(e.content, phases[e.id])
  BY <1>0, OwnIs DEF Account
<1>2. /\ roots[i] = None => left[i] = own[i]
      /\ \A a \in Actors : roots[i] # None /\ roots[i].actor = a =>
           /\ Leaves(after, e, a, i) => left[i] = None
           /\ ~Leaves(after, e, a, i) /\ Halts(after, e, a, i) => left[i] = Halted
           /\ ~Leaves(after, e, a, i) /\ ~Halts(after, e, a, i) => left[i] = own[i]
  <2>1. /\ roots[i] = None => LeftBy(own, after, e, events)[i] = own[i]
        /\ \A a \in Actors : roots[i] # None /\ roots[i].actor = a =>
             /\ Leaves(after, e, a, i) => LeftBy(own, after, e, events)[i] = None
             /\ ~Leaves(after, e, a, i) /\ Halts(after, e, a, i) =>
                  LeftBy(own, after, e, events)[i] = Halted
             /\ ~Leaves(after, e, a, i) /\ ~Halts(after, e, a, i) =>
                  LeftBy(own, after, e, events)[i] = own[i]
    BY LeftIs DEF Account
  <2>2. QED
    BY <1>0, <2>1
<1>3. CASE i # e.id
  <2>1. own[i] = phases[i] /\ rs[i] = roots[i] /\ Aside(game, after, i)
    BY <1>1, <1>3 DEF Account
  <2>2. CASE roots[i] = None
    BY <1>2, <1>3, <2>1, <2>2 DEF Account, Match
  <2>3. CASE roots[i] # None
    <3>1. PICK a \in Actors : roots[i].actor = a
      BY <2>3 DEF Account
    <3>2. HasEntry(after, a, i) /\ after.queue[a].state = "suspended"
            /\ game.queue[a].state = "queued" => i \in over
      <4>1. HasEntry(after, a, i) => HasEntry(game, a, i)
        BY <2>1 DEF Aside
      <4>2. HasEntry(after, a, i) /\ after.queue[a].state = "suspended"
              /\ game.queue[a].state = "queued" => i \in Overtaken(game, after, e)
        BY <1>3, <4>1 DEF Overtaken, HasEntry
      <4>3. QED
        BY <4>2 DEF Account
    <3>3. LeftBy(own, after, e, events)[i] \in Meant(over, after, a, i)
      BY <1>3, <2>1, <2>3, <3>1, <3>2, OthersLeft DEF Account
    <3>4. QED
      BY <1>0, <1>3, <2>1, <2>3, <3>1, <3>3
  <2>4. QED
    BY <2>2, <2>3
<1>4. CASE i = e.id /\ e.content = "admitted"
  <2>1. roots[i] = None /\ rs[i] # None /\ rs[i].actor = e.actor
    BY <1>4 DEF Account, About, Changes
  <2>2. left[i] \in {"initial queued"}
    BY <1>1, <1>2, <1>4, <2>1
  <2>3. e.actor \in Actors
    BY <1>4 DEF Account, About
  <2>4. HasEntry(after, e.actor, i) /\ ~Prepares(after, e.actor, i)
        /\ after.queue[e.actor].state = "queued" /\ after.queue[e.actor].work # "resume"
    BY <1>4, <2>3 DEF Account, Sound, HasEntry, Prepares
  <2>5. Meant(over, after, e.actor, i) = {"initial queued"}
    BY <2>4 DEF Meant, Behind
  <2>6. ~Misplaced(e)
    BY <1>4 DEF Misplaced, Changes
  <2>7. QED
    BY <2>1, <2>2, <2>5, <2>6
<1>5. CASE i = e.id /\ e.content \in Changes
  <2>1. rs[i] = roots[i] /\ roots[i] # None /\ e.actor \in Actors /\ roots[i].actor = e.actor
    BY <1>5 DEF Account, About, Changes
  <2>2. Settles(after, e, over) /\ own[i] = NextPhase(e.content, phases[i])
    BY <1>1, <1>5 DEF Account
  <2>3. /\ Leaves(after, e, e.actor, i) => left[i] = None
        /\ ~Leaves(after, e, e.actor, i) /\ Halts(after, e, e.actor, i) => left[i] = Halted
        /\ ~Leaves(after, e, e.actor, i) /\ ~Halts(after, e, e.actor, i) =>
             left[i] = own[i]
    BY <1>2, <2>1
  <2>4. ~Misplaced(e) => left[i] \in Meant(over, after, e.actor, i)
    BY <1>5, <2>2, <2>3 DEF Settles, Misplaced
  <2>5. Misplaced(e) => left[i] = None /\ i \in over
    BY <1>5, <2>2, <2>3 DEF Settles, Misplaced
  <2>6. QED
    BY <1>5, <2>1, <2>4, <2>5
<1>6. CASE e.content = "wizard"
  BY <1>3, <1>6, Names DEF Account, About, Changes
<1>7. QED
  BY <1>3, <1>4, <1>5, <1>6 DEF Account, About

\* What a phase says of the game.
LEMMA MeantIs ==
  ASSUME NEW over, NEW g \in Games, NEW a \in Actors, NEW i,
         NEW p \in Meant(over, g, a, i) \cup {None}
  PROVE  /\ p \in Phases \cup {None}
         /\ p \in QueuedPhases => HasEntry(g, a, i)
         /\ p \in PreparingPhases => Prepares(g, a, i)
  BY NoneAssumption DEF Meant, Behind, QueuedPhases, PreparingPhases, Phases

\* No two identities of an actor are left in the same place.
LEMMA AllFit ==
  ASSUME NEW after, NEW e, NEW over, NEW rs, Account(after, e, over, rs), NEW events,
         NEW left, left = LeftBy(Own(phases, e), after, e, events),
         NEW i \in Ids, left[i] # None
  PROVE  Fits(left, i, e)
<1>1. ASSUME NEW j \in Ids, left[j] # None
      PROVE  /\ OwnerOf(j, e) \in Actors
             /\ left[j] \in QueuedPhases => HasEntry(after, OwnerOf(j, e), j)
             /\ left[j] \in PreparingPhases => Prepares(after, OwnerOf(j, e), j)
  <2>1. rs[j] # None /\ ~(j = e.id /\ Misplaced(e))
    BY <1>1, Leaving
  <2>2. left[j] \in Meant(over, after, rs[j].actor, j)
    BY <2>1, Leaving
  <2>3. OwnerOf(j, e) = rs[j].actor /\ rs[j].actor \in Actors
    <3>1. CASE j # e.id
      BY <2>1, <3>1 DEF Account, OwnerOf
    <3>2. CASE j = e.id /\ e.content = "admitted"
      BY <3>2 DEF Account, OwnerOf, About, Changes
    <3>3. CASE j = e.id /\ e.content \in Changes
      BY <2>1, <3>3 DEF Account, OwnerOf, About, Changes
    <3>4. CASE j = e.id /\ e.content = "wizard"
      BY <3>4, Names DEF Account, About, Changes
    <3>5. QED
      BY <3>1, <3>2, <3>3, <3>4 DEF Account, About
  <2>4. after \in Games
    BY DEF Account
  <2>5. QED
    BY <2>2, <2>3, <2>4, MeantIs
<1>2. QED
  BY <1>1 DEF Fits, HasEntry, Prepares

\* Suspensions are of what runs.
LEMMA SuspensionsRun ==
  ASSUME NEW after, NEW e, NEW over, NEW rs, Account(after, e, over, rs),
         NEW s \in Suspensions(game, after, e)
  PROVE  Own(phases, e)[s.id] \in {"running"}
<1>1. PICK i, a : i = s.id /\ a = s.actor
  OBVIOUS
<1>2. a \in Actors /\ Halts(after, e, a, i)
  BY <1>1, SuspensionIs DEF Account
<1>3. i \in Ids /\ roots[i] # None /\ roots[i].actor = a
  BY <1>2, HaltsOwned DEF Account
<1>4. CASE i # e.id
  <2>1. Prepares(game, a, i) /\ game.prep[a].active
    BY <1>2, <1>4 DEF Halts
  <2>2. ~HasEntry(game, a, i)
    BY <1>2, <2>1 DEF Account, Sound, HasEntry, Prepares
  <2>3. phases[i] \in {"running"}
    BY <1>2, <1>3, <2>1, <2>2, StandsAt DEF Account
  <2>4. QED
    BY <1>1, <1>3, <1>4, <2>3, OwnIs DEF Account
<1>5. CASE i = e.id
  <2>1. e.content \in Changes /\ a = e.actor
    BY <1>3, <1>5, Names DEF Account, About
  <2>2. NextPhase(e.content, phases[e.id]) \in {"running"}
    BY <1>2, <1>5, <2>1 DEF Account, Settles
  <2>3. Own(phases, e)[e.id] = NextPhase(e.content, phases[e.id])
    BY <2>1, OwnIs DEF Account
  <2>4. QED
    BY <1>1, <1>5, <2>2, <2>3
<1>6. QED
  BY <1>4, <1>5

\* Ends are of what was begun, or of the entry's own intention.
LEMMA EndsBegun ==
  ASSUME NEW after, NEW e, NEW over, NEW rs, Account(after, e, over, rs), NEW events,
         NEW n \in Ends(game, after, e, events)
  PROVE  \/ Own(phases, e)[n.id] \in PreparingPhases
         \/ /\ n.id = e.id /\ (Starts(e) \/ Fails(e) \/ Cancels(e))
            /\ Own(phases, e)[n.id] = None => n.id \in over
<1>1. PICK i, a : i = n.id /\ a = n.actor
  OBVIOUS
<1>2. a \in Actors /\ Leaves(after, e, a, i)
  BY <1>1, EndIs DEF Account
<1>3. i \in Ids /\ roots[i] # None /\ roots[i].actor = a
  BY <1>2, HaltsOwned DEF Account
<1>4. CASE i # e.id
  <2>1. Prepares(game, a, i)
    BY <1>2, <1>4 DEF Leaves
  <2>2. phases[i] \in PreparingPhases
    BY <1>2, <1>3, <2>1, StandsAt DEF Account
  <2>3. QED
    BY <1>1, <1>3, <1>4, <2>2, OwnIs DEF Account
<1>5. CASE i = e.id
  <2>1. e.content \in Changes /\ a = e.actor
    BY <1>3, <1>5, Names DEF Account, About
  <2>2. Starts(e) \/ Fails(e) \/ Cancels(e)
    BY <1>2, <1>5, <2>1 DEF Account, Settles
  <2>3. NextPhase(e.content, phases[e.id]) = None => i \in over
    BY <1>5, <2>1 DEF Account, Settles
  <2>4. Own(phases, e)[e.id] = NextPhase(e.content, phases[e.id])
    BY <2>1, OwnIs DEF Account
  <2>5. QED
    BY <1>1, <1>5, <2>2, <2>3, <2>4
<1>6. QED
  BY <1>4, <1>5

\* An immediate start is resolved by the same entry.
Resolved(e, ends) ==
  e.content = "started" /\ e.action # "prepared" =>
    \E n \in ends : n.id = e.id /\ n.kind = "resolved"

\* An entry is refused only at overtaken identities.
LEMMA RefusesOvertaken ==
  ASSUME NEW after, NEW e, NEW over, NEW rs, Account(after, e, over, rs), NEW events,
         InScope(e, Suspensions(game, after, e), Ends(game, after, e, events)),
         Resolved(e, Ends(game, after, e, events)),
         e.content = "admitted" => Cardinality(Live(phases, e.actor)) < 2
  PROVE  Refusals(e, Suspensions(game, after, e), Ends(game, after, e, events),
                  Own(phases, e), LeftBy(Own(phases, e), after, e, events)) \subseteq over
<1> DEFINE about == IF e.id = None THEN {} ELSE {e.id}
           direct == IF Starts(e) \/ Fails(e) \/ Cancels(e) THEN about ELSE {}
<1>0. PICK own, s, d, left : /\ own = Own(phases, e) /\ s = Suspensions(game, after, e)
                             /\ d = Ends(game, after, e, events)
                             /\ left = LeftBy(Own(phases, e), after, e, events)
  OBVIOUS
<1> SUFFICES Refusals(e, s, d, own, left) \subseteq over
  BY <1>0
<1>1. {o.id : o \in {t \in s : own[t.id] # "running"}} = {}
  BY <1>0, SuspensionsRun
<1>2. ASSUME NEW n \in d,
             own[n.id] \in {None} \cup (IF n.id \in direct THEN {}
                                        ELSE {"initial queued", "initial suspended"})
      PROVE  n.id \in over
  <2>1. \/ own[n.id] \in PreparingPhases
        \/ /\ n.id = e.id /\ (Starts(e) \/ Fails(e) \/ Cancels(e))
           /\ own[n.id] = None => n.id \in over
    BY <1>0, EndsBegun
  <2>2. own[n.id] \notin PreparingPhases
    BY <1>2, NoneAssumption DEF PreparingPhases, Phases
  <2>3. n.id = e.id /\ n.id \in direct /\ (own[n.id] = None => n.id \in over)
    <3>1. n.id \in Ids
      <4>1. n.actor \in Actors /\ Leaves(after, e, n.actor, n.id)
        BY <1>0, EndIs DEF Account
      <4>2. QED
        BY <4>1, HaltsOwned DEF Account
    <3>2. QED
      BY <2>1, <2>2, <3>1, Names
  <2>4. QED
    BY <1>2, <2>3
<1>3. ASSUME NEW i \in about,
             \/ ~InScope(e, s, d) \/ ~OwnAllowed(phases, e)
             \/ e.content = "started" /\ e.action # "prepared"
                /\ ~\E n \in d : n.id = e.id /\ n.kind = "resolved"
      PROVE  i \in over
  <2>1. ~OwnAllowed(phases, e) /\ i = e.id
    BY <1>0, <1>3 DEF Resolved
  <2>2. e.content \in Changes /\ NextPhase(e.content, phases[e.id]) = None
    BY <2>1 DEF OwnAllowed, Account, About, Changes
  <2>3. QED
    BY <2>1, <2>2 DEF Account, Settles
<1>4. {i \in Ids : left[i] # None /\ ~Fits(left, i, e)} = {}
  BY <1>0, AllFit
<1>5. Refusals(e, s, d, own, left) =
        {o.id : o \in {t \in s : own[t.id] # "running"}}
        \cup {n.id : n \in {m \in d :
                 own[m.id] \in {None} \cup
                    (IF m.id \in direct THEN {}
                     ELSE {"initial queued", "initial suspended"})}}
        \cup {i \in about :
                \/ ~InScope(e, s, d) \/ ~OwnAllowed(phases, e)
                \/ e.content = "started" /\ e.action # "prepared"
                   /\ ~\E n \in d : n.id = e.id /\ n.kind = "resolved"}
        \cup {i \in Ids : left[i] # None /\ ~Fits(left, i, e)}
  BY DEF Refusals
<1> HIDE DEF about, direct
<1>6. QED
  BY <1>1, <1>2, <1>3, <1>4, <1>5

\* What an accepted entry leaves is what the game allows.
LEMMA AcceptedMatches ==
  ASSUME NEW after, NEW e, NEW over, NEW rs, Account(after, e, over, rs), NEW events,
         NEW left, left = LeftBy(Own(phases, e), after, e, events),
         ~Misplaced(e)
  PROVE  Match(over, rs, after, left) /\ StaleOvertaken(over, after)
<1>1. Match(over, rs, after, left)
  <2>1. \A i \in Ids : /\ rs[i] = None => left[i] = None
                       /\ rs[i] # None => left[i] \in Meant(over, after, rs[i].actor, i)
    BY Leaving
  <2>2. QED
    BY <2>1 DEF Match
<1>2. StaleOvertaken(over, after)
  <2>1. ASSUME NEW b \in Actors, Stale(after, b)
        PROVE  after.queue[b].id \in over
    <3>1. HasEntry(game, b, after.queue[b].id) /\ after.queue[b] # None
      BY <2>1 DEF Account, Stale
    <3>2. after.queue[b].id \in Overtaken(game, after, e)
      BY <2>1, <3>1 DEF Overtaken, Stale, Prepares
    <3>3. QED
      BY <3>2 DEF Account
  <2>2. QED
    BY <2>1 DEF StaleOvertaken
<1>3. QED
  BY <1>1, <1>2

LEMMA MisplacedRefused ==
  ASSUME NEW e, About(e), Misplaced(e), NEW suspensions, NEW ends, NEW own, NEW left
  PROVE  e.id \in Refusals(e, suspensions, ends, own, left)
<1>1. e.id \in Ids /\ e.id # None /\ e.content # "wizard" /\ e.content # "admitted"
  BY Names DEF About, Misplaced, Changes
<1>2. ~OwnAllowed(phases, e)
  BY <1>1 DEF OwnAllowed, Misplaced
<1>3. QED
  BY <1>1, <1>2 DEF Refusals

LEMMA LeftType ==
  ASSUME NEW after, NEW e, NEW over, NEW rs, Account(after, e, over, rs), NEW events
  PROVE  LeftBy(Own(phases, e), after, e, events) \in [Ids -> Phases \cup {None}]
<1>0. PICK left : left = LeftBy(Own(phases, e), after, e, events)
  OBVIOUS
<1>1. left = [i \in Ids |-> left[i]]
  BY <1>0 DEF LeftBy, Observed
<1>2. ASSUME NEW i \in Ids PROVE left[i] \in Phases \cup {None}
  <2>1. CASE rs[i] = None \/ (i = e.id /\ Misplaced(e))
    BY <1>0, <2>1, Leaving
  <2>2. CASE ~(rs[i] = None \/ (i = e.id /\ Misplaced(e)))
    <3>1. left[i] \in Meant(over, after, rs[i].actor, i) /\ after \in Games
      BY <1>0, <2>2, Leaving DEF Account
    <3>2. QED
      BY <3>1, NoneAssumption DEF Meant, Behind, Phases
  <2>3. QED
    BY <2>1, <2>2
<1>3. QED
  BY <1>0, <1>1, <1>2

-----------------------------------------------------------------------------
(* Work facts an entry may carry *)

LEMMA SuspensionOwned ==
  ASSUME game \in Games, Sound(roots, game), NEW after, NEW e, About(e),
         NEW o \in Suspensions(game, after, e)
  PROVE  /\ o.id \in Ids /\ o.actor \in Actors /\ roots[o.id].actor = o.actor
         /\ Halts(after, e, o.actor, o.id)
<1>1. Halts(after, e, o.actor, o.id) /\ o.actor \in Actors
  BY SuspensionIs
<1>2. o.id \in Ids /\ roots[o.id].actor = o.actor
  BY <1>1, HaltsOwned
<1>3. QED
  BY <1>1, <1>2

LEMMA EndOwned ==
  ASSUME game \in Games, Sound(roots, game), NEW after, NEW e, About(e), NEW events,
         NEW n \in Ends(game, after, e, events)
  PROVE  /\ n.id \in Ids /\ n.actor \in Actors /\ roots[n.id].actor = n.actor
         /\ Leaves(after, e, n.actor, n.id)
<1>1. Leaves(after, e, n.actor, n.id) /\ n.actor \in Actors
  BY EndIs
<1>2. n.id \in Ids /\ roots[n.id].actor = n.actor
  BY <1>1, HaltsOwned
<1>3. QED
  BY <1>1, <1>2

\* An end of the identity an entry is about is its actor's.
LEMMA OwnEnd ==
  ASSUME game \in Games, Sound(roots, game), NEW after, NEW e, About(e), NEW events,
         NEW n \in Ends(game, after, e, events), n.id = e.id, roots[e.id].actor = e.actor
  PROVE  n = [actor |-> e.actor, id |-> e.id,
              kind |-> EndKind(e, [actor |-> e.actor, id |-> e.id], events)]
<1>1. n = [actor |-> n.actor, id |-> n.id,
           kind |-> EndKind(e, [actor |-> n.actor, id |-> n.id], events)]
  BY EndIs
<1>2. roots[n.id].actor = n.actor
  BY EndOwned
<1>3. QED
  BY <1>1, <1>2

LEMMA FactsApart ==
  ASSUME game \in Games, Sound(roots, game), NEW after, NEW e, About(e), NEW events
  PROVE  {o.id : o \in Suspensions(game, after, e)}
           \cap {n.id : n \in Ends(game, after, e, events)} = {}
<1> SUFFICES ASSUME NEW o \in Suspensions(game, after, e),
                    NEW n \in Ends(game, after, e, events), o.id = n.id
             PROVE  FALSE
  OBVIOUS
<1>1. Halts(after, e, o.actor, o.id) /\ roots[o.id].actor = o.actor
  BY SuspensionOwned
<1>2. Leaves(after, e, n.actor, n.id) /\ roots[n.id].actor = n.actor
  BY EndOwned
<1>3. o.actor = n.actor
  BY <1>1, <1>2
<1>4. QED
  BY <1>1, <1>2, <1>3 DEF Halts, Leaves

\* Nothing is suspended or ended but by the entry itself.
LEMMA QuietScope ==
  ASSUME game \in Games, Sound(roots, game), NEW after, NEW e, About(e), NEW events,
         e.content \in {"admitted", "suspended", "resumed"},
         \A b \in Actors, i \in Ids : Prepares(game, b, i) =>
           /\ Prepares(after, b, i)
           /\ game.prep[b].active /\ ~after.prep[b].active =>
                e.content = "suspended" /\ i = e.id
  PROVE  InScope(e, Suspensions(game, after, e), Ends(game, after, e, events))
<1>1. ~Starts(e) /\ ~Fails(e) /\ ~Cancels(e)
  BY DEF Starts, Fails, Cancels
<1>2. ASSUME NEW o \in Suspensions(game, after, e) PROVE FALSE
  <2>1. Halts(after, e, o.actor, o.id) /\ o.actor \in Actors /\ o.id \in Ids
    BY SuspensionOwned
  <2>2. QED
    BY <1>1, <2>1 DEF Halts
<1>3. ASSUME NEW n \in Ends(game, after, e, events) PROVE FALSE
  <2>1. Leaves(after, e, n.actor, n.id) /\ n.actor \in Actors /\ n.id \in Ids
    BY EndOwned
  <2>2. QED
    BY <1>1, <2>1 DEF Leaves
<1>4. PICK s, d : s = Suspensions(game, after, e) /\ d = Ends(game, after, e, events)
  OBVIOUS
<1>5. s = {} /\ d = {} /\ {o.id : o \in s} \cap {n.id : n \in d} = {}
  BY <1>2, <1>3, <1>4
<1>6. InScope(e, s, d)
  BY <1>1, <1>5 DEF InScope
<1>7. QED
  BY <1>4, <1>6

\* Only the entry's own intention ends.
LEMMA EndedScope ==
  ASSUME game \in Games, Sound(roots, game), NEW after, NEW e, About(e),
         NEW events, events = {},
         e.content \in {"cancelled", "failed", "continuation failed"},
         ~Prepares(after, e.actor, e.id),
         \A b \in Actors, i \in Ids : Prepares(game, b, i) /\ i # e.id =>
           Prepares(after, b, i) /\ (game.prep[b].active => after.prep[b].active)
  PROVE  InScope(e, Suspensions(game, after, e), Ends(game, after, e, events))
<1> DEFINE kind == IF e.content = "cancelled" THEN "cancelled" ELSE "failed"
           own == [actor |-> e.actor, id |-> e.id, kind |-> kind]
<1> HIDE DEF own, kind
<1>1. /\ Fails(e) \/ Cancels(e)
      /\ ~Starts(e) /\ e.content # "started" /\ e.content # "suspended" /\ e.content # "escaped"
      /\ e.content = "cancelled" <=> Cancels(e)
      /\ e.content = "cancelled" <=> ~Fails(e)
  BY DEF Starts, Fails, Cancels
<1>2. e.actor \in Actors /\ e.id \in Ids /\ roots[e.id].actor = e.actor
  BY DEF About, Changes
<1>3. EndKind(e, [actor |-> e.actor, id |-> e.id], events) = kind
  BY <1>1 DEF EndKind, kind
<1>4. ASSUME NEW o \in Suspensions(game, after, e) PROVE FALSE
  <2>1. Halts(after, e, o.actor, o.id)
    BY SuspensionOwned
  <2>2. o.id \in Ids /\ o.actor \in Actors /\ roots[o.id].actor = o.actor
    BY SuspensionOwned
  <2>3. Prepares(game, o.actor, o.id) /\ game.prep[o.actor].active
        /\ Prepares(after, o.actor, o.id) /\ ~after.prep[o.actor].active
    BY <1>1, <2>1 DEF Halts
  <2>4. o.id # e.id
    BY <1>2, <2>2, <2>3
  <2>5. QED
    BY <2>1, <2>2, <2>3, <2>4
<1>5. ASSUME NEW n \in Ends(game, after, e, events) PROVE n = own
  <2>1. Leaves(after, e, n.actor, n.id) /\ n.id \in Ids /\ n.actor \in Actors
    BY EndOwned
  <2>2. n.id = e.id
    BY <2>1 DEF Leaves
  <2>3. n = [actor |-> e.actor, id |-> e.id,
             kind |-> EndKind(e, [actor |-> e.actor, id |-> e.id], events)]
    BY <1>2, <2>2, OwnEnd
  <2>4. QED
    BY <1>3, <2>3 DEF own
<1>6. own \in Ends(game, after, e, events)
  <2>1. Leaves(after, e, e.actor, e.id)
    BY <1>1 DEF Leaves
  <2>2. QED
    BY <1>2, <1>3, <2>1, EndMade DEF own
<1>7. PICK s, d : s = Suspensions(game, after, e) /\ d = Ends(game, after, e, events)
  OBVIOUS
<1>8. s = {} /\ d = {own} /\ {o.id : o \in s} \cap {n.id : n \in d} = {}
  BY <1>4, <1>5, <1>6, <1>7
<1>9. InScope(e, s, d)
  <2>1. CASE e.content = "cancelled"
    <3>1. d = {[actor |-> e.actor, id |-> e.id, kind |-> "cancelled"]}
      BY <1>8, <2>1 DEF own, kind
    <3>2. QED
      BY <1>1, <1>8, <2>1, <3>1 DEF InScope
  <2>2. CASE e.content # "cancelled"
    <3>1. d = {[actor |-> e.actor, id |-> e.id, kind |-> "failed"]} /\ Fails(e)
      BY <1>1, <1>8, <2>2 DEF own, kind
    <3>2. QED
      BY <1>1, <1>8, <2>2, <3>1 DEF InScope, Fails
  <2>3. QED
    BY <2>1, <2>2
<1>10. QED
  BY <1>7, <1>9

\* An escape cancels the preparation that is given up.
LEMMA EscapedScope ==
  ASSUME game \in Games, Sound(roots, game), NEW after, NEW e, About(e), NEW events,
         e.content = "escaped", ~Prepares(after, e.actor, e.id), e.id \notin events
  PROVE  InScope(e, Suspensions(game, after, e), Ends(game, after, e, events))
<1>1. Cancels(e) /\ ~Fails(e) /\ e.actor \in Actors
  BY DEF Cancels, Fails, About, Changes
<1>2. EndKind(e, [actor |-> e.actor, id |-> e.id], events) = "cancelled"
  BY <1>1 DEF EndKind
<1>3. Leaves(after, e, e.actor, e.id)
  BY <1>1 DEF Leaves
<1>4. [actor |-> e.actor, id |-> e.id, kind |-> "cancelled"] \in Ends(game, after, e, events)
  BY <1>1, <1>2, <1>3, EndMade
<1>5. QED
  BY <1>1, <1>4, FactsApart DEF InScope

LEMMA FreeScope ==
  ASSUME game \in Games, Sound(roots, game), NEW after, NEW e, About(e), NEW events,
         e.content \in {"started", "continued", "wizard"}
  PROVE  InScope(e, Suspensions(game, after, e), Ends(game, after, e, events))
  BY FactsApart DEF InScope, Fails

LEMMA ImmediateResolved ==
  ASSUME NEW after, NEW e, About(e), NEW events,
         e.content = "started", e.action # "prepared" => ~Prepares(after, e.actor, e.id)
  PROVE  Resolved(e, Ends(game, after, e, events))
<1> SUFFICES ASSUME e.action # "prepared"
             PROVE  \E n \in Ends(game, after, e, events) : n.id = e.id /\ n.kind = "resolved"
  BY DEF Resolved
<1>1. Starts(e) /\ e.actor \in Actors
  BY DEF Starts, About, Changes
<1>2. EndKind(e, [actor |-> e.actor, id |-> e.id], events) = "resolved"
  BY <1>1 DEF EndKind
<1>3. Leaves(after, e, e.actor, e.id)
  BY <1>1 DEF Leaves
<1>4. [actor |-> e.actor, id |-> e.id, kind |-> "resolved"] \in Ends(game, after, e, events)
  BY <1>1, <1>2, <1>3, EndMade
<1>5. QED
  BY <1>4

-----------------------------------------------------------------------------
(* A commit keeps the invariant *)

LEMMA Committed ==
  ASSUME NEW after, NEW e, NEW events, Commit(after, e, events)
  PROVE  /\ refused = {} /\ game' = after
         /\ overtaken' = overtaken \cup Overtaken(game, after, e)
         /\ refused' = Refusals(e, Suspensions(game, after, e), Ends(game, after, e, events),
                                Own(phases, e), LeftBy(Own(phases, e), after, e, events))
         /\ refused' = {} => phases' = LeftBy(Own(phases, e), after, e, events)
         /\ refused' # {} => phases' = phases
         /\ saved' = saved \/ saved' = [game |-> game', phases |-> phases']
  BY DEF Commit, LeftBy, KeepBoundary, Boundary

LEMMA OvertakenType ==
  ASSUME NEW after \in Games, NEW e
  PROVE  Overtaken(game, after, e) \subseteq Ids
  BY QueueTypes DEF Overtaken

LEMMA CommitKeeps ==
  ASSUME IInv, NEW after, NEW e, NEW events, Commit(after, e, events),
         NEW rs, rs = roots',
         Account(after, e, overtaken \cup Overtaken(game, after, e), rs),
         rs \in [Ids -> [actor : Actors, human : BOOLEAN] \cup {None}],
         \A i \in Ids : rs[i] # None <=> i < after.next,
         game.next <= after.next,
         InScope(e, Suspensions(game, after, e), Ends(game, after, e, events)),
         Resolved(e, Ends(game, after, e, events)),
         e.content = "admitted" => Cardinality(Live(phases, e.actor)) < 2
  PROVE  IInv'
<1>1. PICK over, left :
        /\ over = overtaken \cup Overtaken(game, after, e)
        /\ left = LeftBy(Own(phases, e), after, e, events)
  OBVIOUS
<1>2. /\ refused = {} /\ game' = after /\ overtaken' = over
      /\ refused' = Refusals(e, Suspensions(game, after, e), Ends(game, after, e, events),
                             Own(phases, e), LeftBy(Own(phases, e), after, e, events))
      /\ refused' = {} => phases' = left
      /\ refused' # {} => phases' = phases
      /\ saved' = saved \/ saved' = [game |-> game', phases |-> phases']
  BY <1>1, Committed
<1>3. Account(after, e, over, rs)
  BY <1>1
<1>4. after \in Games /\ About(e)
  BY <1>3 DEF Account
<1>5. over \subseteq Ids /\ overtaken \subseteq over
  BY <1>1, <1>4, OvertakenType DEF IInv, TypeOK
<1>6. refused' \subseteq over
  BY <1>2, <1>3, RefusesOvertaken
<1>7. left \in [Ids -> Phases \cup {None}]
  BY <1>1, <1>3, LeftType
<1>8. refused' = {} => ~Misplaced(e)
  BY <1>2, <1>4, MisplacedRefused
<1>9. Sound(rs, after) /\ (refused' = {} => Match(over, rs, after, left)
                                            /\ StaleOvertaken(over, after))
  <2>1. Sound(rs, after)
    BY <1>3 DEF Account
  <2>2. QED
    BY <1>1, <1>3, <1>8, <2>1, AcceptedMatches
<1>10. PICK sg, sp : sg = saved.game /\ sp = saved.phases
  OBVIOUS
<1>11. Match(over, rs, sg, sp) /\ Sound(rs, sg) /\ StaleOvertaken(over, sg)
  <2>1. /\ sg \in Games /\ Match(overtaken, roots, sg, sp) /\ Sound(roots, sg)
        /\ StaleOvertaken(overtaken, sg)
    BY <1>2, <1>10 DEF IInv, TypeOK, Consistent
  <2>2. ASSUME NEW i \in Ids, roots[i] # None PROVE rs[i] = roots[i]
    <3>1. CASE i # e.id
      BY <1>3, <3>1 DEF Account
    <3>2. CASE i = e.id
      <4>1. e.content \in Changes
        BY <1>4, <2>2, <3>2, Names DEF About
      <4>2. QED
        BY <1>3, <3>2, <4>1 DEF Account
    <3>3. QED
      BY <3>1, <3>2
  <2>3. ASSUME NEW i \in Ids, rs[i] # None PROVE rs[i].actor \in Actors
    <3>1. rs[i] \in [actor : Actors, human : BOOLEAN]
      BY <2>3
    <3>2. QED
      BY <3>1
  <2>4. QED
    BY <1>5, <2>1, <2>2, <2>3, ConsistentGrows
<1>12. TypeOK'
  <2>1. phases' \in [Ids -> Phases \cup {None}]
    BY <1>2, <1>7 DEF IInv, TypeOK
  <2>2. saved' \in [game : Games, phases : [Ids -> Phases \cup {None}]]
    BY <1>2, <1>4, <2>1 DEF IInv, TypeOK
  <2>3. QED
    BY <1>2, <1>4, <1>5, <1>6, <2>1, <2>2 DEF TypeOK
<1>13. Given' /\ saved'.game.next <= game'.next
  <2>1. Given'
    BY <1>2 DEF Given
  <2>2. CASE saved' = saved
    <3>1. /\ saved.game.next \in Int /\ game.next \in Int /\ after.next \in Int
          /\ saved.game.next <= game.next
      BY <1>4, IntentionsAssumption, GameTypes DEF IInv, TypeOK
    <3>2. QED
      BY <1>2, <2>1, <2>2, <3>1
  <2>3. CASE saved' = [game |-> game', phases |-> phases']
    <3>1. after.next \in Int
      BY <1>4, IntentionsAssumption, GameTypes
    <3>2. QED
      BY <1>2, <2>1, <2>3, <3>1
  <2>4. QED
    BY <1>2, <2>2, <2>3
<1>14. ASSUME refused' = {}
       PROVE  /\ Match(overtaken', roots', game', phases') /\ Sound(roots', game')
              /\ StaleOvertaken(overtaken', game')
              /\ Match(overtaken', roots', saved'.game, saved'.phases)
              /\ Sound(roots', saved'.game) /\ StaleOvertaken(overtaken', saved'.game)
  <2>1. /\ Match(overtaken', roots', game', phases') /\ Sound(roots', game')
        /\ StaleOvertaken(overtaken', game')
    BY <1>2, <1>9, <1>14
  <2>2. CASE saved' = saved
    <3>1. saved'.game = sg /\ saved'.phases = sp
      BY <1>10, <2>2
    <3>2. QED
      BY <1>2, <1>11, <2>1, <3>1
  <2>3. CASE saved' = [game |-> game', phases |-> phases']
    <3>1. saved'.game = game' /\ saved'.phases = phases'
      BY <2>3
    <3>2. QED
      BY <2>1, <3>1
  <2>4. QED
    BY <1>2, <2>2, <2>3
<1>15. refused' \subseteq overtaken'
  BY <1>2, <1>6
<1>16. QED
  BY <1>12, <1>13, <1>14, <1>15 DEF IInv, Consistent

-----------------------------------------------------------------------------
(* The changes of the actions *)

\* No queue has an entry of another identity.
NoNew(g, h) == \A b \in Actors : h.queue[b] # None => HasEntry(g, b, h.queue[b].id)

\* An actor's queued work of an identity is taken, and perhaps its preparation.
Removes(g, h, a, i) ==
  /\ h \in Games /\ h.next = g.next /\ h.dead = g.dead
  /\ h.queue = IF HasEntry(g, a, i) THEN [g.queue EXCEPT ![a] = None] ELSE g.queue
  /\ \/ h.prep = g.prep
     \/ Prepares(g, a, i) /\ h.prep = [g.prep EXCEPT ![a] = None]

LEMMA RemovesIs ==
  ASSUME NEW g \in Games, NEW h, NEW a \in Actors, NEW i, Removes(g, h, a, i)
  PROVE  /\ Lessened(g, h) /\ NoNew(g, h)
         /\ \A j \in Ids : j # i => Aside(g, h, j)
         /\ ~HasEntry(h, a, i)
<1>0. /\ g.queue \in [Actors -> Entries \cup {None}]
      /\ g.prep \in [Actors -> Preparations \cup {None}]
      /\ h.next = g.next /\ h.dead = g.dead
  BY GameTypes DEF Removes
<1>1. /\ \A b \in Actors \ {a} : h.queue[b] = g.queue[b] /\ h.prep[b] = g.prep[b]
      /\ h.queue[a] = IF HasEntry(g, a, i) THEN None ELSE g.queue[a]
      /\ \/ h.prep[a] = g.prep[a]
         \/ Prepares(g, a, i) /\ h.prep[a] = None
  BY <1>0 DEF Removes
<1>2. Lessened(g, h)
  BY <1>0, <1>1 DEF Lessened
<1>3. NoNew(g, h)
  BY <1>1 DEF NoNew, HasEntry
<1>4. ASSUME NEW j \in Ids, j # i PROVE Aside(g, h, j)
  <2>1. ASSUME NEW b \in Actors
        PROVE  /\ HasEntry(h, b, j) <=> HasEntry(g, b, j)
               /\ HasEntry(g, b, j) =>
                    /\ h.queue[b].work = g.queue[b].work
                    /\ h.queue[b].state \in {g.queue[b].state, "suspended"}
               /\ Prepares(h, b, j) =>
                    Prepares(g, b, j) /\ (h.prep[b].active => g.prep[b].active)
    BY <1>1, <1>4 DEF HasEntry, Prepares
  <2>2. QED
    BY <2>1 DEF Aside
<1>5. ~HasEntry(h, a, i)
  BY <1>1 DEF HasEntry
<1>6. QED
  BY <1>2, <1>3, <1>4, <1>5

\* Queued work of an identity becomes the running preparation.
Begins(g, h, a, i) ==
  /\ h \in Games /\ h.next = g.next /\ h.dead = g.dead
  /\ h.queue = [g.queue EXCEPT ![a] = None]
  /\ h.prep = [g.prep EXCEPT ![a] = [id |-> i, active |-> TRUE]]

LEMMA BeginsIs ==
  ASSUME NEW rs, NEW g \in Games, Sound(rs, g), NEW h, NEW a \in Actors, NEW i \in Ids,
         Begins(g, h, a, i), HasEntry(g, a, i), a \notin g.dead
  PROVE  /\ Sound(rs, h) /\ NoNew(g, h)
         /\ \A j \in Ids : j # i => Aside(g, h, j)
         /\ ~HasEntry(h, a, i)
<1>0. /\ g.queue \in [Actors -> Entries \cup {None}]
      /\ g.prep \in [Actors -> Preparations \cup {None}]
      /\ h.next = g.next /\ h.dead = g.dead
  BY GameTypes DEF Begins
<1>1. /\ \A b \in Actors \ {a} : h.queue[b] = g.queue[b] /\ h.prep[b] = g.prep[b]
      /\ h.queue[a] = None /\ h.prep[a] = [id |-> i, active |-> TRUE]
  BY <1>0 DEF Begins
<1>2. rs[i] # None /\ rs[i].actor = a /\ i < g.next
  BY DEF Sound, HasEntry
<1>3. Sound(rs, h)
  <2>1. ASSUME NEW b \in Actors \ {a}
        PROVE  /\ h.queue[b] = g.queue[b] /\ h.prep[b] = g.prep[b]
    BY <1>1
  <2>2. QED
    BY <1>0, <1>1, <1>2, <2>1 DEF Sound
<1>4. NoNew(g, h)
  BY <1>1 DEF NoNew, HasEntry
<1>5. ASSUME NEW j \in Ids, j # i PROVE Aside(g, h, j)
  <2>1. ASSUME NEW b \in Actors
        PROVE  /\ HasEntry(h, b, j) <=> HasEntry(g, b, j)
               /\ HasEntry(g, b, j) =>
                    /\ h.queue[b].work = g.queue[b].work
                    /\ h.queue[b].state \in {g.queue[b].state, "suspended"}
               /\ Prepares(h, b, j) =>
                    Prepares(g, b, j) /\ (h.prep[b].active => g.prep[b].active)
    BY <1>1, <1>5 DEF HasEntry, Prepares
  <2>2. QED
    BY <2>1 DEF Aside
<1>6. QED
  BY <1>1, <1>3, <1>4, <1>5 DEF HasEntry

LEMMA PassedAfter ==
  ASSUME NEW rs, NEW g \in Games, NEW m \in Games, NEW h, Passed(m, h), NEW a \in Actors, NEW i,
         Sound(rs, m), NoNew(g, m), \A j \in Ids : j # i => Aside(g, m, j),
         ~HasEntry(m, a, i), m.next = g.next
  PROVE  /\ h \in Games /\ h.next = g.next /\ Sound(rs, h) /\ NoNew(g, h)
         /\ \A j \in Ids : j # i => Aside(g, h, j)
         /\ ~HasEntry(h, a, i)
         /\ \A b \in Actors, j \in Ids : Prepares(h, b, j) => Prepares(m, b, j)
<1>1. h \in Games /\ h.next = g.next
  BY DEF Passed
<1>2. Sound(rs, h)
  BY SoundLessened, PassedLessens
<1>3. NoNew(g, h)
  BY DEF NoNew, Passed
<1>4. \A j \in Ids : j # i => Aside(g, h, j)
  BY AsidePasses
<1>5. ~HasEntry(h, a, i)
  BY DEF Passed, HasEntry
<1>6. \A b \in Actors, j \in Ids : Prepares(h, b, j) => Prepares(m, b, j)
  BY DEF Passed, Prepares
<1>7. QED
  BY <1>1, <1>2, <1>3, <1>4, <1>5, <1>6

\* An entry of a change of admitted work.
LEMMA ChangeKeeps ==
  ASSUME IInv, UNCHANGED roots, NEW after \in Games, NEW e, NEW events,
         Commit(after, e, events), after.next = game.next,
         e.id \in Ids, e.actor \in Actors, e.content \in Changes,
         roots[e.id] # None, roots[e.id].actor = e.actor,
         Sound(roots, after), \A i \in Ids : i # e.id => Aside(game, after, i),
         \A over : Settling(after, e, over) /\ over = overtaken \cup Overtaken(game, after, e)
                     => Settles(after, e, over),
         \A b \in Actors : Stale(after, b) => HasEntry(game, b, after.queue[b].id),
         InScope(e, Suspensions(game, after, e), Ends(game, after, e, events)),
         Resolved(e, Ends(game, after, e, events))
  PROVE  IInv'
<1>1. PICK rs : rs = roots'
  OBVIOUS
<1>2. PICK over : over = overtaken \cup Overtaken(game, after, e)
  OBVIOUS
<1>3. /\ game \in Games /\ phases \in [Ids -> Phases \cup {None}]
      /\ roots \in [Ids -> [actor : Actors, human : BOOLEAN] \cup {None}]
  BY DEF IInv, TypeOK
<1>4. Sound(roots, game) /\ Match(overtaken, roots, game, phases) /\ StaleOvertaken(overtaken, game)
  <2>1. refused = {}
    BY Committed
  <2>2. QED
    BY <2>1 DEF IInv, Consistent
<1>5. Settles(after, e, over)
  <2>1. Settling(after, e, over)
    BY <1>2, <1>3, <1>4 DEF Settling
  <2>2. QED
    BY <1>2, <2>1
<1>6. About(e)
  BY DEF About
<1>7. ASSUME NEW i \in Ids, roots[i] # None PROVE roots[i].actor \in Actors
  <2>1. roots[i] \in [actor : Actors, human : BOOLEAN]
    BY <1>3, <1>7
  <2>2. QED
    BY <2>1
<1>8. Account(after, e, over, rs)
  <2>1. rs = roots /\ e.content # "admitted"
    BY <1>1 DEF Changes
  <2>2. QED
    BY <1>2, <1>3, <1>4, <1>5, <1>6, <1>7, <2>1 DEF Account
<1>9. \A i \in Ids : rs[i] # None <=> i < after.next
  BY <1>1 DEF IInv, Given
<1>10. game.next <= after.next
  BY <1>3, GameTypes, IntentionsAssumption
<1>11. QED
  BY <1>1, <1>2, <1>3, <1>8, <1>9, <1>10, CommitKeeps DEF Changes

LEMMA Standing ==
  ASSUME IInv, refused = {}
  PROVE  /\ game \in Games /\ Sound(roots, game) /\ Match(overtaken, roots, game, phases)
         /\ StaleOvertaken(overtaken, game)
         /\ \A a \in Actors, i \in Ids : HasEntry(game, a, i) \/ Prepares(game, a, i) =>
              roots[i] # None /\ roots[i].actor = a
<1>1. /\ game \in Games /\ Sound(roots, game) /\ Match(overtaken, roots, game, phases)
      /\ StaleOvertaken(overtaken, game)
  BY DEF IInv, TypeOK, Consistent
<1>2. \A a \in Actors, i \in Ids : HasEntry(game, a, i) \/ Prepares(game, a, i) =>
        roots[i] # None /\ roots[i].actor = a
  BY <1>1 DEF Sound, HasEntry, Prepares
<1>3. QED
  BY <1>1, <1>2

LEMMA EntryIs ==
  ASSUME NEW content, NEW a, NEW i, NEW action, NEW e, e = Entry(content, a, i, action)
  PROVE  e.content = content /\ e.actor = a /\ e.id = i /\ e.action = action
  BY DEF Entry

\* Work fails or is withdrawn.
LEMMA RemovalKeeps ==
  ASSUME IInv, UNCHANGED roots, NEW after, NEW e, NEW events, Commit(after, e, events), events = {},
         e.id \in Ids, e.actor \in Actors,
         HasEntry(game, e.actor, e.id) \/ Prepares(game, e.actor, e.id),
         Removes(game, after, e.actor, e.id), ~Prepares(after, e.actor, e.id),
         \/ e.content = "cancelled"
         \/ /\ HasEntry(game, e.actor, e.id)
            /\ game.queue[e.actor].state = "suspended" => e.actor \in game.dead
            /\ IF game.queue[e.actor].work = "resume" THEN e.content = "continuation failed"
               ELSE e.content = "failed"
  PROVE  IInv'
<1> DEFINE a == e.actor
           i == e.id
<1>1. /\ game \in Games /\ Sound(roots, game)
      /\ roots[i] # None /\ roots[i].actor = a
  BY Standing, Committed
<1>2. /\ Lessened(game, after) /\ NoNew(game, after)
      /\ \A j \in Ids : j # i => Aside(game, after, j)
      /\ ~HasEntry(after, a, i)
  BY <1>1, RemovesIs
<1>3. Sound(roots, after)
  BY <1>1, <1>2, SoundLessened
<1>4. after \in Games /\ after.next = game.next
  BY DEF Removes
<1>5. e.content \in {"cancelled", "failed", "continuation failed"}
  OBVIOUS
<1>6. About(e)
  BY <1>1, <1>5 DEF About, Changes
<1>7. \A b \in Actors : Stale(after, b) => HasEntry(game, b, after.queue[b].id)
  BY <1>2 DEF NoNew, Stale
<1>8. ASSUME NEW over, Settling(after, e, over) PROVE Settles(after, e, over)
  <2>1. CASE e.content = "cancelled"
    BY <1>2, <1>8, <2>1, CancelledSettles
  <2>2. CASE e.content # "cancelled"
    BY <1>2, <1>8, <2>2, FailedSettles
  <2>3. QED
    BY <2>1, <2>2
<1>9. InScope(e, Suspensions(game, after, e), Ends(game, after, e, events))
  <2>1. ASSUME NEW b \in Actors, NEW j \in Ids, Prepares(game, b, j), j # i
        PROVE  Prepares(after, b, j) /\ (game.prep[b].active => after.prep[b].active)
    <3>1. after.prep[b] = game.prep[b]
      <4>1. game.prep \in [Actors -> Preparations \cup {None}]
        BY <1>1, GameTypes
      <4>2. QED
        BY <2>1, <4>1 DEF Removes, Prepares
    <3>2. QED
      BY <2>1, <3>1 DEF Prepares
  <2>2. QED
    BY <1>1, <1>5, <1>6, <2>1, EndedScope
<1>10. Resolved(e, Ends(game, after, e, events))
  BY <1>5 DEF Resolved
<1>11. e.content \in Changes
  BY <1>5 DEF Changes
<1>12. QED
  BY <1>1, <1>2, <1>3, <1>4, <1>7, <1>8, <1>9, <1>10, <1>11, ChangeKeeps

\* Whose turn it is, and is not dead, has queued work.
LEMMA SelectedQueued ==
  ASSUME NEW a \in Actors, Selected(game, a)
  PROVE  /\ game.queue[a] # None
         /\ a \notin game.dead => game.queue[a].state = "queued"
  BY DEF Selected

LEMMA FailUnavailableKeeps ==
  ASSUME IInv, NEW a \in Actors, FailUnavailable(a)
  PROVE  IInv'
<1>1. PICK i : i = game.queue[a].id
  OBVIOUS
<1>2. PICK content : content = IF game.queue[a].work = "resume" THEN "continuation failed"
                               ELSE "failed"
  OBVIOUS
<1>3. PICK e : e = Entry(content, a, i, None)
  OBVIOUS
<1>4. PICK after : after = Dequeued(game, a)
  OBVIOUS
<1>5. PICK events : events = {}
  OBVIOUS
<1>6. Commit(after, e, events) /\ UNCHANGED roots /\ a \in game.dead
  BY <1>1, <1>2, <1>3, <1>4, <1>5 DEF FailUnavailable
<1>7. e.content = content /\ e.actor = a /\ e.id = i
  BY <1>3, EntryIs
<1>8. game \in Games /\ Sound(roots, game)
  BY <1>6, Committed, Standing
<1>9. HasEntry(game, a, i) /\ i \in Ids /\ game.queue[a] # None
  <2>1. game.queue[a] # None
    BY SelectedQueued DEF FailUnavailable
  <2>2. QED
    BY <1>1, <1>8, <2>1, QueueTypes DEF HasEntry
<1>10. Removes(game, after, a, i)
  BY <1>4, <1>8, <1>9, DequeuedIs DEF Removes
<1>11. ~Prepares(after, a, i)
  <2>1. after.prep = game.prep
    BY <1>4, <1>8, DequeuedIs
  <2>2. game.prep[a] = None
    BY <1>6, <1>8 DEF Sound
  <2>3. QED
    BY <2>1, <2>2 DEF Prepares
<1>12. QED
  BY <1>2, <1>5, <1>6, <1>7, <1>9, <1>10, <1>11, RemovalKeeps

LEMMA FailStartKeeps ==
  ASSUME IInv, NEW a \in Actors, FailStart(a)
  PROVE  IInv'
<1>1. PICK i : i = game.queue[a].id
  OBVIOUS
<1>2. PICK e : e = Entry("failed", a, i, None)
  OBVIOUS
<1>3. PICK after : after = Dequeued(game, a)
  OBVIOUS
<1>4. PICK events : events = {}
  OBVIOUS
<1>5. /\ Commit(after, e, events) /\ UNCHANGED roots /\ a \notin game.dead
      /\ game.queue[a].work # "resume"
  BY <1>1, <1>2, <1>3, <1>4 DEF FailStart
<1>6. e.content = "failed" /\ e.actor = a /\ e.id = i
  BY <1>2, EntryIs
<1>7. game \in Games /\ Sound(roots, game)
  BY <1>5, Committed, Standing
<1>8. HasEntry(game, a, i) /\ i \in Ids /\ game.queue[a] # None /\ game.queue[a].state = "queued"
  <2>1. game.queue[a] # None /\ game.queue[a].state = "queued"
    BY <1>5, SelectedQueued DEF FailStart
  <2>2. QED
    BY <1>1, <1>7, <2>1, QueueTypes DEF HasEntry
<1>9. Removes(game, after, a, i)
  BY <1>3, <1>7, <1>8, DequeuedIs DEF Removes
<1>10. ~Prepares(after, a, i)
  <2>1. after.prep = game.prep
    BY <1>3, <1>7, DequeuedIs
  <2>2. ~Prepares(game, a, i)
    BY <1>5, <1>7, <1>8 DEF Sound, HasEntry, Prepares
  <2>3. QED
    BY <2>1, <2>2 DEF Prepares
<1>11. QED
  BY <1>4, <1>5, <1>6, <1>8, <1>9, <1>10, RemovalKeeps

LEMMA FailContinueKeeps ==
  ASSUME IInv, NEW a \in Actors, FailContinue(a)
  PROVE  IInv'
<1>1. PICK i : i = game.queue[a].id
  OBVIOUS
<1>2. PICK e : e = Entry("continuation failed", a, i, None)
  OBVIOUS
<1>3. PICK m : m = Discarded(game, a, i)
  OBVIOUS
<1>4. PICK after : after = Dequeued(m, a)
  OBVIOUS
<1>5. PICK events : events = {}
  OBVIOUS
<1>6. /\ Commit(after, e, events) /\ UNCHANGED roots /\ a \notin game.dead
      /\ game.queue[a].work = "resume"
  BY <1>1, <1>2, <1>3, <1>4, <1>5 DEF FailContinue
<1>7. e.content = "continuation failed" /\ e.actor = a /\ e.id = i
  BY <1>2 DEF Entry
<1>8. game \in Games /\ Sound(roots, game)
  BY <1>6, Committed, Standing
<1>9. HasEntry(game, a, i) /\ i \in Ids /\ game.queue[a] # None /\ game.queue[a].state = "queued"
  <2>1. game.queue[a] # None /\ game.queue[a].state = "queued"
    BY <1>6, SelectedQueued DEF FailContinue
  <2>2. QED
    BY <1>1, <1>8, <2>1, QueueTypes DEF HasEntry
<1>10. /\ m \in Games
       /\ m.prep = IF Prepares(game, a, i) THEN [game.prep EXCEPT ![a] = None] ELSE game.prep
       /\ m.queue = game.queue /\ m.dead = game.dead /\ m.next = game.next
  BY <1>3, <1>8, DiscardedIs
<1>11. /\ after \in Games /\ after.queue = [m.queue EXCEPT ![a] = None]
       /\ after.prep = m.prep /\ after.dead = m.dead /\ after.next = m.next
  BY <1>4, <1>10, DequeuedIs
<1>12. Removes(game, after, a, i)
  BY <1>9, <1>10, <1>11 DEF Removes
<1>13. ~Prepares(after, a, i)
  <2>1. game.prep \in [Actors -> Preparations \cup {None}]
    BY <1>8, GameTypes
  <2>2. QED
    BY <1>10, <1>11, <2>1 DEF Prepares
<1>14. QED
  BY <1>5, <1>6, <1>7, <1>9, <1>12, <1>13, RemovalKeeps

LEMMA CancelledRemoves ==
  ASSUME game \in Games, NEW a \in Actors, NEW i
  PROVE  Removes(game, Cancelled(game, a, i), a, i) /\ ~Prepares(Cancelled(game, a, i), a, i)
<1>1. PICK h : h = Cancelled(game, a, i)
  OBVIOUS
<1>2. /\ h \in Games
      /\ h.prep = IF Prepares(game, a, i) THEN [game.prep EXCEPT ![a] = None] ELSE game.prep
      /\ h.queue = IF HasEntry(game, a, i) THEN [game.queue EXCEPT ![a] = None] ELSE game.queue
      /\ h.dead = game.dead /\ h.next = game.next
  BY <1>1, CancelledIs
<1>3. Removes(game, h, a, i)
  BY <1>2 DEF Removes
<1>4. ~Prepares(h, a, i)
  <2>1. game.prep \in [Actors -> Preparations \cup {None}]
    BY GameTypes
  <2>2. QED
    BY <1>2, <2>1 DEF Prepares
<1>5. QED
  BY <1>1, <1>3, <1>4

LEMMA WithdrawKeeps ==
  ASSUME IInv, UNCHANGED roots, NEW a \in Actors, NEW i \in Ids,
         HasEntry(game, a, i) \/ Prepares(game, a, i),
         Commit(Cancelled(game, a, i), Entry("cancelled", a, i, None), {})
  PROVE  IInv'
<1>1. PICK after, e, events : /\ after = Cancelled(game, a, i) /\ events = {}
                              /\ e = Entry("cancelled", a, i, None)
  OBVIOUS
<1>2. e.content = "cancelled" /\ e.actor = a /\ e.id = i
  BY <1>1, EntryIs
<1>3. Commit(after, e, events)
  BY <1>1
<1>4. game \in Games
  BY <1>3, Committed, Standing
<1>5. Removes(game, after, a, i) /\ ~Prepares(after, a, i)
  BY <1>1, <1>4, CancelledRemoves
<1>6. QED
  BY <1>1, <1>2, <1>3, <1>5, RemovalKeeps

\* Work is begun, continued or escaped from, and time passes.
LEMMA TimedKeeps ==
  ASSUME IInv, UNCHANGED roots, NEW m \in Games, NEW after, Passed(m, after),
         NEW e, NEW events, Commit(after, e, events),
         e.id \in Ids, e.actor \in Actors,
         HasEntry(game, e.actor, e.id) \/ Prepares(game, e.actor, e.id),
         Sound(roots, m), NoNew(game, m), \A j \in Ids : j # e.id => Aside(game, m, j),
         ~HasEntry(m, e.actor, e.id), m.next = game.next,
         \/ /\ e.content = "started" /\ HasEntry(game, e.actor, e.id)
            /\ game.queue[e.actor].state = "queued" /\ game.queue[e.actor].work # "resume"
            /\ e.action # "prepared" => ~Prepares(m, e.actor, e.id)
         \/ /\ e.content = "continued" /\ HasEntry(game, e.actor, e.id)
            /\ game.queue[e.actor].state = "queued" /\ game.queue[e.actor].work = "resume"
            /\ Prepares(game, e.actor, e.id)
         \/ /\ e.content = "escaped" /\ Prepares(game, e.actor, e.id)
            /\ ~Prepares(m, e.actor, e.id) /\ e.id \notin events
  PROVE  IInv'
<1> DEFINE a == e.actor
           i == e.id
<1>1. /\ game \in Games /\ Sound(roots, game)
      /\ roots[i] # None /\ roots[i].actor = a
  BY Standing, Committed
<1>2. /\ after \in Games /\ after.next = game.next /\ Sound(roots, after) /\ NoNew(game, after)
      /\ \A j \in Ids : j # i => Aside(game, after, j)
      /\ ~HasEntry(after, a, i)
      /\ \A b \in Actors, j \in Ids : Prepares(after, b, j) => Prepares(m, b, j)
  BY <1>1, PassedAfter
<1>3. e.content \in {"started", "continued", "escaped"} /\ e.content \in Changes
  BY DEF Changes
<1>4. About(e)
  BY <1>1, <1>3 DEF About
<1>5. \A b \in Actors : Stale(after, b) => HasEntry(game, b, after.queue[b].id)
  BY <1>2 DEF NoNew, Stale
<1>6. e.content = "escaped" => ~Prepares(after, a, i)
  BY <1>2
<1>7. ASSUME NEW over, Settling(after, e, over) PROVE Settles(after, e, over)
  <2>1. CASE e.content = "escaped"
    BY <1>2, <1>6, <1>7, <2>1, EscapedSettles
  <2>2. CASE e.content # "escaped"
    BY <1>2, <1>7, <2>2, StartedSettles
  <2>3. QED
    BY <2>1, <2>2
<1>8. InScope(e, Suspensions(game, after, e), Ends(game, after, e, events))
  <2>1. CASE e.content = "escaped"
    BY <1>1, <1>4, <1>6, <2>1, EscapedScope
  <2>2. CASE e.content # "escaped"
    BY <1>1, <1>3, <1>4, <2>2, FreeScope
  <2>3. QED
    BY <2>1, <2>2
<1>9. Resolved(e, Ends(game, after, e, events))
  <2>1. CASE e.content = "started"
    <3>1. e.action # "prepared" => ~Prepares(after, a, i)
      BY <1>2, <2>1
    <3>2. QED
      BY <1>4, <2>1, <3>1, ImmediateResolved
  <2>2. CASE e.content # "started"
    BY <2>2 DEF Resolved
  <2>3. QED
    BY <2>1, <2>2
<1>10. QED
  BY <1>1, <1>2, <1>3, <1>5, <1>7, <1>8, <1>9, ChangeKeeps

\* The scheduler's selection, when it is not of the dead.
LEMMA SelectedStands ==
  ASSUME IInv, refused = {}, NEW a \in Actors, Selected(game, a), a \notin game.dead
  PROVE  /\ game.queue[a] # None /\ game.queue[a].id \in Ids /\ game.queue[a].state = "queued"
         /\ HasEntry(game, a, game.queue[a].id)
<1>1. game.queue[a] # None /\ game.queue[a].state = "queued"
  BY SelectedQueued
<1>2. game.queue[a].id \in Ids
  BY <1>1, Standing, QueueTypes
<1>3. QED
  BY <1>1, <1>2 DEF HasEntry

LEMMA IdleKeeps ==
  ASSUME IInv, UNCHANGED roots, NEW a \in Actors, Selected(game, a), a \notin game.dead,
         game.queue[a].work # "resume",
         NEW m, m = Dequeued(game, a), NEW fate \in FateOf(m), NEW action,
         Commit(Fated(m, fate), Entry("started", a, game.queue[a].id, action), Completed(m, fate))
  PROVE  IInv'
<1>1. PICK i : i = game.queue[a].id
  OBVIOUS
<1>2. PICK after, e, events : /\ after = Fated(m, fate) /\ events = Completed(m, fate)
                              /\ e = Entry("started", a, i, action)
  OBVIOUS
<1>3. e.content = "started" /\ e.actor = a /\ e.id = i
  BY <1>2, EntryIs
<1>4. Commit(after, e, events)
  BY <1>1, <1>2
<1>5. refused = {} /\ game \in Games /\ Sound(roots, game)
  BY <1>4, Committed, Standing
<1>6. HasEntry(game, a, i) /\ i \in Ids /\ game.queue[a].state = "queued"
  BY <1>1, <1>5, SelectedStands
<1>7. /\ m \in Games /\ m.queue = [game.queue EXCEPT ![a] = None]
      /\ m.prep = game.prep /\ m.dead = game.dead /\ m.next = game.next
  BY <1>5, DequeuedIs
<1>8. Removes(game, m, a, i)
  BY <1>6, <1>7 DEF Removes
<1>9. /\ Lessened(game, m) /\ NoNew(game, m) /\ \A j \in Ids : j # i => Aside(game, m, j)
      /\ ~HasEntry(m, a, i)
  BY <1>5, <1>8, RemovesIs
<1>10. Sound(roots, m)
  BY <1>5, <1>9, SoundLessened
<1>11. ~Prepares(m, a, i)
  <2>1. ~Prepares(game, a, i)
    BY <1>5, <1>6 DEF Sound, HasEntry, Prepares
  <2>2. QED
    BY <1>7, <2>1 DEF Prepares
<1>12. Passed(m, after)
  BY <1>2, <1>7, FatedPasses
<1>13. QED
  BY <1>3, <1>4, <1>6, <1>7, <1>9, <1>10, <1>11, <1>12, TimedKeeps

\* A new preparation, or a paused one that is continued, runs.
LEMMA BegunKeeps ==
  ASSUME IInv, UNCHANGED roots, NEW a \in Actors, Selected(game, a), a \notin game.dead,
         NEW m, NEW i, i = game.queue[a].id, Begins(game, m, a, i),
         NEW fate \in FateOf(m), NEW e,
         e.actor = a, e.id = i,
         \/ e.content = "started" /\ e.action = "prepared" /\ game.queue[a].work # "resume"
         \/ e.content = "continued" /\ game.queue[a].work = "resume" /\ Prepares(game, a, i),
         Commit(Fated(m, fate), e, Completed(m, fate))
  PROVE  IInv'
<1>1. PICK after, events : after = Fated(m, fate) /\ events = Completed(m, fate)
  OBVIOUS
<1>2. Commit(after, e, events)
  BY <1>1
<1>3. refused = {} /\ game \in Games /\ Sound(roots, game)
  BY <1>2, Committed, Standing
<1>4. HasEntry(game, a, i) /\ i \in Ids /\ game.queue[a].state = "queued"
  BY <1>3, SelectedStands
<1>5. /\ Sound(roots, m) /\ NoNew(game, m) /\ \A j \in Ids : j # i => Aside(game, m, j)
      /\ ~HasEntry(m, a, i)
  BY <1>3, <1>4, BeginsIs
<1>6. m \in Games /\ m.next = game.next
  BY DEF Begins
<1>7. Passed(m, after)
  BY <1>1, <1>6, FatedPasses
<1>8. QED
  BY <1>2, <1>4, <1>5, <1>6, <1>7, TimedKeeps

LEMMA StartKeeps ==
  ASSUME IInv, NEW a \in Actors, Start(a)
  PROVE  IInv'
<1>1. PICK i, m : i = game.queue[a].id /\ m = Dequeued(game, a)
  OBVIOUS
<1>2. PICK begun : begun = [m EXCEPT !.prep[a] = [id |-> i, active |-> TRUE]]
  OBVIOUS
<1>3. UNCHANGED roots /\ Selected(game, a) /\ a \notin game.dead /\ game.queue[a].work # "resume"
  BY DEF Start
<1>4. CASE \E action \in {"immediate", "wait"} : \E fate \in FateOf(m) :
             Commit(Fated(m, fate), Entry("started", a, game.queue[a].id, action),
                    Completed(m, fate))
  BY <1>1, <1>3, <1>4, IdleKeeps
<1>5. CASE \E fate \in FateOf(begun) :
             Commit(Fated(begun, fate), Entry("started", a, i, "prepared"),
                    Completed(begun, fate))
  <2>1. PICK fate \in FateOf(begun) :
          Commit(Fated(begun, fate), Entry("started", a, i, "prepared"), Completed(begun, fate))
    BY <1>5
  <2>2. PICK e : e = Entry("started", a, i, "prepared")
    OBVIOUS
  <2>3. e.content = "started" /\ e.actor = a /\ e.id = i /\ e.action = "prepared"
    BY <2>2, EntryIs
  <2>4. Commit(Fated(begun, fate), e, Completed(begun, fate))
    BY <2>1, <2>2
  <2>5. refused = {} /\ game \in Games
    BY <2>4, Committed, Standing
  <2>6. HasEntry(game, a, i) /\ i \in Ids
    BY <1>1, <1>3, <2>5, SelectedStands
  <2>7. /\ m \in Games /\ m.queue = [game.queue EXCEPT ![a] = None]
        /\ m.prep = game.prep /\ m.dead = game.dead /\ m.next = game.next
    BY <1>1, <2>5, DequeuedIs
  <2>8. Begins(game, begun, a, i)
    <3>1. PICK p : p = [id |-> i, active |-> TRUE]
      OBVIOUS
    <3>2. p \in Preparations
      BY <2>6, <3>1 DEF Preparations
    <3>3. begun = [m EXCEPT !.prep[a] = p]
      BY <1>2, <3>1
    <3>4. /\ begun \in Games /\ begun.prep = [m.prep EXCEPT ![a] = p]
          /\ begun.queue = m.queue /\ begun.dead = m.dead /\ begun.next = m.next
      BY <2>7, <3>2, <3>3, PreparedIs
    <3>5. QED
      BY <2>7, <3>1, <3>4 DEF Begins
  <2>9. QED
    BY <1>1, <1>3, <2>3, <2>4, <2>8, BegunKeeps
<1>6. QED
  BY <1>1, <1>2, <1>4, <1>5 DEF Start

LEMMA ContinueKeeps ==
  ASSUME IInv, NEW a \in Actors, Continue(a)
  PROVE  IInv'
<1>1. PICK i, m : i = game.queue[a].id /\ m = Dequeued(game, a)
  OBVIOUS
<1>2. PICK running : running = [m EXCEPT !.prep[a].active = TRUE]
  OBVIOUS
<1>3. PICK e : e = Entry("continued", a, i, None)
  OBVIOUS
<1>4. /\ UNCHANGED roots /\ Selected(game, a) /\ a \notin game.dead
      /\ game.queue[a].work = "resume" /\ Prepares(game, a, i)
      /\ \E fate \in FateOf(running) : Commit(Fated(running, fate), e, Completed(running, fate))
  BY <1>1, <1>2, <1>3 DEF Continue
<1>5. PICK fate \in FateOf(running) : Commit(Fated(running, fate), e, Completed(running, fate))
  BY <1>4
<1>6. e.content = "continued" /\ e.actor = a /\ e.id = i
  BY <1>3, EntryIs
<1>7. refused = {} /\ game \in Games
  BY <1>5, Committed, Standing
<1>8. /\ m \in Games /\ m.queue = [game.queue EXCEPT ![a] = None]
      /\ m.prep = game.prep /\ m.dead = game.dead /\ m.next = game.next
  BY <1>1, <1>7, DequeuedIs
<1>9. m.prep[a] # None /\ m.prep[a].id = i
  BY <1>4, <1>8 DEF Prepares
<1>10. /\ running \in Games
       /\ running.prep = [m.prep EXCEPT ![a] = [id |-> m.prep[a].id, active |-> TRUE]]
       /\ running.queue = m.queue /\ running.dead = m.dead /\ running.next = m.next
  BY <1>2, <1>8, <1>9, ActiveIs
<1>11. Begins(game, running, a, i)
  BY <1>8, <1>9, <1>10 DEF Begins
<1>12. QED
  BY <1>1, <1>4, <1>5, <1>6, <1>11, BegunKeeps

LEMMA EscapeKeeps ==
  ASSUME IInv, NEW a \in Actors, NEW i \in Ids, Escape(a, i)
  PROVE  IInv'
<1>1. PICK m, e : m = Cancelled(game, a, i) /\ e = Entry("escaped", a, i, None)
  OBVIOUS
<1>2. /\ UNCHANGED roots /\ Prepares(game, a, i)
      /\ \E fate \in FateOf(m) : Commit(Fated(m, fate), e, Completed(m, fate))
  BY <1>1 DEF Escape
<1>3. PICK fate \in FateOf(m) : Commit(Fated(m, fate), e, Completed(m, fate))
  BY <1>2
<1>4. PICK after, events : after = Fated(m, fate) /\ events = Completed(m, fate)
  OBVIOUS
<1>5. Commit(after, e, events)
  BY <1>3, <1>4
<1>6. e.content = "escaped" /\ e.actor = a /\ e.id = i
  BY <1>1, EntryIs
<1>7. game \in Games /\ Sound(roots, game) /\ roots[i] # None /\ roots[i].actor = a
  BY <1>2, <1>5, Committed, Standing
<1>8. Removes(game, m, a, i) /\ ~Prepares(m, a, i)
  BY <1>1, <1>7, CancelledRemoves
<1>9. m \in Games /\ m.next = game.next
  BY <1>8 DEF Removes
<1>10. /\ Lessened(game, m) /\ NoNew(game, m) /\ \A j \in Ids : j # i => Aside(game, m, j)
       /\ ~HasEntry(m, a, i)
  BY <1>7, <1>8, RemovesIs
<1>11. Sound(roots, m)
  BY <1>7, <1>10, SoundLessened
<1>12. Passed(m, after)
  BY <1>4, <1>9, FatedPasses
<1>13. i \notin events
  <2>1. SUFFICES ASSUME i \in Completed(m, fate) PROVE FALSE
    BY <1>4
  <2>2. PICK b \in Actors : Prepares(m, b, i)
    BY <1>9, <2>1, CompletedAre
  <2>3. b = a
    BY <1>7, <1>11, <2>2 DEF Sound, Prepares
  <2>4. QED
    BY <1>8, <2>2, <2>3
<1>14. QED
  BY <1>2, <1>5, <1>6, <1>8, <1>9, <1>10, <1>11, <1>12, <1>13, TimedKeeps

\* A preparation is paused by an entry of its own, or queued work suspended.
LEMMA SuspendKeeps ==
  ASSUME IInv, NEW a \in Actors, NEW i \in Ids, Suspend(a, i)
  PROVE  IInv'
<1>1. PICK after, e, events : /\ after = Suspended(game, a, i) /\ events = {}
                              /\ e = Entry("suspended", a, i, None)
  OBVIOUS
<1>2. /\ Commit(after, e, events) /\ UNCHANGED roots /\ MaySuspend(game, a, i)
      /\ roots[i] # None /\ roots[i].actor = a
  BY <1>1 DEF Suspend, Changeable
<1>3. e.content = "suspended" /\ e.actor = a /\ e.id = i
  BY <1>1, EntryIs
<1>4. game \in Games /\ Sound(roots, game)
  BY <1>2, Committed, Standing
<1>5. /\ game.queue \in [Actors -> Entries \cup {None}]
      /\ game.prep \in [Actors -> Preparations \cup {None}]
  BY <1>4, GameTypes
<1>6. /\ after \in Games /\ after.next = game.next /\ after.dead = game.dead
      /\ \A b \in Actors \ {a} : after.queue[b] = game.queue[b] /\ after.prep[b] = game.prep[b]
      /\ \/ /\ Prepares(game, a, i) /\ game.prep[a].active
            /\ Prepares(after, a, i) /\ ~after.prep[a].active
            /\ after.queue[a] = game.queue[a]
         \/ /\ HasEntry(game, a, i) /\ game.queue[a].state = "queued"
            /\ HasEntry(after, a, i) /\ after.queue[a].state = "suspended"
            /\ after.queue[a].work = game.queue[a].work
            /\ after.prep[a] = game.prep[a]
  <2>1. CASE a \in Humans /\ Prepares(game, a, i) /\ game.prep[a].active
    <3>1. after = [game EXCEPT !.prep[a].active = FALSE]
      BY <1>1, <2>1 DEF Suspended
    <3>2. game.prep[a] # None /\ game.prep[a].id = i
      BY <2>1 DEF Prepares
    <3>3. PICK p : p = [id |-> i, active |-> FALSE]
      OBVIOUS
    <3>4. /\ after \in Games /\ after.prep = [game.prep EXCEPT ![a] = p]
          /\ after.queue = game.queue /\ after.dead = game.dead /\ after.next = game.next
      <4>1. LET h == [game EXCEPT !.prep[a].active = FALSE]
            IN  /\ h \in Games
                /\ h.prep = [game.prep EXCEPT ![a] = [id |-> game.prep[a].id, active |-> FALSE]]
                /\ h.queue = game.queue /\ h.dead = game.dead /\ h.denied = game.denied
                /\ h.next = game.next
        BY <1>4, <3>2, ActiveIs
      <4>2. QED
        BY <3>1, <3>2, <3>3, <4>1
    <3>5. Prepares(after, a, i) /\ ~after.prep[a].active
      <4>1. p \in Preparations /\ p.id = i /\ p.active = FALSE
        BY <3>3 DEF Preparations
      <4>2. p # None
        BY <4>1, NoneAssumption
      <4>3. after.prep[a] = p
        BY <1>5, <3>4
      <4>4. QED
        BY <4>1, <4>2, <4>3 DEF Prepares
    <3>6. QED
      BY <1>5, <2>1, <3>4, <3>5
  <2>2. CASE ~(a \in Humans /\ Prepares(game, a, i) /\ game.prep[a].active)
    <3>1. after = [game EXCEPT !.queue[a].state = "suspended"]
      BY <1>1, <2>2 DEF Suspended
    <3>2. HasEntry(game, a, i) /\ game.queue[a].state = "queued" /\ game.queue[a] # None
      BY <1>2, <2>2 DEF MaySuspend, HasEntry
    <3>3. PICK q : q = [id |-> game.queue[a].id, work |-> game.queue[a].work,
                        origin |-> game.queue[a].origin, state |-> "suspended"]
      OBVIOUS
    <3>4. /\ after \in Games /\ q \in Entries /\ after.queue = [game.queue EXCEPT ![a] = q]
          /\ after.prep = game.prep /\ after.dead = game.dead /\ after.next = game.next
      <4>1. LET h == [game EXCEPT !.queue[a].state = "suspended"]
                r == [id |-> game.queue[a].id, work |-> game.queue[a].work,
                      origin |-> game.queue[a].origin, state |-> "suspended"]
            IN  /\ h \in Games
                /\ r \in Entries /\ h.queue = [game.queue EXCEPT ![a] = r]
                /\ h.prep = game.prep /\ h.dead = game.dead /\ h.denied = game.denied
                /\ h.next = game.next
        BY <1>4, <3>2, RestatedIs
      <4>2. QED
        BY <3>1, <3>3, <4>1
    <3>5. after.queue[a] = q /\ q # None /\ q.id = i /\ q.state = "suspended"
          /\ q.work = game.queue[a].work
      BY <1>5, <3>2, <3>3, <3>4, NoneAssumption DEF HasEntry
    <3>6. QED
      BY <1>5, <3>2, <3>4, <3>5 DEF HasEntry
  <2>3. QED
    BY <2>1, <2>2
<1>7. Lessened(game, after)
  BY <1>6 DEF Lessened, HasEntry, Prepares
<1>8. NoNew(game, after)
  BY <1>6 DEF NoNew, HasEntry
<1>9. ASSUME NEW j \in Ids, j # i PROVE Aside(game, after, j)
  <2>1. ASSUME NEW b \in Actors
        PROVE  /\ HasEntry(after, b, j) <=> HasEntry(game, b, j)
               /\ HasEntry(game, b, j) =>
                    /\ after.queue[b].work = game.queue[b].work
                    /\ after.queue[b].state \in {game.queue[b].state, "suspended"}
               /\ Prepares(after, b, j) =>
                    Prepares(game, b, j) /\ (after.prep[b].active => game.prep[b].active)
    BY <1>6, <1>9 DEF HasEntry, Prepares
  <2>2. QED
    BY <2>1 DEF Aside
<1>10. Sound(roots, after)
  BY <1>4, <1>7, SoundLessened
<1>11. About(e) /\ e.content \in Changes
  BY <1>2, <1>3 DEF About, Changes
<1>12. \A b \in Actors : Stale(after, b) => HasEntry(game, b, after.queue[b].id)
  BY <1>8 DEF NoNew, Stale
<1>13. ASSUME NEW over, Settling(after, e, over) PROVE Settles(after, e, over)
  BY <1>3, <1>6, <1>13, SuspendedSettles
<1>14. InScope(e, Suspensions(game, after, e), Ends(game, after, e, events))
  <2>1. ASSUME NEW b \in Actors, NEW j \in Ids, Prepares(game, b, j)
        PROVE  /\ Prepares(after, b, j)
               /\ game.prep[b].active /\ ~after.prep[b].active => j = i
    BY <1>6, <2>1 DEF Prepares
  <2>2. QED
    BY <1>3, <1>4, <1>11, <2>1, QuietScope
<1>15. Resolved(e, Ends(game, after, e, events))
  BY <1>3 DEF Resolved
<1>16. QED
  BY <1>2, <1>3, <1>6, <1>9, <1>10, <1>11, <1>12, <1>13, <1>14, <1>15, ChangeKeeps

\* Suspended work, or a paused preparation, is queued.
LEMMA ResumedIs ==
  ASSUME NEW g \in Games, NEW a \in Actors, NEW i \in Ids, MayResume(g, a, i),
         NEW after, after = Resumed(g, a, i)
  PROVE  /\ after \in Games /\ after.next = g.next /\ after.dead = g.dead
         /\ after.prep = g.prep
         /\ \A b \in Actors \ {a} : after.queue[b] = g.queue[b]
         /\ HasEntry(after, a, i) /\ after.queue[a].state = "queued"
         /\ \/ /\ HasEntry(g, a, i) /\ g.queue[a].state = "suspended"
               /\ after.queue[a].work = g.queue[a].work
            \/ /\ g.queue[a] = None /\ Prepares(g, a, i)
               /\ ~g.prep[a].active /\ after.queue[a].work = "resume"
<1>1. /\ g.queue \in [Actors -> Entries \cup {None}]
      /\ g.prep \in [Actors -> Preparations \cup {None}]
  BY GameTypes
<1>2. CASE g.queue[a] # None
  <2>0. PICK state \in {"queued", "suspended"} : state = "queued"
    OBVIOUS
  <2>1. after = [g EXCEPT !.queue[a].state = state]
    BY <1>2, <2>0 DEF Resumed
  <2>2. HasEntry(g, a, i) /\ g.queue[a].state = "suspended"
    BY <1>2 DEF MayResume
  <2>3. PICK q : q = [id |-> g.queue[a].id, work |-> g.queue[a].work,
                      origin |-> g.queue[a].origin, state |-> state]
    OBVIOUS
  <2>4. /\ after \in Games /\ q \in Entries /\ after.queue = [g.queue EXCEPT ![a] = q]
        /\ after.prep = g.prep /\ after.dead = g.dead /\ after.next = g.next
    <3>1. LET h == [g EXCEPT !.queue[a].state = state]
              r == [id |-> g.queue[a].id, work |-> g.queue[a].work,
                    origin |-> g.queue[a].origin, state |-> state]
          IN  /\ h \in Games
              /\ r \in Entries /\ h.queue = [g.queue EXCEPT ![a] = r]
              /\ h.prep = g.prep /\ h.dead = g.dead /\ h.denied = g.denied
              /\ h.next = g.next
      BY <1>2, RestatedIs
    <3>2. QED
      BY <2>1, <2>3, <3>1
  <2>5. after.queue[a] = q /\ q # None /\ q.id = i /\ q.state = "queued"
        /\ q.work = g.queue[a].work
    BY <1>1, <2>0, <2>2, <2>3, <2>4, NoneAssumption DEF HasEntry
  <2>6. QED
    BY <1>1, <2>2, <2>4, <2>5 DEF HasEntry
<1>3. CASE g.queue[a] = None
  <2>1. PICK q : q = [id |-> i, work |-> "resume", origin |-> "human", state |-> "queued"]
    OBVIOUS
  <2>2. after = [g EXCEPT !.queue[a] = q]
    BY <1>3, <2>1 DEF Resumed
  <2>3. Prepares(g, a, i) /\ ~g.prep[a].active
    BY <1>3 DEF MayResume
  <2>4. q \in Entries /\ q # None
    BY <2>1, MadeEntries
  <2>5. after = [queue |-> [g.queue EXCEPT ![a] = q], prep |-> g.prep, dead |-> g.dead,
                 denied |-> g.denied, next |-> g.next]
    BY <2>2, GameTypes
  <2>6. [g.queue EXCEPT ![a] = q] \in [Actors -> Entries \cup {None}]
    BY <1>1, <2>4
  <2>7. after \in Games
    BY <2>5, <2>6, GameTypes, MakesGame
  <2>8. q.id = i /\ q.state = "queued" /\ q.work = "resume"
    BY <2>1
  <2>9. /\ after.queue = [g.queue EXCEPT ![a] = q] /\ after.next = g.next
        /\ after.dead = g.dead /\ after.prep = g.prep
    BY <2>5
  <2>10. after.queue[a] = q /\ \A b \in Actors \ {a} : after.queue[b] = g.queue[b]
    BY <1>1, <2>9
  <2>11. HasEntry(after, a, i)
    BY <2>4, <2>8, <2>10 DEF HasEntry
  <2>12. QED
    BY <1>3, <2>3, <2>7, <2>8, <2>9, <2>10, <2>11
<1>4. QED
  BY <1>2, <1>3

LEMMA ResumeKeeps ==
  ASSUME IInv, NEW a \in Actors, NEW i \in Ids, Resume(a, i)
  PROVE  IInv'
<1>1. PICK after, e, events : /\ after = Resumed(game, a, i) /\ events = {}
                              /\ e = Entry("resumed", a, i, None)
  OBVIOUS
<1>2. /\ Commit(after, e, events) /\ UNCHANGED roots /\ MayResume(game, a, i)
      /\ roots[i] # None /\ roots[i].actor = a
  BY <1>1 DEF Resume, Changeable
<1>3. e.content = "resumed" /\ e.actor = a /\ e.id = i
  BY <1>1, EntryIs
<1>4. game \in Games /\ Sound(roots, game)
  BY <1>2, Committed, Standing
<1>5. /\ after \in Games /\ after.next = game.next /\ after.dead = game.dead
      /\ after.prep = game.prep
      /\ \A b \in Actors \ {a} : after.queue[b] = game.queue[b]
      /\ HasEntry(after, a, i) /\ after.queue[a].state = "queued"
      /\ \/ /\ HasEntry(game, a, i) /\ game.queue[a].state = "suspended"
            /\ after.queue[a].work = game.queue[a].work
         \/ /\ game.queue[a] = None /\ Prepares(game, a, i)
            /\ ~game.prep[a].active /\ after.queue[a].work = "resume"
  BY <1>1, <1>2, <1>4, ResumedIs
<1>6. ASSUME NEW j \in Ids, j # i PROVE Aside(game, after, j)
  <2>1. ASSUME NEW b \in Actors
        PROVE  /\ HasEntry(after, b, j) <=> HasEntry(game, b, j)
               /\ HasEntry(game, b, j) =>
                    /\ after.queue[b].work = game.queue[b].work
                    /\ after.queue[b].state \in {game.queue[b].state, "suspended"}
               /\ Prepares(after, b, j) =>
                    Prepares(game, b, j) /\ (after.prep[b].active => game.prep[b].active)
    BY <1>5, <1>6 DEF HasEntry, Prepares
  <2>2. QED
    BY <2>1 DEF Aside
<1>7. Sound(roots, after)
  <2>1. CASE HasEntry(game, a, i) /\ after.queue[a].work = game.queue[a].work
    <3>1. Lessened(game, after)
      BY <1>5, <2>1 DEF Lessened, HasEntry
    <3>2. QED
      BY <1>4, <3>1, SoundLessened
  <2>2. CASE /\ game.queue[a] = None /\ Prepares(game, a, i)
             /\ ~game.prep[a].active /\ after.queue[a].work = "resume"
    <3>1. ASSUME NEW b \in Actors \ {a} PROVE after.queue[b] = game.queue[b]
      BY <1>5
    <3>2. after.queue[a].id = i /\ game.prep[a].id = i /\ i < game.next
      BY <1>4, <1>5, <2>2 DEF HasEntry, Prepares, Sound
    <3>3. QED
      BY <1>2, <1>4, <1>5, <2>2, <3>1, <3>2 DEF Sound
  <2>3. QED
    BY <1>5, <2>1, <2>2
<1>8. About(e) /\ e.content \in Changes
  BY <1>2, <1>3 DEF About, Changes
<1>9. ASSUME NEW b \in Actors, Stale(after, b) PROVE HasEntry(game, b, after.queue[b].id)
  BY <1>5, <1>9 DEF Stale, HasEntry, Prepares
<1>10. ASSUME NEW over, Settling(after, e, over) PROVE Settles(after, e, over)
  BY <1>3, <1>5, <1>10, ResumedSettles
<1>11. InScope(e, Suspensions(game, after, e), Ends(game, after, e, events))
  <2>1. ASSUME NEW b \in Actors, NEW j \in Ids, Prepares(game, b, j)
        PROVE  /\ Prepares(after, b, j)
               /\ ~(game.prep[b].active /\ ~after.prep[b].active)
    BY <1>5, <2>1 DEF Prepares
  <2>2. QED
    BY <1>3, <1>4, <1>8, <2>1, QuietScope
<1>12. Resolved(e, Ends(game, after, e, events))
  BY <1>3 DEF Resolved
<1>13. QED
  BY <1>2, <1>3, <1>5, <1>6, <1>7, <1>8, <1>9, <1>10, <1>11, <1>12, ChangeKeeps

\* An actor with a free slot has at most its preparation alive.
LEMMA OnePlace ==
  ASSUME game \in Games, Match(overtaken, roots, game, phases),
         NEW a \in Actors, game.queue[a] = None
  PROVE  Cardinality(Live(phases, a)) < 2
<1>1. ASSUME NEW i \in Live(phases, a) PROVE game.prep[a] # None /\ i = game.prep[a].id
  <2>1. i \in Ids /\ phases[i] # None /\ roots[i].actor = a
    BY DEF Live
  <2>2. phases[i] \in Meant(overtaken, game, a, i)
    BY <2>1 DEF Match
  <2>3. ~HasEntry(game, a, i)
    BY DEF HasEntry
  <2>4. Prepares(game, a, i)
    BY <2>1, <2>2, <2>3 DEF Meant
  <2>5. QED
    BY <2>4 DEF Prepares
<1>2. CASE Live(phases, a) = {}
  <2>1. Cardinality(Live(phases, a)) = 0
    BY <1>2, FS_EmptySet
  <2>2. QED
    BY <2>1
<1>3. CASE Live(phases, a) # {}
  <2>1. PICK i : i \in Live(phases, a)
    BY <1>3
  <2>2. Live(phases, a) = {i}
    BY <1>1, <2>1
  <2>3. Cardinality({i}) = 1
    BY FS_Singleton
  <2>4. QED
    BY <2>2, <2>3
<1>4. QED
  BY <1>2, <1>3

LEMMA AdmittedKeeps ==
  ASSUME IInv, NEW a \in Actors, NEW work \in {"action", "decision"},
         NEW origin \in {"human", "travel", "autonomous"}, Admitted(a, work, origin)
  PROVE  IInv'
<1>1. PICK n, e, after, events :
        /\ n = game.next /\ e = Entry("admitted", a, game.next, None)
        /\ after = Inserted(game, a, work, origin) /\ events = {}
  OBVIOUS
<1>2. PICK root : root = [actor |-> a, human |-> origin = "human"]
  OBVIOUS
<1>3. /\ Commit(after, e, events) /\ game.queue[a] = None /\ n \in Ids
      /\ roots' = IF roots[n] = None THEN [roots EXCEPT ![n] = root] ELSE roots
  BY <1>1, <1>2 DEF Admitted, FreeSlot
<1>4. e.content = "admitted" /\ e.actor = a /\ e.id = n
  BY <1>1, EntryIs
<1>5. /\ refused = {} /\ game \in Games /\ Sound(roots, game)
      /\ Match(overtaken, roots, game, phases) /\ StaleOvertaken(overtaken, game)
  BY <1>3, Committed, Standing
<1>6. /\ roots \in [Ids -> [actor : Actors, human : BOOLEAN] \cup {None}]
      /\ phases \in [Ids -> Phases \cup {None}]
      /\ game.queue \in [Actors -> Entries \cup {None}]
      /\ n \in Nat
  BY <1>3, <1>5, GameTypes, Names DEF IInv, TypeOK
<1>7. roots[n] = None
  BY <1>1, <1>3, <1>6 DEF IInv, Given
<1>8. PICK rs : rs = roots'
  OBVIOUS
<1>9. rs = [roots EXCEPT ![n] = root] /\ root \in [actor : Actors, human : BOOLEAN] /\ root # None
      /\ root.actor = a
  <2>1. root \in [actor : Actors, human : BOOLEAN] /\ root.actor = a
    BY <1>2
  <2>2. QED
    BY <1>3, <1>7, <1>8, <2>1, NoneAssumption
<1>10. /\ rs \in [Ids -> [actor : Actors, human : BOOLEAN] \cup {None}]
       /\ rs[n] = root /\ \A i \in Ids : i # n => rs[i] = roots[i]
  BY <1>3, <1>6, <1>9
<1>11. PICK q : q = [id |-> n, work |-> work, origin |-> origin, state |-> "queued"]
  OBVIOUS
<1>12. /\ after \in Games /\ after.prep = game.prep /\ after.dead = game.dead
       /\ after.next = n + 1 /\ after.queue = [game.queue EXCEPT ![a] = q]
  <2>1. game.next \in Ids /\ work \in {"action", "decision", "resume"}
    BY <1>1, <1>3
  <2>2. q = [id |-> game.next, work |-> work, origin |-> origin, state |-> "queued"]
    BY <1>1, <1>11
  <2>3. /\ after \in Games /\ after.queue = [game.queue EXCEPT ![a] = q]
        /\ after.prep = game.prep /\ after.dead = game.dead /\ after.next = game.next + 1
    BY <1>1, <1>5, <2>1, <2>2, InsertedIs
  <2>4. QED
    BY <1>1, <2>3
<1>13. q.id = n /\ q # None /\ q.state = "queued" /\ q.work # "resume"
  <2>1. q \in Entries
    BY <1>3, <1>11 DEF Entries
  <2>2. q # None
    BY <2>1, NoneAssumption
  <2>3. QED
    BY <1>11, <2>2
<1>14. after.queue[a] = q /\ \A b \in Actors \ {a} : after.queue[b] = game.queue[b]
  BY <1>6, <1>12
<1>15. HasEntry(after, a, n)
  BY <1>13, <1>14 DEF HasEntry
<1>16. ASSUME NEW b \in Actors
       PROVE  /\ game.queue[b] # None => game.queue[b].id \in Ids /\ game.queue[b].id < n
              /\ game.prep[b] # None => game.prep[b].id \in Ids /\ game.prep[b].id < n
  BY <1>1, <1>5, QueueTypes DEF Sound
<1>17. \A i \in Ids : i < n => i # n /\ i < n + 1
  BY <1>6, Names
<1>18. Sound(rs, after)
  <2>1. ASSUME NEW b \in Actors
        PROVE  /\ after.prep[b] # None =>
                    /\ rs[after.prep[b].id] # None /\ rs[after.prep[b].id].actor = b
                    /\ after.prep[b].id < after.next /\ b \notin after.dead
                    /\ after.prep[b].id # n
    <3>1. after.prep[b] = game.prep[b] /\ after.dead = game.dead
      BY <1>12
    <3>2. game.prep[b] # None =>
            /\ roots[game.prep[b].id] # None /\ roots[game.prep[b].id].actor = b
            /\ b \notin game.dead
      BY <1>5 DEF Sound
    <3>3. QED
      BY <1>10, <1>12, <1>16, <1>17, <3>1, <3>2
  <2>2. ASSUME NEW b \in Actors \ {a}
        PROVE  /\ after.queue[b] # None =>
                    /\ rs[after.queue[b].id] # None /\ rs[after.queue[b].id].actor = b
                    /\ after.queue[b].id < after.next
               /\ after.queue[b] # None /\ after.prep[b] # None =>
                    IF after.queue[b].work = "resume"
                    THEN after.queue[b].id = after.prep[b].id /\ ~after.prep[b].active
                    ELSE after.queue[b].id # after.prep[b].id
    <3>1. after.prep[b] = game.prep[b] /\ after.queue[b] = game.queue[b]
      BY <1>12, <1>14
    <3>2. game.queue[b] # None =>
            /\ roots[game.queue[b].id] # None /\ roots[game.queue[b].id].actor = b
      BY <1>5 DEF Sound
    <3>3. game.queue[b] # None /\ game.prep[b] # None =>
            IF game.queue[b].work = "resume"
            THEN game.queue[b].id = game.prep[b].id /\ ~game.prep[b].active
            ELSE game.queue[b].id # game.prep[b].id
      BY <1>5 DEF Sound
    <3>4. game.queue[b] # None =>
            /\ rs[game.queue[b].id] = roots[game.queue[b].id]
            /\ game.queue[b].id < after.next
      BY <1>10, <1>12, <1>16, <1>17
    <3>5. QED
      BY <3>1, <3>2, <3>3, <3>4
  <2>3. /\ rs[after.queue[a].id] # None /\ rs[after.queue[a].id].actor = a
        /\ after.queue[a].id < after.next /\ after.queue[a].work # "resume"
        /\ after.queue[a].id = n
    BY <1>6, <1>9, <1>10, <1>12, <1>13, <1>14
  <2>4. ASSUME NEW b \in Actors
        PROVE  /\ after.queue[b] # None =>
                    /\ rs[after.queue[b].id] # None /\ rs[after.queue[b].id].actor = b
                    /\ after.queue[b].id < after.next
               /\ after.queue[b] # None /\ after.prep[b] # None =>
                    IF after.queue[b].work = "resume"
                    THEN after.queue[b].id = after.prep[b].id /\ ~after.prep[b].active
                    ELSE after.queue[b].id # after.prep[b].id
    <3>1. CASE b = a
      BY <2>1, <2>3, <3>1
    <3>2. CASE b # a
      BY <2>2, <3>2
    <3>3. QED
      BY <3>1, <3>2
  <2>5. QED
    BY <2>1, <2>4 DEF Sound
<1>19. ASSUME NEW i \in Ids, i # n PROVE Aside(game, after, i)
  <2>1. ASSUME NEW b \in Actors
        PROVE  /\ HasEntry(after, b, i) <=> HasEntry(game, b, i)
               /\ HasEntry(game, b, i) =>
                    /\ after.queue[b].work = game.queue[b].work
                    /\ after.queue[b].state \in {game.queue[b].state, "suspended"}
               /\ Prepares(after, b, i) =>
                    Prepares(game, b, i) /\ (after.prep[b].active => game.prep[b].active)
    BY <1>3, <1>12, <1>13, <1>14, <1>19 DEF HasEntry, Prepares
  <2>2. QED
    BY <2>1 DEF Aside
<1>20. ASSUME NEW b \in Actors, Stale(after, b) PROVE HasEntry(game, b, after.queue[b].id)
  BY <1>13, <1>14, <1>20 DEF Stale, HasEntry
<1>21. About(e) /\ e.content \notin Changes
  BY <1>3, <1>4, <1>7 DEF About, Changes
<1>22. ASSUME NEW i \in Ids, roots[i] # None PROVE roots[i].actor \in Actors
  <2>1. roots[i] \in [actor : Actors, human : BOOLEAN]
    BY <1>6, <1>22
  <2>2. QED
    BY <2>1
<1>23. PICK over : over = overtaken \cup Overtaken(game, after, e)
  OBVIOUS
<1>24. Account(after, e, over, rs)
  <2>1. rs[e.id] # None /\ rs[e.id].actor = e.actor
    BY <1>4, <1>9, <1>10
  <2>2. /\ HasEntry(after, e.actor, e.id) /\ after.queue[e.actor].state = "queued"
        /\ after.queue[e.actor].work # "resume"
    BY <1>4, <1>13, <1>14, <1>15
  <2>3. \A i \in Ids : i # e.id => rs[i] = roots[i] /\ Aside(game, after, i)
    BY <1>4, <1>10, <1>19
  <2>4. QED
    BY <1>5, <1>6, <1>12, <1>18, <1>20, <1>21, <1>22, <1>23, <2>1, <2>2, <2>3 DEF Account
<1>25. \A i \in Ids : rs[i] # None <=> i < after.next
  <2>1. ASSUME NEW i \in Ids PROVE rs[i] # None <=> i < n + 1
    <3>1. CASE i = n
      BY <1>6, <1>9, <1>10, <3>1
    <3>2. CASE i # n
      <4>1. roots[i] # None <=> i < n
        BY <1>1 DEF IInv, Given
      <4>2. i < n <=> i < n + 1
        BY <1>6, <3>2, Names
      <4>3. QED
        BY <1>10, <3>2, <4>1, <4>2
    <3>3. QED
      BY <3>1, <3>2
  <2>2. QED
    BY <1>12, <2>1
<1>26. game.next <= after.next
  BY <1>1, <1>6, <1>12
<1>27. InScope(e, Suspensions(game, after, e), Ends(game, after, e, events))
  <2>1. ASSUME NEW b \in Actors, NEW i \in Ids, Prepares(game, b, i)
        PROVE  /\ Prepares(after, b, i)
               /\ ~(game.prep[b].active /\ ~after.prep[b].active)
    BY <1>12, <2>1 DEF Prepares
  <2>2. QED
    BY <1>4, <1>5, <1>21, <2>1, QuietScope
<1>28. Resolved(e, Ends(game, after, e, events))
  BY <1>4 DEF Resolved
<1>29. Cardinality(Live(phases, e.actor)) < 2
  BY <1>3, <1>4, <1>5, OnePlace
<1>30. QED
  BY <1>3, <1>8, <1>10, <1>23, <1>24, <1>25, <1>26, <1>27, <1>28, <1>29, CommitKeeps

\* A privileged change is about nobody.
LEMMA WizardKeeps ==
  ASSUME IInv, Wizard
  PROVE  IInv'
<1>1. PICK e : e = Entry("wizard", None, None, None)
  OBVIOUS
<1>2. PICK fate \in FateOf(game) : Commit(Fated(game, fate), e, Completed(game, fate))
  BY <1>1 DEF Wizard
<1>3. PICK after, events, rs : /\ after = Fated(game, fate) /\ events = Completed(game, fate)
                               /\ rs = roots'
  OBVIOUS
<1>4. Commit(after, e, events) /\ rs = roots
  BY <1>2, <1>3 DEF Wizard
<1>5. e.content = "wizard" /\ e.id = None
  BY <1>1, EntryIs
<1>6. /\ refused = {} /\ game \in Games /\ Sound(roots, game)
      /\ Match(overtaken, roots, game, phases) /\ StaleOvertaken(overtaken, game)
  BY <1>4, Committed, Standing
<1>7. /\ roots \in [Ids -> [actor : Actors, human : BOOLEAN] \cup {None}]
      /\ phases \in [Ids -> Phases \cup {None}]
  BY DEF IInv, TypeOK
<1>8. Passed(game, after)
  BY <1>3, <1>6, FatedPasses
<1>9. after \in Games /\ after.next = game.next /\ Sound(roots, after)
  BY <1>6, <1>8, SoundLessened, PassedLessens DEF Passed
<1>10. ASSUME NEW i \in Ids PROVE Aside(game, after, i)
  <2>1. Aside(game, game, i)
    BY DEF Aside
  <2>2. QED
    BY <1>6, <1>8, <2>1, AsidePasses
<1>11. ASSUME NEW b \in Actors, Stale(after, b) PROVE HasEntry(game, b, after.queue[b].id)
  BY <1>8, <1>11 DEF Passed, Stale, HasEntry
<1>12. About(e) /\ e.content \notin Changes
  BY <1>5 DEF About, Changes
<1>13. ASSUME NEW i \in Ids, roots[i] # None PROVE roots[i].actor \in Actors
  <2>1. roots[i] \in [actor : Actors, human : BOOLEAN]
    BY <1>7, <1>13
  <2>2. QED
    BY <2>1
<1>14. PICK over : over = overtaken \cup Overtaken(game, after, e)
  OBVIOUS
<1>15. Account(after, e, over, rs)
  <2>1. e.content # "admitted"
    BY <1>5
  <2>2. QED
    BY <1>4, <1>6, <1>7, <1>9, <1>10, <1>11, <1>12, <1>13, <1>14, <2>1 DEF Account
<1>16. \A i \in Ids : rs[i] # None <=> i < after.next
  BY <1>4, <1>9 DEF IInv, Given
<1>17. game.next <= after.next
  BY <1>6, <1>9, GameTypes, IntentionsAssumption
<1>18. InScope(e, Suspensions(game, after, e), Ends(game, after, e, events))
  BY <1>5, <1>6, <1>12, FreeScope
<1>19. Resolved(e, Ends(game, after, e, events))
  BY <1>5 DEF Resolved
<1>20. QED
  BY <1>3, <1>4, <1>5, <1>7, <1>14, <1>15, <1>16, <1>17, <1>18, <1>19, CommitKeeps

\* A rewind gives the identities of the abandoned branch to nobody else.
LEMMA ContinuedIs ==
  ASSUME NEW g \in Games, NEW h \in Games, g.next <= h.next, NEW c, c = Continued(g, h)
  PROVE  /\ c \in Games /\ c.queue = g.queue /\ c.prep = g.prep /\ c.dead = g.dead
         /\ c.next = h.next
<1>1. g = [queue |-> g.queue, prep |-> g.prep, dead |-> g.dead,
           denied |-> g.denied, next |-> g.next]
  BY GameTypes
<1>2. g.next \in Int /\ h.next \in Int /\ h.next \in 1..MaxIntentions + 1
  BY GameTypes, IntentionsAssumption
<1>3. PICK n : n = IF h.next > g.next THEN h.next ELSE g.next
  OBVIOUS
<1>4. n = h.next
  BY <1>2, <1>3
<1>5. c = [g EXCEPT !.next = n]
  BY <1>3 DEF Continued
<1>6. c = [queue |-> g.queue, prep |-> g.prep, dead |-> g.dead,
           denied |-> g.denied, next |-> n]
  BY <1>1, <1>5
<1>7. c \in Games
  BY <1>2, <1>4, <1>6, GameTypes, MakesGame
<1>8. QED
  BY <1>4, <1>6, <1>7

LEMMA RewindKeeps ==
  ASSUME IInv, Rewind
  PROVE  IInv'
<1>1. PICK sg, sp : sg = saved.game /\ sp = saved.phases
  OBVIOUS
<1>2. /\ refused = {} /\ game' = Continued(sg, game) /\ phases' = sp
      /\ UNCHANGED <<roots, refused, overtaken>>
      /\ saved' = saved \/ saved' = [game |-> game', phases |-> phases']
  BY <1>1 DEF Rewind, KeepBoundary, Boundary
<1>3. /\ game \in Games /\ sg \in Games /\ sp \in [Ids -> Phases \cup {None}]
      /\ sg.next <= game.next
  BY <1>1 DEF IInv, TypeOK
<1>4. PICK c : c = Continued(sg, game)
  OBVIOUS
<1>5. /\ c \in Games /\ c.queue = sg.queue /\ c.prep = sg.prep /\ c.dead = sg.dead
      /\ c.next = game.next
  BY <1>3, <1>4, ContinuedIs
<1>6. Match(overtaken, roots, sg, sp) /\ Sound(roots, sg) /\ StaleOvertaken(overtaken, sg)
  BY <1>1, <1>2 DEF IInv, Consistent
<1>7. Match(overtaken, roots, c, sp)
  <2>1. ASSUME NEW a, NEW i PROVE Meant(overtaken, c, a, i) = Meant(overtaken, sg, a, i)
    BY <1>5 DEF Meant, HasEntry, Prepares
  <2>2. QED
    BY <1>6, <2>1 DEF Match
<1>8. Sound(roots, c)
  <2>1. ASSUME NEW a \in Actors
        PROVE  /\ sg.queue[a] # None => sg.queue[a].id < game.next
               /\ sg.prep[a] # None => sg.prep[a].id < game.next
    <3>1. /\ sg.queue[a] # None => sg.queue[a].id \in Ids /\ sg.queue[a].id < sg.next
          /\ sg.prep[a] # None => sg.prep[a].id \in Ids /\ sg.prep[a].id < sg.next
      BY <1>3, <1>6, QueueTypes DEF Sound
    <3>2. sg.next \in Int /\ game.next \in Int
      BY <1>3, GameTypes, IntentionsAssumption
    <3>3. QED
      BY <1>3, <3>1, <3>2, Names
  <2>2. QED
    BY <1>5, <1>6, <2>1 DEF Sound
<1>9. StaleOvertaken(overtaken, c)
  BY <1>5, <1>6 DEF StaleOvertaken, Stale
<1>10. game' = c /\ phases' = sp
  BY <1>2, <1>4
<1>11. TypeOK'
  BY <1>2, <1>3, <1>5, <1>10 DEF IInv, TypeOK
<1>12. Given' /\ saved'.game.next <= game'.next
  <2>1. Given'
    BY <1>2, <1>5, <1>10 DEF IInv, Given
  <2>2. saved'.game.next <= game'.next
    <3>1. CASE saved' = saved
      BY <1>1, <1>3, <1>5, <1>10, <3>1
    <3>2. CASE saved' = [game |-> game', phases |-> phases']
      <4>1. c.next \in Int
        BY <1>5, GameTypes, IntentionsAssumption
      <4>2. QED
        BY <1>10, <3>2, <4>1
    <3>3. QED
      BY <1>2, <3>1, <3>2
  <2>3. QED
    BY <2>1, <2>2
<1>13. /\ Match(overtaken', roots', game', phases') /\ Sound(roots', game')
       /\ StaleOvertaken(overtaken', game')
  BY <1>2, <1>7, <1>8, <1>9, <1>10
<1>14. /\ Match(overtaken', roots', saved'.game, saved'.phases)
       /\ Sound(roots', saved'.game) /\ StaleOvertaken(overtaken', saved'.game)
  <2>1. CASE saved' = saved
    BY <1>1, <1>2, <1>6, <2>1
  <2>2. CASE saved' = [game |-> game', phases |-> phases']
    <3>1. saved'.game = game' /\ saved'.phases = phases'
      BY <2>2
    <3>2. QED
      BY <1>13, <3>1
  <2>3. QED
    BY <1>2, <2>1, <2>2
<1>15. refused' \subseteq overtaken'
  BY <1>2 DEF IInv
<1>16. QED
  BY <1>11, <1>12, <1>13, <1>14, <1>15 DEF IInv, Consistent

-----------------------------------------------------------------------------
(* The invariant *)

LEMMA IInvInit == Init => IInv
<1> SUFFICES ASSUME Init PROVE IInv
  OBVIOUS
<1>1. /\ game.queue = [a \in Actors |-> None] /\ game.prep = [a \in Actors |-> None]
      /\ game.dead = {} /\ game.denied = {} /\ game.next = 1
      /\ game = [queue |-> [a \in Actors |-> None], prep |-> [a \in Actors |-> None],
                 dead |-> {}, denied |-> {}, next |-> 1]
  BY DEF Init
<1>2. game \in Games
  <2>1. 1 \in 1..MaxIntentions + 1
    BY IntentionsAssumption
  <2>2. [a \in Actors |-> None] \in [Actors -> Entries \cup {None}]
        /\ [a \in Actors |-> None] \in [Actors -> Preparations \cup {None}]
    OBVIOUS
  <2>3. QED
    BY <1>1, <2>1, <2>2, MakesGame
<1>3. TypeOK
  BY <1>2 DEF Init, TypeOK
<1>4. Given /\ saved.game.next <= game.next
  <2>1. ASSUME NEW i \in Ids PROVE ~(i < 1)
    BY IntentionsAssumption DEF Ids
  <2>2. QED
    BY <1>1, <2>1 DEF Init, Given
<1>5. Consistent(game, phases)
  <2>1. \A a \in Actors : game.queue[a] = None /\ game.prep[a] = None
    BY <1>1
  <2>2. \A i \in Ids : roots[i] = None /\ phases[i] = None
    BY DEF Init
  <2>3. Match(overtaken, roots, game, phases)
    BY <2>2 DEF Match
  <2>4. Sound(roots, game) /\ StaleOvertaken(overtaken, game)
    BY <2>1 DEF Sound, StaleOvertaken, Stale
  <2>5. QED
    BY <2>3, <2>4 DEF Consistent
<1>6. saved.game = game /\ saved.phases = phases /\ refused = {}
  BY DEF Init
<1>7. QED
  BY <1>3, <1>4, <1>5, <1>6 DEF IInv

LEMMA IInvStep == IInv /\ [Next]_vars => IInv'
<1> SUFFICES ASSUME IInv, [Next]_vars PROVE IInv'
  OBVIOUS
<1>1. ASSUME NEW a \in Actors, AdmitHuman(a) PROVE IInv'
  BY <1>1, AdmittedKeeps DEF AdmitHuman
<1>2. ASSUME NEW a \in Actors, AdmitTravel(a) PROVE IInv'
  BY <1>2, AdmittedKeeps DEF AdmitTravel
<1>3. ASSUME NEW a \in Actors, AdmitDecision(a) PROVE IInv'
  BY <1>3, AdmittedKeeps DEF AdmitDecision
<1>4. ASSUME NEW a \in Actors, FailUnavailable(a) PROVE IInv'
  BY <1>4, FailUnavailableKeeps
<1>5. ASSUME NEW a \in Actors, Start(a) PROVE IInv'
  BY <1>5, StartKeeps
<1>6. ASSUME NEW a \in Actors, FailStart(a) PROVE IInv'
  BY <1>6, FailStartKeeps
<1>7. ASSUME NEW a \in Actors, Continue(a) PROVE IInv'
  BY <1>7, ContinueKeeps
<1>8. ASSUME NEW a \in Actors, FailContinue(a) PROVE IInv'
  BY <1>8, FailContinueKeeps
<1>9. ASSUME NEW a \in Actors, CancelTravel(a) PROVE IInv'
  <2>1. PICK i : i = game.queue[a].id
    OBVIOUS
  <2>2. /\ game.queue[a] # None /\ UNCHANGED roots
        /\ Commit(Cancelled(game, a, i), Entry("cancelled", a, i, None), {})
    BY <1>9, <2>1 DEF CancelTravel
  <2>3. HasEntry(game, a, i) /\ i \in Ids
    BY <2>1, <2>2, QueueTypes DEF HasEntry, IInv, TypeOK
  <2>4. QED
    BY <2>2, <2>3, WithdrawKeeps
<1>10. ASSUME NEW a \in Actors, NEW i \in Ids, Suspend(a, i) PROVE IInv'
  BY <1>10, SuspendKeeps
<1>11. ASSUME NEW a \in Actors, NEW i \in Ids, Resume(a, i) PROVE IInv'
  BY <1>11, ResumeKeeps
<1>12. ASSUME NEW a \in Actors, NEW i \in Ids, Cancel(a, i) PROVE IInv'
  BY <1>12, WithdrawKeeps DEF Cancel, Changeable
<1>13. ASSUME NEW a \in Actors, NEW i \in Ids, Escape(a, i) PROVE IInv'
  BY <1>13, EscapeKeeps
<1>14. ASSUME Wizard PROVE IInv'
  BY <1>14, WizardKeeps
<1>15. ASSUME Rewind PROVE IInv'
  BY <1>15, RewindKeeps
<1>16. ASSUME UNCHANGED vars PROVE IInv'
  BY <1>16 DEF vars, IInv, TypeOK, Given, Consistent
<1>17. QED
  BY <1>1, <1>2, <1>3, <1>4, <1>5, <1>6, <1>7, <1>8, <1>9, <1>10, <1>11, <1>12, <1>13,
     <1>14, <1>15, <1>16 DEF Next

-----------------------------------------------------------------------------
(* The theorems *)

\* The journal, the game and the acceptor's phases agree in every reachable
\* state and at every boundary a rewind may go back to.
THEOREM InvariantHolds == Spec => []IInv
<1>1. Init => IInv
  BY IInvInit
<1>2. IInv /\ [Next]_vars => IInv'
  BY IInvStep
<1>3. QED
  BY <1>1, <1>2, PTL DEF Spec

\* Every reachable state is one the types of the module describe.
THEOREM TypeCorrect == Spec => []TypeOK
<1>1. IInv => TypeOK
  BY DEF IInv
<1>2. QED
  BY <1>1, InvariantHolds, PTL

\* The acceptor refuses an entry the engine wrote only at an identity whose
\* queued work was changed without an entry of its own.
THEOREM EntriesAccepted == Spec => []JournalAccepted
<1>1. IInv => JournalAccepted
  BY DEF IInv, JournalAccepted
<1>2. QED
  BY <1>1, InvariantHolds, PTL

LEMMA ConsistentMatches == IInv => GameMatchesPhases
<1> SUFFICES ASSUME IInv, refused = {}
             PROVE  GameMatchesPhases
  BY DEF GameMatchesPhases
<1>1. /\ game \in Games /\ Sound(roots, game) /\ Match(overtaken, roots, game, phases)
      /\ StaleOvertaken(overtaken, game)
  BY Standing
<1>2. ASSUME NEW a \in Actors, game.queue[a] # None, game.queue[a].id \notin overtaken
      PROVE  LET entry == game.queue[a]
                 fresh == entry.work \in {"action", "decision"}
             IN  phases[entry.id] =
                   IF entry.state = "queued"
                   THEN IF fresh THEN "initial queued" ELSE "progress queued"
                   ELSE IF fresh THEN "initial suspended" ELSE "progress queue suspended"
  <2>1. PICK i : i = game.queue[a].id
    OBVIOUS
  <2>2. i \in Ids /\ HasEntry(game, a, i) /\ roots[i] # None /\ roots[i].actor = a
        /\ game.queue[a].work \in {"action", "decision", "resume"}
        /\ game.queue[a].state \in {"queued", "suspended"}
    BY <1>1, <1>2, <2>1, QueueTypes DEF HasEntry, Sound
  <2>3. CASE game.queue[a].work # "resume"
    <3>1. /\ game.queue[a].state = "queued" => phases[i] \in {"initial queued"}
          /\ game.queue[a].state = "suspended" => phases[i] \in {"initial suspended"}
      BY <1>1, <1>2, <2>1, <2>2, <2>3, StandsAt
    <3>2. QED
      BY <2>1, <2>2, <2>3, <3>1
  <2>4. CASE game.queue[a].work = "resume"
    <3>1. Prepares(game, a, i)
      BY <1>1, <1>2, <2>1, <2>2, <2>4, StandsAt
    <3>2. /\ game.queue[a].state = "queued" => phases[i] \in {"progress queued"}
          /\ game.queue[a].state = "suspended" => phases[i] \in {"progress queue suspended"}
      BY <1>1, <1>2, <2>1, <2>2, <2>4, <3>1, StandsAt
    <3>3. QED
      BY <2>1, <2>2, <2>4, <3>2
  <2>5. QED
    BY <2>3, <2>4
<1>3. ASSUME NEW a \in Actors, game.prep[a] # None
      PROVE  /\ phases[game.prep[a].id] \in PreparingPhases
             /\ (phases[game.prep[a].id] = "running") = game.prep[a].active
  <2>1. PICK i : i = game.prep[a].id
    OBVIOUS
  <2>2. i \in Ids /\ Prepares(game, a, i) /\ roots[i] # None /\ roots[i].actor = a
        /\ game.prep[a].active \in BOOLEAN
    BY <1>1, <1>3, <2>1, QueueTypes DEF Prepares, Sound
  <2>3. phases[i] \in PreparingPhases
    BY <1>1, <2>2, StandsAt
  <2>4. phases[i] \in Meant(overtaken, game, a, i)
    BY <1>1, <2>2 DEF Match
  <2>5. (phases[i] \in {"running"}) <=> game.prep[a].active
    BY <2>2, <2>4 DEF Meant, Behind
  <2>6. QED
    BY <2>1, <2>2, <2>3, <2>5
<1>4. ASSUME NEW i \in Ids, phases[i] # None
      PROVE  /\ phases[i] \in QueuedPhases => HasEntry(game, roots[i].actor, i)
             /\ phases[i] \in PreparingPhases => Prepares(game, roots[i].actor, i)
  <2>1. roots[i] # None /\ phases[i] \in Meant(overtaken, game, roots[i].actor, i)
    BY <1>1, <1>4 DEF Match
  <2>2. roots[i].actor \in Actors
    <3>1. roots[i] \in [actor : Actors, human : BOOLEAN]
      BY <2>1 DEF IInv, TypeOK
    <3>2. QED
      BY <3>1
  <2>3. QED
    BY <1>1, <2>1, <2>2, MeantIs
<1>5. QED
  BY <1>2, <1>3, <1>4 DEF GameMatchesPhases

\* The phases the acceptor reaches are those of the game, but for work changed
\* without an entry of its own.
THEOREM GameAndPhasesAgree == Spec => []GameMatchesPhases
<1>1. IInv => GameMatchesPhases
  BY ConsistentMatches
<1>2. QED
  BY <1>1, InvariantHolds, PTL
=============================================================================
