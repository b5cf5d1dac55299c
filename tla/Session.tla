------------------------------ MODULE Session ------------------------------
(***************************************************************************)
(* The session service (crates/server/src/session.rs): clients attached to *)
(* actors, who controls which, journeys, and what each client was told.    *)
(*                                                                         *)
(* One thread runs it, one handler at a time, but a handler is not one     *)
(* step: almost every line of it may send, a refused send disconnects the  *)
(* client, and a disconnect releases control, stops a journey and sends    *)
(* again.  The agenda is the call stack of the running handler: its head   *)
(* is the next send or the next statement after a send, and a refused send *)
(* puts the consequences of the disconnect before what was left to do.  A  *)
(* handler begins only when the agenda is empty.                           *)
(*                                                                         *)
(* The engine is what the service sees of it: one queued intention, one    *)
(* preparation, and whether the actor lives.  Revisions, stream epochs and *)
(* generations are only ever compared for equality: instead of numbers     *)
(* there is whether a client's readiness is still the current one          *)
(* (outdated), and their exhaustion is one more reason to refuse a send.   *)
(***************************************************************************)
EXTENDS Naturals, Sequences, FiniteSets, SequencesExt

CONSTANTS
  Clients,     \* connection identities: positive numbers, given out in order
  Actors,      \* actors played by people
  Role,        \* Role[c]: "player", "spectator" or "wizard"
  Allowed,     \* Allowed[c]: the actors its account may attach to
  None         \* no client, no journey, nothing disclosed

Roles == {"player", "spectator", "wizard"}

\* Of the steps done only their parity: one status is compared with the next.
\* Why a journey is over makes no difference here.
Statuses == [active : BOOLEAN, odd : BOOLEAN]
Jobs     == [owner : Clients, pending : BOOLEAN]
Readiness == [control : BOOLEAN, admission : BOOLEAN, resume : BOOLEAN,
              cancel : BOOLEAN]

\* A lease that ended while its work was still queued or active.
Lost == 0

ASSUME SessionAssumption ==
  /\ Clients \subseteq Nat \ {0} /\ IsFiniteSet(Clients) /\ IsFiniteSet(Actors)
  /\ Role \in [Clients -> Roles]
  /\ Allowed \in [Clients -> SUBSET Actors]
  /\ None \notin Clients \cup {Lost}
  /\ None \notin Actors /\ None \notin Statuses \cup Jobs \cup Readiness

VARIABLES
  \* clients
  arrived,       \* identities given out
  actorOf,       \* the actor a client is attached to
  readiness,     \* the readiness last disclosed to it
  outdated,      \* those whose readiness carries an older generation
  \* control
  controllers, pendingPauses, autonomous,
  \* journeys
  travels, status, pendingCancels, broadcasting,
  resetting,     \* resetting_streams
  \* the engine
  queue, prep, dead,
  \* the running handler
  agenda, panicked,
  \* observation only
  toldTravel,    \* the status of its actor's journey it was last sent
  behind,        \* clients without a snapshot of the current branch
  strayed,       \* those that were sent an update of the new branch before it
  lease,         \* the client under whose control an actor's work was queued
  offences,      \* what was executed that should not have been
  published      \* the last handler was one that ends by refreshing readiness

clientVars  == <<arrived, actorOf, readiness, outdated>>
controlVars == <<controllers, pendingPauses, autonomous>>
travelVars  == <<travels, status, pendingCancels, broadcasting>>
engineVars  == <<queue, prep, dead>>
toldVars    == <<toldTravel, behind, strayed>>
vars == <<clientVars, controlVars, travelVars, resetting, engineVars, agenda,
          panicked, toldVars, lease, offences, published>>

TypeOK ==
  /\ arrived \subseteq Clients
  /\ actorOf \in [Clients -> Actors \cup {None}]
  /\ readiness \in [Clients -> Readiness \cup {None}]
  /\ outdated \subseteq Clients /\ behind \subseteq Clients /\ strayed \subseteq Clients
  /\ controllers \in [Actors -> Clients \cup {None}]
  /\ pendingPauses \subseteq Actors /\ pendingCancels \subseteq Actors
  /\ autonomous \in BOOLEAN /\ published \in BOOLEAN
  /\ broadcasting \in BOOLEAN /\ resetting \in BOOLEAN /\ panicked \in BOOLEAN
  /\ travels \in [Actors -> Jobs \cup {None}]
  /\ status \in [Actors -> Statuses \cup {None}]
  /\ queue \in [Actors -> {"none", "human", "suspended", "travel"}]
  /\ prep \in [Actors -> {"none", "active", "paused"}]
  /\ dead \subseteq Actors
  /\ toldTravel \in [Clients -> Statuses \cup {None}]
  /\ lease \in [Actors -> Clients \cup {None, Lost}]

-----------------------------------------------------------------------------
(* What the service reads *)

Attached    == {c \in Clients : actorOf[c] # None}
Viewers(a)  == {c \in Clients : actorOf[c] = a}
\* Clients are visited in the order of their identities.
Least(S)    == CHOOSE c \in S : \A d \in S : c <= d
Greatest(S) == CHOOSE c \in S : \A d \in S : d <= c
HasDriver   == \E a \in Actors \ dead : controllers[a] # None

\* Engine::input_readiness
Input(a) ==
  [slot   |-> queue[a] = "none" /\ a \notin dead,
   resume |-> /\ a \notin dead
              /\ \/ queue[a] = "suspended"
                 \/ queue[a] = "none" /\ prep[a] = "paused",
   cancel |-> queue[a] \in {"human", "suspended"} \/ prep[a] # "none"]

ReadinessFor(c, input) ==
  LET a == actorOf[c]
      has == Role[c] # "spectator" /\ controllers[a] = c
      enabled == has /\ pendingPauses = {} /\ pendingCancels = {}
  IN  [control   |-> has,
       admission |-> enabled /\ input.slot /\ travels[a] = None,
       resume    |-> enabled /\ input.resume,
       cancel    |-> enabled /\ input.cancel]

\* The readiness disclosed to a client is the one that holds now.
Current(c) == readiness[c] = ReadinessFor(c, Input(actorOf[c])) /\ c \notin outdated

\* Generations bind only clients that may act.
Outdate(S) ==
  outdated' = outdated \cup {c \in Attached : /\ Role[c] # "spectator"
                                              /\ actorOf[c] \in S
                                              /\ readiness[c] # None}

-----------------------------------------------------------------------------
(* The agenda *)

Frame(do, a, c, to, mark) ==
  [do |-> do, actor |-> a, client |-> c, to |-> to, mark |-> mark]

Head1 == Head(agenda)
Rest  == Tail(agenda)
\* The head with these recipients, or actors, left.
HeadTo(S) == Frame(Head1.do, Head1.actor, Head1.client, S, Head1.mark)

Running(do) == agenda # <<>> /\ ~panicked /\ Head1.do = do

Tell(what, S)      == Frame("tell", None, None, S, what)
TellIntention(a)   == Tell("intention", Viewers(a))
TellOutcome(a)     == <<Tell("outcome", Attached), TellIntention(a)>>
TellControl(a)     == Tell("control", Viewers(a))
TravelUpdate(a)    == Frame("travel", a, None, {}, None)
StopLater(a)       == Frame("stop", a, None, {}, None)
Drop(a, c)         == Frame("drop", a, c, {}, None)
Refresh            == Frame("refresh", None, None, {}, None)
Reply(c)           == Frame("reply", None, c, {}, None)
ApplyPauses        == Frame("pauses", None, None, pendingPauses, None)
Announce           == Frame("announce", None, None, {}, None)

\* handle: publish effects and permissions, then answer.
Answering(c) == <<Refresh, Reply(c)>>

-----------------------------------------------------------------------------
(* Journeys and disconnects *)

\* cancel_travel_work: only a queued step has anything to cancel, and saving
\* may refuse it.
CancelTravelWork(S) ==
  LET queued == {a \in S : queue[a] = "travel"}
  IN  \E failed \in SUBSET queued :
        /\ queue' = [a \in Actors |-> IF a \in queued \ failed THEN "none" ELSE queue[a]]
        /\ pendingCancels' = (pendingCancels \ S) \cup failed
        /\ Outdate(queued \ failed)

\* stop_travel, with what follows it.
StopTravel(a, after) ==
  /\ travels' = [travels EXCEPT ![a] = None]
  /\ CancelTravelWork({a})
  /\ IF status[a] # None /\ status[a].active
     THEN /\ status' = [status EXCEPT ![a].active = FALSE]
          /\ agenda' = (IF broadcasting THEN <<>> ELSE <<TravelUpdate(a)>>) \o after
     ELSE status' = status /\ agenda' = after
  /\ UNCHANGED broadcasting

\* disconnect_with, up to the release of control.
Departs(c, after) ==
  LET a == actorOf[c]
  IN  /\ actorOf' = [actorOf EXCEPT ![c] = None]
      /\ readiness' = [readiness EXCEPT ![c] = None]
      /\ toldTravel' = [toldTravel EXCEPT ![c] = None]
      /\ behind' = behind \ {c}
      /\ IF controllers[a] = c
         THEN StopTravel(a, <<Drop(a, c)>> \o after)
         ELSE agenda' = after /\ UNCHANGED <<travelVars, queue, outdated>>
      /\ UNCHANGED <<arrived, controlVars, resetting, prep, dead,
                     panicked, strayed, lease>>

Disconnect(c, after) == Departs(c, after) /\ UNCHANGED <<offences, published>>

\* set_controller
SetController(a, c) ==
  /\ controllers' = [controllers EXCEPT ![a] = c]
  /\ Outdate({a})
  /\ lease' = [lease EXCEPT ![a] =
       IF c # None THEN @
       ELSE IF queue[a] = "human" \/ prep[a] = "active" THEN Lost ELSE None]

\* (Mutant: the controller is remembered, not its actor.)
OwedByClient(a) == pendingPauses \cup {controllers[a]}
OwedPauses(a) == pendingPauses \cup {a}

\* (Mutant: told at once.)
NeverHeld == FALSE
\* While streams are being reset nobody is told of control.
HeldNow == resetting

\* Control ends: by release_control, or with the connection.
DropControl ==
  /\ Running("drop")
  /\ LET a == Head1.actor
     IN  IF controllers[a] = Head1.client
         THEN /\ SetController(a, None)
              /\ pendingPauses' = OwedPauses(a)
              /\ autonomous' = FALSE
              /\ agenda' = (IF HeldNow THEN <<>> ELSE <<TellControl(a)>>) \o Rest
         ELSE agenda' = Rest /\ UNCHANGED <<controlVars, outdated, lease>>
  /\ UNCHANGED <<arrived, actorOf, readiness, travelVars, resetting, engineVars,
                 panicked, toldVars, offences, published>>

-----------------------------------------------------------------------------
(* Sends.  A client that left meanwhile is passed over. *)

Waiting == Head1.to \cap Attached
To      == Least(Waiting)
Sent    == (IF Waiting = {To} THEN <<>> ELSE <<HeadTo(Waiting \ {To})>>) \o Rest

\* A stream carries updates of the branch of its last snapshot only.
Update(c) == strayed' = strayed \cup ({c} \cap behind)

quiet == <<clientVars, controlVars, travelVars, resetting, engineVars, panicked,
           lease, offences, published>>

TellDone == Running("tell") /\ Waiting = {} /\ agenda' = Rest
            /\ UNCHANGED <<quiet, toldVars>>

TellNext ==
  /\ Running("tell") /\ Waiting # {}
  /\ \/ /\ agenda' = Sent
        /\ IF Head1.mark = "notice" THEN strayed' = strayed ELSE Update(To)
        /\ UNCHANGED <<quiet, toldTravel, behind>>
     \/ Disconnect(To, Sent)

\* send(reply): the reader may be gone, and readiness is refreshed again when
\* the reply itself ended a connection.
RefreshAfterReply == <<Refresh>> \o Rest

SendReply ==
  /\ Running("reply")
  /\ \/ agenda' = Rest /\ UNCHANGED <<quiet, toldVars>>
     \/ Head1.client \in Attached /\ Disconnect(Head1.client, RefreshAfterReply)

\* travel_update: the status is read again for every recipient, since sending
\* to the one before may have stopped the journey.
TravelUpdateStart ==
  /\ Running("travel")
  /\ LET a == Head1.actor
     IN  IF status[a] = None THEN agenda' = Rest /\ UNCHANGED broadcasting
         ELSE /\ broadcasting' = TRUE
              /\ agenda' = <<Frame("travelling", a, None, Viewers(a), status[a])>>
                           \o Rest
  /\ UNCHANGED <<clientVars, controlVars, travels, status, pendingCancels, resetting,
                 engineVars, panicked, toldVars, lease, offences, published>>

TravelUpdateNext ==
  /\ Running("travelling") /\ Waiting # {}
  /\ LET next == <<HeadTo(Waiting \ {To})>> \o Rest
     IN  \/ /\ agenda' = next
            /\ toldTravel' = [toldTravel EXCEPT ![To] = status[Head1.actor]]
            /\ Update(To)
            /\ UNCHANGED <<quiet, behind>>
         \/ Disconnect(To, next)

StatusMoved(a, was) == status[a] # was

TravelUpdateEnd ==
  /\ Running("travelling") /\ Waiting = {}
  /\ broadcasting' = FALSE
  /\ agenda' = (IF StatusMoved(Head1.actor, Head1.mark)
                THEN <<TravelUpdate(Head1.actor)>> ELSE <<>>) \o Rest
  /\ UNCHANGED <<clientVars, controlVars, travels, status, pendingCancels, resetting,
                 engineVars, panicked, toldVars, lease, offences, published>>

StopNext ==
  /\ Running("stop")
  /\ StopTravel(Head1.actor, Rest)
  /\ UNCHANGED <<arrived, actorOf, readiness, controlVars, resetting, prep, dead, panicked, toldVars, lease, offences, published>>

\* refresh_readiness: a pass asks the engine once per actor, and sends to those
\* whose readiness is not the current one.  Sends that are taken change
\* nothing a later one depends on, so a pass is cut only where one is refused.
Pass(to, inputs, count) ==
  Frame("refreshing", None, None, to, [inputs |-> inputs, count |-> count])

PassInput(a) == IF Head1.do = "refresh" \/ Head1.mark.inputs[a] = None THEN Input(a)
                ELSE Head1.mark.inputs[a]
PassTo    == IF Head1.do = "refresh"
             THEN {c \in Attached : readiness[c] # None}
             ELSE Waiting
PassCount == IF Head1.do = "refresh" THEN Cardinality(Attached) ELSE Head1.mark.count

\* (Mutants: one pass is enough; another pass whatever happened.)
OnePass(count) == FALSE
AlwaysAgain(count) == TRUE
AnotherPass(count) == Cardinality(Attached) # count

Due(c) == readiness[c] # ReadinessFor(c, PassInput(actorOf[c])) \/ c \in outdated

\* What is left of the pass after these clients.
PassAfter(seen) ==
  LET asked == {actorOf[c] : c \in seen}
  IN  Pass(PassTo \ seen,
           [a \in Actors |-> IF a \in asked THEN PassInput(a) ELSE None], PassCount)

RefreshTaken ==
  /\ Running("refresh") \/ Running("refreshing")
  /\ \E seen \in SUBSET PassTo :
       LET left == PassTo \ seen
           sent == {c \in seen : Due(c)}
       IN  /\ \A c \in seen, d \in left : c < d
           /\ left # {} => seen # {} /\ Due(Greatest(seen)) /\ Due(Least(left))
           /\ readiness' = [c \in Clients |-> IF c \in sent
                               THEN ReadinessFor(c, PassInput(actorOf[c])) ELSE readiness[c]]
           /\ outdated' = outdated \ sent
           /\ strayed' = strayed \cup (sent \cap behind)
           /\ agenda' = (IF left # {} THEN <<PassAfter(seen)>>
                         ELSE IF AnotherPass(PassCount) THEN <<Refresh>> ELSE <<>>) \o Rest
  /\ UNCHANGED <<arrived, actorOf, controlVars, travelVars, resetting, engineVars, panicked,
                 toldTravel, behind, lease, offences, published>>

RefreshRefused ==
  /\ Running("refresh") \/ Running("refreshing")
  /\ \E c \in PassTo :
       /\ Due(c) /\ \A d \in PassTo : d < c => ~Due(d)
       /\ Disconnect(c, <<PassAfter({d \in PassTo : d <= c})>> \o Rest)

\* snapshot: it may be admitted, refused (or its stream exhausted), or fail to
\* be prepared.
CommitSnapshot(c) ==
  /\ readiness' = [readiness EXCEPT ![c] = ReadinessFor(c, Input(actorOf[c]))]
  /\ outdated' = outdated \ {c}
  /\ toldTravel' = [toldTravel EXCEPT ![c] = status[actorOf[c]]]
  /\ behind' = behind \ {c}

SnapshotNext ==
  /\ Running("snapshot")
  /\ LET c == Head1.client
     IN  \/ /\ CommitSnapshot(c) /\ agenda' = Rest
            /\ UNCHANGED <<arrived, actorOf, controlVars, travelVars, resetting,
                           engineVars, panicked, strayed, lease, offences, published>>
         \/ Disconnect(c, Rest)
         \/ /\ ~resetting
            /\ agenda' = Append(Rest, Reply(c)) /\ UNCHANGED <<quiet, toldVars>>

\* announce_waiting: a client already told the same is passed over, but one
\* that a send to another client disconnected is looked up all the same.
AnnounceStart ==
  /\ Running("announce")
  /\ agenda' = <<Frame("announcing", None, None, Attached, None)>> \o Rest
  /\ UNCHANGED <<quiet, toldVars>>

AnnounceNext ==
  /\ Running("announcing")
  /\ IF Head1.to = {} THEN agenda' = Rest /\ UNCHANGED <<quiet, toldVars>>
     ELSE LET c == Least(Head1.to)
              next == <<HeadTo(Head1.to \ {c})>> \o Rest
          IN  IF c \in Attached
              THEN \/ agenda' = next /\ UNCHANGED <<quiet, toldVars>>
                   \/ Disconnect(c, next)
              ELSE /\ panicked' = TRUE
                   /\ UNCHANGED <<clientVars, controlVars, travelVars, resetting, engineVars,
                                  agenda, toldVars, lease, offences, published>>

-----------------------------------------------------------------------------
(* Pauses left behind by a controller that went *)

\* apply_pending_pauses.  Capturing what observers saw may fail and ends it;
\* saving may refuse either step and leaves the actor pending.
PausesNext ==
  /\ Running("pauses")
  /\ IF Head1.to = {} THEN agenda' = Rest /\ UNCHANGED <<queue, outdated, lease>>
     ELSE LET a == CHOOSE b \in Head1.to : TRUE   \* the lowest in the code
              next == <<HeadTo(Head1.to \ {a})>> \o Rest
              pause == <<Frame("pausePrep", a, None, {}, None)>> \o next
          IN  \/ agenda' = Rest /\ UNCHANGED <<queue, outdated, lease>>
              \/ /\ queue[a] # "human"
                 /\ agenda' = pause /\ UNCHANGED <<queue, outdated, lease>>
              \/ /\ queue[a] = "human"
                 /\ agenda' = next /\ UNCHANGED <<queue, outdated, lease>>
              \/ /\ queue[a] = "human"
                 /\ queue' = [queue EXCEPT ![a] = "suspended"]
                 /\ lease' = [lease EXCEPT ![a] = IF prep[a] = "active" THEN @ ELSE None]
                 /\ Outdate({a})
                 /\ agenda' = <<TellIntention(a)>> \o pause
  /\ UNCHANGED <<arrived, actorOf, readiness, controlVars, travelVars, resetting, prep,
                 dead, panicked, toldVars, offences, published>>

\* (Mutant: the actor is settled although its preparation was not paused.)
AssumePaused(a) == FALSE
\* A preparation that cannot be paused keeps the actor pending.
StillActive(a) == prep[a] = "active"

PausePrep ==
  /\ Running("pausePrep")
  /\ LET a == Head1.actor
         settle == Frame("settled", a, None, {}, None)
     IN  IF StillActive(a)
         THEN \/ agenda' = Rest /\ UNCHANGED <<prep, outdated, lease>>
              \/ /\ prep' = [prep EXCEPT ![a] = "paused"]
                 /\ lease' = [lease EXCEPT ![a] = IF queue[a] = "human" THEN @ ELSE None]
                 /\ Outdate({a})
                 /\ agenda' = TellOutcome(a) \o <<settle>> \o Rest
         ELSE agenda' = <<settle>> \o Rest /\ UNCHANGED <<prep, outdated, lease>>
  /\ UNCHANGED <<arrived, actorOf, readiness, controlVars, travelVars, resetting, queue,
                 dead, panicked, toldVars, offences, published>>

PauseSettled ==
  /\ Running("settled")
  /\ pendingPauses' = pendingPauses \ {Head1.actor}
  /\ agenda' = Rest
  /\ UNCHANGED <<clientVars, controllers, autonomous, travelVars, resetting, engineVars,
                 panicked, toldVars, lease, offences, published>>

-----------------------------------------------------------------------------
(* Requests *)

Idle == agenda = <<>> /\ ~panicked

\* What every handler leaves alone before its first send.
Begin(frames, ends) ==
  /\ Idle /\ agenda' = frames
  /\ published' = ends
  /\ UNCHANGED <<resetting, panicked, offences>>

Handle(c, frames) == Begin(frames \o Answering(c), TRUE)

Attach(c, a) ==
  /\ c \notin arrived /\ \A d \in Clients : d < c => d \in arrived
  /\ a \in Allowed[c]
  /\ Begin(<<Frame("snapshot", None, c, {}, None), Refresh>>, TRUE)
  /\ arrived' = arrived \cup {c}
  /\ actorOf' = [actorOf EXCEPT ![c] = a]
  /\ UNCHANGED <<readiness, outdated, controlVars, travelVars, engineVars, toldVars,
                 lease>>

\* A query, and every request that is refused: stale, unauthorized or failed.
Query(c) ==
  /\ c \in Attached
  /\ Handle(c, <<>>)
  /\ UNCHANGED <<clientVars, controlVars, travelVars, engineVars, toldVars, lease>>

\* observe sends an update, snapshot resets the stream; neither is answered.
Look(c) ==
  /\ c \in Attached
  /\ \/ Begin(<<Tell("outcome", {c}), Refresh>>, TRUE)
     \/ Begin(<<Frame("snapshot", None, c, {}, None), Refresh>>, TRUE)
  /\ UNCHANGED <<clientVars, controlVars, travelVars, engineVars, toldVars, lease>>

MayAct(c) == c \in Attached /\ Role[c] # "spectator"
Controls(c) == MayAct(c) /\ controllers[actorOf[c]] = c

Continue(c) ==
  /\ Controls(c)
  /\ Handle(c, <<>>)
  /\ autonomous' = TRUE
  /\ UNCHANGED <<clientVars, controllers, pendingPauses, travelVars, engineVars, toldVars,
                 lease>>

AcquireControl(c) ==
  /\ MayAct(c)
  /\ Handle(c, <<ApplyPauses, Frame("acquire", actorOf[c], c, {}, None)>>)
  /\ UNCHANGED <<clientVars, controlVars, travelVars, engineVars, toldVars, lease>>

MayTake(a) == a \notin pendingPauses /\ controllers[a] = None

\* The rest of acquire_control.  Applying the pauses sends, and may have
\* disconnected the client that asks.
AcquireRest ==
  /\ Running("acquire")
  /\ LET a == Head1.actor
     IN  IF MayTake(a)
         THEN /\ SetController(a, Head1.client)
              /\ agenda' = <<TellControl(a)>> \o Rest
         ELSE agenda' = Rest /\ UNCHANGED <<controllers, outdated, lease>>
  /\ UNCHANGED <<arrived, actorOf, readiness, pendingPauses, autonomous, travelVars,
                 resetting, engineVars, panicked, toldVars, offences, published>>

ReleaseControl(c) ==
  /\ MayAct(c)
  /\ LET a == actorOf[c]
     IN  /\ Idle /\ controllers[a] \in {c, None}
         /\ StopTravel(a, <<Drop(a, c)>> \o Answering(c))
  /\ published' = TRUE
  /\ UNCHANGED <<arrived, actorOf, readiness, controlVars, resetting, prep, dead,
                 panicked, toldVars, lease, offences>>

\* A command is taken if its context is the one disclosed last and that is
\* still current.
Accepted(c) == Controls(c) /\ readiness[c] # None /\ Current(c)

Play(c) == autonomous' = TRUE
           /\ lease' = [lease EXCEPT ![actorOf[c]] = c]

AdmitIntention(c) ==
  /\ Accepted(c) /\ readiness[c].admission
  /\ LET a == actorOf[c]
     IN  /\ queue' = [queue EXCEPT ![a] = "human"]
         /\ Outdate({a})
         /\ Handle(c, TellOutcome(a))
  /\ Play(c)
  /\ UNCHANGED <<arrived, actorOf, readiness, controllers, pendingPauses, travelVars, prep,
                 dead, toldVars>>

ResumeIntention(c) ==
  /\ Accepted(c) /\ readiness[c].resume
  /\ LET a == actorOf[c]
     IN  /\ queue' = [queue EXCEPT ![a] = "human"]
         /\ Outdate({a})
         /\ Handle(c, TellOutcome(a))
  /\ Play(c)
  /\ UNCHANGED <<arrived, actorOf, readiness, controllers, pendingPauses, travelVars, prep,
                 dead, toldVars>>

\* The queued work, the preparation, or both when one continues the other.
CancelIntention(c) ==
  /\ Accepted(c) /\ readiness[c].cancel
  /\ LET a == actorOf[c]
     IN  /\ \/ /\ queue[a] \in {"human", "suspended"}
               /\ queue' = [queue EXCEPT ![a] = "none"]
               /\ \/ prep' = prep
                  \/ prep[a] = "paused" /\ prep' = [prep EXCEPT ![a] = "none"]
            \/ /\ prep[a] # "none" /\ queue' = queue
               /\ prep' = [prep EXCEPT ![a] = "none"]
         /\ Outdate({a})
         /\ Handle(c, TellOutcome(a))
  /\ UNCHANGED <<arrived, actorOf, readiness, controlVars, travelVars, dead,
                 toldVars, lease>>

\* What a client was told of a journey is told of this one from here on.
BeginTravel(c) ==
  /\ Accepted(c) /\ readiness[c].admission
  /\ LET a == actorOf[c]
     IN  /\ \E far \in BOOLEAN :   \* or it is there already
              /\ travels' = [travels EXCEPT ![a] =
                   IF far THEN [owner |-> c, pending |-> FALSE] ELSE None]
              /\ status' = [status EXCEPT ![a] = [active |-> far, odd |-> FALSE]]
         /\ toldTravel' = [d \in Clients |-> IF actorOf[d] = a THEN None ELSE toldTravel[d]]
         /\ Handle(c, <<TravelUpdate(a)>>)
  /\ Play(c)
  /\ UNCHANGED <<clientVars, controllers, pendingPauses, pendingCancels, broadcasting,
                 engineVars, behind, strayed>>

\* A privileged change of the world: preparations are paused, unless saving
\* refuses it, journeys stop, and every stream starts again.
Setup(c) ==
  /\ c \in Attached /\ Role[c] = "wizard" /\ readiness[c] # None /\ Current(c)
  /\ \E kept \in SUBSET {a \in Actors : prep[a] = "active"} :
       /\ prep' = [a \in Actors |-> IF prep[a] = "active" /\ a \notin kept THEN "paused"
                                    ELSE prep[a]]
       /\ lease' = [a \in Actors |-> IF prep[a] = "active" /\ a \notin kept
                                        /\ queue[a] # "human" /\ travels[a] = None
                                     THEN None ELSE lease[a]]
  /\ Outdate(Actors)
  /\ LET moving == SetToSeq({a \in Actors : travels[a] # None})
         stops  == [i \in 1..Len(moving) |-> StopLater(moving[i])]
     IN  Handle(c, stops \o <<Frame("reset", None, None, {}, None)>>)
  /\ autonomous' = FALSE
  /\ UNCHANGED <<arrived, actorOf, readiness, controllers, pendingPauses, travelVars, queue,
                 dead, toldVars>>

\* What a rewind owes to work it could not suspend.
UnsuspendedAfterRewind(failed) == failed

\* A rewind: the engine is at an earlier boundary of a new branch.  Of the
\* work queued there steps of journeys are cancelled and human work is
\* suspended; saving may refuse either.
Rewind(c) ==
  /\ c \in Attached /\ Role[c] = "wizard" /\ readiness[c] # None /\ Current(c)
  /\ queue' \in [Actors -> {"none", "human", "suspended", "travel"}]
  /\ prep' \in [Actors -> {"none", "active", "paused"}]
  /\ dead' \in SUBSET dead
  /\ pendingPauses' = UnsuspendedAfterRewind({a \in Actors : queue'[a] = "human"})
  /\ pendingCancels' = {a \in Actors : queue'[a] = "travel"}
  /\ travels' = [a \in Actors |-> None] /\ status' = [a \in Actors |-> None]
  /\ lease' = [a \in Actors |-> IF queue'[a] = "human" THEN Lost ELSE None]
  /\ Outdate(Actors)
  /\ behind' = Attached
  /\ Handle(c, <<Frame("reset", None, None, {}, None)>>)
  /\ autonomous' = FALSE
  /\ UNCHANGED <<arrived, actorOf, readiness, controllers, broadcasting, toldTravel, strayed>>

ResetStart ==
  /\ Running("reset")
  /\ resetting' = TRUE
  /\ agenda' = <<Frame("resetting", None, None, Attached, controllers)>> \o Rest
  /\ UNCHANGED <<clientVars, controlVars, travelVars, engineVars, panicked, toldVars,
                 lease, offences, published>>

ResetNext ==
  /\ Running("resetting") /\ Waiting # {}
  /\ agenda' = <<Frame("snapshot", None, To, {}, None),
                  HeadTo(Waiting \ {To})>> \o Rest
  /\ UNCHANGED <<quiet, toldVars>>

\* The control updates that were held back.
HeldBack(was) ==
  LET moved == SetToSeq({a \in Actors : was[a] # None /\ controllers[a] # was[a]})
  IN  [i \in 1..Len(moved) |-> TellControl(moved[i])]

ResetEnd ==
  /\ Running("resetting") /\ Waiting = {}
  /\ resetting' = FALSE
  /\ agenda' = HeldBack(Head1.mark) \o Rest
  /\ UNCHANGED <<clientVars, controlVars, travelVars, engineVars, panicked, toldVars,
                 lease, offences, published>>

\* Mail::Disconnect, and a client the runner gives up on.
Leave(c) ==
  /\ Idle /\ c \in Attached
  /\ Departs(c, <<>>)
  /\ published' = FALSE /\ offences' = offences

\* poll_saves: warnings, and the answers to saves that wait; readiness is
\* refreshed when a send ended a connection.
Fewer == Frame("fewer", None, None, {}, Cardinality(Attached))

PollSaves ==
  /\ Idle /\ Attached # {}
  /\ \/ agenda' = <<Tell("notice", Attached), Fewer>>
     \/ \E c \in Attached : agenda' = <<Refresh, Reply(c)>>
  /\ published' = FALSE
  /\ UNCHANGED <<clientVars, controlVars, travelVars, resetting, engineVars, panicked,
                 toldVars, lease, offences>>

FewerNext ==
  /\ Running("fewer")
  /\ agenda' = (IF Cardinality(Attached) # Head1.mark THEN <<Refresh>> ELSE <<>>) \o Rest
  /\ UNCHANGED <<quiet, toldVars>>

-----------------------------------------------------------------------------
(* step: one action of the game, or why there is none *)

Step ==
  /\ Idle
  /\ CancelTravelWork(pendingCancels)
  /\ agenda' = <<ApplyPauses, Frame("choose", None, None, {}, None), Refresh>>
  /\ published' = TRUE
  /\ UNCHANGED <<arrived, actorOf, readiness, controlVars, travels, status, broadcasting,
                 resetting, prep, dead, panicked, toldVars, lease, offences>>

\* Work is due when its actor is next; the work of the dead is due at once.
WorkDue(a) == \/ queue[a] \in {"human", "travel"}
              \/ queue[a] = "suspended" /\ a \in dead

Choose ==
  /\ Running("choose")
  /\ \/ agenda' = Rest                       \* blocked, or a client is full
     \/ /\ pendingPauses = {} /\ pendingCancels = {}
        /\ \/ agenda' = <<Announce>> \o Rest \* it is a person's turn, or paused
           \/ \E a \in Actors : /\ WorkDue(a)
                                /\ agenda' = <<Frame("execute", a, None, {}, None)>> \o Rest
           \/ \E a \in Actors : /\ queue[a] = "none" /\ travels[a] # None /\ a \notin dead
                                /\ agenda' = <<Frame("walk", a, None, {}, None)>> \o Rest
           \/ agenda' = <<Frame("executeAi", None, None, {}, None)>> \o Rest
  /\ UNCHANGED <<quiet, toldVars>>

\* An AI decision is admitted and told of; then it is executed, if that did
\* not leave it without a driver.  One that fails pauses the game.
AdmitAi ==
  /\ Running("choose") /\ pendingPauses = {} /\ pendingCancels = {}
  /\ autonomous /\ HasDriver
  /\ \/ /\ agenda' = <<Tell("outcome", Attached),
                       Frame("executeAi", None, None, {}, None)>> \o Rest
        /\ UNCHANGED autonomous
     \/ /\ agenda' = <<Tell("notice", {controllers[a] : a \in Actors} \ {None})>> \o Rest
        /\ autonomous' = FALSE
  /\ UNCHANGED <<clientVars, controllers, pendingPauses, travelVars, resetting, queue, prep,
                 dead, panicked, toldVars, lease, offences, published>>

\* Executing takes time: another preparation may end, and an actor may die.
TimePasses(a) ==
  /\ \E ended \in SUBSET {b \in Actors \ {a} : prep[b] = "active"} :
     \E p \in {prep[a], "none", "active"} :
       prep' = [b \in Actors |-> IF b = a THEN p
                                 ELSE IF b \in ended THEN "none" ELSE prep[b]]
  /\ \E slain \in {{}} \cup {{b} : b \in Actors} : dead' = dead \cup slain

\* The step executes work: it should be under the lease it was queued under,
\* and no work whose lease has ended should be queued or active meanwhile.
Executes(ok) ==
  offences' = offences
    \cup (IF ok THEN {} ELSE {"authority"})
    \cup (IF \E b \in Actors : lease[b] = Lost /\ (queue[b] = "human" \/ prep[b] = "active")
          THEN {"loose"} ELSE {})

UnderLease(a) == a \in dead \/ (lease[a] \in Clients /\ controllers[a] = lease[a])

ExecutedBy(a) ==
  /\ queue' = [queue EXCEPT ![a] = "none"]
  /\ lease' = [lease EXCEPT ![a] = IF prep'[a] = "active" \/ travels[a] # None THEN @ ELSE None]
  /\ Outdate(Actors)

\* Human work needs the lease of its actor, while that actor lives.
HumanMayRun(a) == a \in dead \/ controllers[a] # None

\* The engine may refuse (its controller is told) or fail to save.
ExecuteHuman ==
  /\ Running("execute") /\ queue[Head1.actor] # "travel"
  /\ LET a == Head1.actor
     IN  \/ /\ HumanMayRun(a)
            /\ TimePasses(a) /\ ExecutedBy(a) /\ Executes(UnderLease(a))
            /\ agenda' = TellOutcome(a) \o Rest
         \/ /\ agenda' = (IF HumanMayRun(a) /\ controllers[a] # None
                          THEN <<Tell("notice", {controllers[a]})>> ELSE <<>>)
                         \o <<Announce>> \o Rest
            /\ UNCHANGED <<engineVars, outdated, lease, offences>>
  /\ UNCHANGED <<arrived, actorOf, readiness, controlVars, travelVars, resetting, panicked,
                 toldVars, published>>

\* (Mutant: not asked again after the decision was told of.)
DroveBefore == TRUE
Drives == autonomous /\ HasDriver

ExecuteAi ==
  /\ Running("executeAi")
  /\ \/ /\ Drives
        /\ \E a \in Actors : TimePasses(a) /\ prep'[a] \in {prep[a], "none"}
        /\ Outdate(Actors) /\ Executes(autonomous /\ HasDriver)
        /\ agenda' = <<Tell("outcome", Attached)>> \o Rest
        /\ UNCHANGED <<queue, lease>>
     \/ /\ agenda' = <<Announce>> \o Rest
        /\ UNCHANGED <<engineVars, outdated, lease, offences>>
  /\ UNCHANGED <<arrived, actorOf, readiness, controlVars, travelVars, resetting, panicked,
                 toldVars, published>>

\* A journey goes on under its owner's control, if nothing new is in the way.
MayGoOn(a) == controllers[a] = travels[a].owner

StopHere(a) ==
  /\ StopTravel(a, Rest)
  /\ UNCHANGED <<arrived, actorOf, readiness, controlVars, resetting, prep, dead,
                 panicked, toldVars, lease, offences, published>>

\* A queued step that no journey waits for, or whose journey may not go on.
RefuseStep ==
  /\ Running("execute") /\ queue[Head1.actor] = "travel"
  /\ LET a == Head1.actor
     IN  StopHere(a)

Finish(a, moved) == Frame("finish", a, None, {}, moved)

\* commit_travel_progress, before output can end the journey.
ExecuteTravel ==
  /\ Running("execute") /\ queue[Head1.actor] = "travel"
  /\ LET a == Head1.actor
         job == travels[a]
     IN  /\ job # None /\ job.pending /\ MayGoOn(a)
         /\ \/ \E moved \in BOOLEAN :   \* or the way is blocked
                 /\ TimePasses(a) /\ ExecutedBy(a) /\ Executes(UnderLease(a))
                 /\ travels' = [travels EXCEPT ![a].pending = FALSE]
                 /\ status' = [status EXCEPT ![a].odd = (@ # moved)]
                 /\ agenda' = TellOutcome(a) \o <<Finish(a, moved)>> \o Rest
            \/ /\ agenda' = <<Tell("notice", {controllers[a]}), Announce>> \o Rest
               /\ UNCHANGED <<queue, prep, dead, outdated, lease, offences, travels, status>>
  /\ UNCHANGED <<arrived, actorOf, readiness, controlVars, pendingCancels, broadcasting,
                 resetting, panicked, toldVars, published>>

\* finish_travel_execution: telling of the step may have ended the journey.
FinishTravel ==
  /\ Running("finish")
  /\ LET a == Head1.actor
     IN  IF travels[a] = None
         THEN agenda' = Rest /\ UNCHANGED <<quiet, toldVars>>
         ELSE \/ StopHere(a)
              \/ /\ Head1.mark /\ MayGoOn(a)
                 /\ agenda' = <<TravelUpdate(a)>> \o Rest
                 /\ UNCHANGED <<quiet, toldVars>>

\* travel_step: admit the next step; the step after executes it.
Walk ==
  /\ Running("walk")
  /\ LET a == Head1.actor
     IN  \/ StopHere(a)
         \/ /\ MayGoOn(a)
            /\ queue' = [queue EXCEPT ![a] = "travel"]
            /\ travels' = [travels EXCEPT ![a].pending = TRUE]
            /\ Outdate({a})
            /\ agenda' = Rest
            /\ UNCHANGED <<arrived, actorOf, readiness, controlVars, status, pendingCancels,
                           broadcasting, resetting, prep, dead, panicked, toldVars,
                           lease, offences, published>>
         \/ MayGoOn(a) /\ agenda' = Rest /\ UNCHANGED <<quiet, toldVars>>

-----------------------------------------------------------------------------
\* The work a game was left with is suspended before anybody connects;
\* a preparation that cannot be paused is only warned of.
Init ==
  /\ arrived = {} /\ actorOf = [c \in Clients |-> None]
  /\ readiness = [c \in Clients |-> None] /\ outdated = {}
  /\ controllers = [a \in Actors |-> None] /\ pendingPauses = {} /\ autonomous = FALSE
  /\ travels = [a \in Actors |-> None] /\ status = [a \in Actors |-> None]
  /\ pendingCancels = {} /\ broadcasting = FALSE /\ resetting = FALSE
  /\ queue \in [Actors -> {"none", "suspended"}]
  /\ prep \in [Actors -> {"none", "active", "paused"}] /\ dead \in SUBSET Actors
  /\ agenda = <<>> /\ panicked = FALSE
  /\ toldTravel = [c \in Clients |-> None]
  /\ behind = {} /\ strayed = {}
  /\ lease = [a \in Actors |-> None]
  /\ offences = {} /\ published = TRUE

Request(c) ==
  \/ \E a \in Actors : Attach(c, a)
  \/ Query(c) \/ Look(c)
  \/ Continue(c) \/ AcquireControl(c) \/ ReleaseControl(c)
  \/ AdmitIntention(c) \/ ResumeIntention(c) \/ CancelIntention(c)
  \/ BeginTravel(c) \/ Setup(c) \/ Rewind(c)

Unwind ==
  \/ TellNext \/ TellDone \/ SendReply
  \/ TravelUpdateStart \/ TravelUpdateNext \/ TravelUpdateEnd \/ StopNext
  \/ RefreshTaken \/ RefreshRefused \/ FewerNext
  \/ SnapshotNext \/ ResetStart \/ ResetNext \/ ResetEnd
  \/ AnnounceStart \/ AnnounceNext
  \/ DropControl \/ AcquireRest
  \/ PausesNext \/ PausePrep \/ PauseSettled
  \/ Choose \/ AdmitAi \/ ExecuteHuman \/ ExecuteAi
  \/ ExecuteTravel \/ RefuseStep \/ FinishTravel \/ Walk

\* A panic ends the service.
Dead == panicked /\ UNCHANGED vars

Next ==
  \/ \E c \in Clients : Request(c) \/ Leave(c)
  \/ Step \/ PollSaves
  \/ Unwind
  \/ Dead

Spec == Init /\ [][Next]_vars /\ WF_vars(Unwind)
-----------------------------------------------------------------------------
(* Properties *)

\* When a request has been handled, every client that was given its readiness
\* has the one that holds, and knows how its actor's journey stands: controls,
\* pauses, journeys and the queue may all have moved while sends were refused,
\* also because they were, and nothing else will tell it (refresh_readiness and
\* travel_update repeat until what they sent is still so).
ClientsInformed ==
  Idle => \A c \in Attached : readiness[c] # None =>
            /\ published => Current(c)
            /\ toldTravel[c] = status[actorOf[c]]

\* No client is sent an update of a new branch before its snapshot of it,
\* whatever disconnects while the streams are reset.
NoOldBranchUpdate == strayed = {}

\* Queued work is executed under the lease it was queued under: not after the
\* controller that queued it lost control, not by whoever took control since,
\* and no AI decision without a driver.  The work of the dead is cleared
\* whoever is there (execute_queued_intention, travel_step).
WorkUnderLease == "authority" \notin offences

\* No turn is executed while work of a controller that left is still queued or
\* active, or work queued before a rewind still is, however often saving
\* refuses to suspend it (apply_pending_pauses).  A preparation that a rewind
\* or setup could not pause does not count: the code only warns of it.
PauseBeforePlay == "loose" \notin offences

\* Every handler ends, although sends disconnect, disconnects send, and both
\* make loops begin again.
HandlersEnd == agenda # <<>> ~> (agenda = <<>> \/ panicked)

\* docs/reference/protocol.md: "Disconnecting releases control."
ControllersConnected ==
  Idle => \A a \in Actors : controllers[a] # None => actorOf[controllers[a]] = a

\* docs/architecture/simulation-cycle.md: an affected stream disconnects and
\* "healthy peers continue".
HealthyPeersContinue == ~panicked
=============================================================================
