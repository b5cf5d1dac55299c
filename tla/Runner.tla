------------------------------- MODULE Runner -------------------------------
(***************************************************************************)
(* The owner loop of a session (crates/server/src/runner.rs): one thread   *)
(* drains a bounded mailbox, polls saves, takes one action of the game,    *)
(* and when it cannot, waits for mail, output capacity or a timer.         *)
(*                                                                         *)
(* The service (session.rs) is here what the loop sees of it: who is       *)
(* connected and has output headroom, whether a step may act, and which    *)
(* explicit saves wait for an answer.  The save is three facts: how much   *)
(* is unsaved, is it overdue, has it failed.  One action is one call of    *)
(* the service or one test of the loop; connection tasks, the save worker  *)
(* and time move between them.                                             *)
(***************************************************************************)
EXTENDS Integers, Sequences, FiniteSets, SequencesExt

CONSTANTS
  Clients,       \* connections; an identity is never used again
  Capacity,      \* mailbox.max_capacity()
  Stall,         \* STALL, in ticks
  Requests,      \* the other requests clients send: "query", "save"
  MaxCommands    \* bound: how many player commands arrive

ASSUME RunnerAssumption ==
  /\ Capacity \in Nat \ {0} /\ Stall \in Nat \ {0} /\ MaxCommands \in Nat
  /\ Requests \subseteq {"query", "save"}

VARIABLES
  \* the mailbox
  mailbox,       \* queued mail
  senders,       \* whether a sender is left
  arrived,       \* how many commands have been sent
  \* run's locals
  pc,            \* where the loop is
  left,          \* messages the batch may still handle
  held,          \* commands held while saving is overdue
  stalled,       \* age since a client was first seen nearly full, -1 for none
  full,          \* the clients the last step found nearly full
  pollDue,       \* SAVE_POLL has passed since saves_polled
  \* the service
  clients,       \* connected and attached
  roomy,         \* those of them with HEADROOM
  pausing,       \* pending_pauses is not empty
  saving,        \* clients with an explicit save in pending_saves
  late,          \* those that have waited for save_reply_wait
  unmet,         \* those whose target is not durable
  \* the connection tasks
  task,
  \* the save, as save_status reports it
  unsaved,       \* 0: nothing, 1: what one batch takes, 2: more came behind it
  overdue, failed,
  \* observation only
  handled        \* number of the last command handled

mailVars    == <<mailbox, senders, arrived>>
loopVars    == <<pc, left, held, stalled, full, pollDue>>
serviceVars == <<clients, roomy, pausing, saving, late, unmet>>
saveVars    == <<unsaved, overdue, failed>>
vars == <<mailVars, loopVars, serviceVars, task, saveVars, handled>>

None == -1

\* "query" is every request that is neither a command nor a save.  A shutdown
\* has no client, and only commands are numbered.
Kinds == {"connect", "command", "query", "save", "disconnect", "shutdown"}
Mails == [kind : Kinds, client : Clients \cup {None}, number : 0..MaxCommands]
Mail(k, c, n) == [kind |-> k, client |-> c, number |-> n]

Running == pc # "stopped"

-----------------------------------------------------------------------------
(* The service, as the loop sees it *)

\* Clients are removed, and their tasks told.
Close(gone) ==
  /\ clients' = clients \ gone
  /\ task' = [c \in Clients |-> IF c \in gone /\ task[c] = "open" THEN "closing"
                                ELSE task[c]]

\* A controller leaves a pause behind.
PauseAfter(gone) ==
  pausing' \in {pausing} \cup (IF gone \cap clients # {} THEN {TRUE} ELSE {})

\* Some clients leave, and the rest are told what changed: each may lose its
\* headroom, or its stream may refuse a message, and then it leaves too.
Depart(gone) ==
  \E tight \in SUBSET (clients \ gone) : \E cut \in SUBSET (clients \ gone) :
    /\ roomy' = roomy \ (tight \cup cut \cup gone)
    /\ Close(cut \cup gone)
    /\ PauseAfter(cut \cup gone)

Publish == Depart({})

\* (Mutant: only the save's own outcome is an answer.)
AnsweredByOutcome(c) == c \notin unmet \/ failed

\* save_reply: durable, failed and behind are answers; otherwise wait.
Answered(c) == c \notin unmet \/ failed \/ c \in late

\* poll_saves answers, and forgets the saves of clients that are gone.
PollSaves ==
  LET done == {c \in saving : Answered(c) \/ c \notin clients}
  IN  /\ saving' = saving \ done
      /\ late' = late \ done
      /\ unmet' = unmet \ done
      /\ Publish

\* A save request forgives a failure (unless its snapshot can never be
\* written), waits for what is accepted, and polls at once.
HandleSave(c) ==
  \/ /\ c \in clients /\ c \notin saving
     /\ failed' \in {FALSE, failed}
     /\ LET open == IF unsaved > 0 THEN unmet \cup {c} ELSE unmet
            done == {d \in saving \cup {c} :
                       d \notin open \/ failed' \/ d \in late \/ d \notin clients}
        IN  /\ saving' = (saving \cup {c}) \ done
            /\ late' = late \ done
            /\ unmet' = open \ done
     /\ Publish
     /\ UNCHANGED <<unsaved, overdue>>
  \/ /\ c \notin clients \/ c \in saving
     /\ IF c \in clients THEN Publish ELSE UNCHANGED <<clients, roomy, pausing, task>>
     /\ UNCHANGED <<saving, late, unmet, saveVars>>

\* Journaled work: refused while the save has failed.
MayRecord ==
  unsaved' \in IF failed THEN {unsaved} ELSE {unsaved, IF unsaved = 0 THEN 1 ELSE 2}

\* Service::shutdown disconnects everyone.
Stop ==
  /\ pc' = "stopped"
  /\ Close(clients)
  /\ PauseAfter(clients)
  /\ roomy' = {}

\* receive, for everything but a shutdown.
Receive(m) ==
  LET c == m.client
  IN  /\ \/ /\ m.kind = "connect"
            /\ \/ /\ clients' = clients \cup {c}
                  /\ roomy' = roomy \cup {c}
                  /\ task' = [task EXCEPT ![c] = "open"]
               \/ /\ task' = [task EXCEPT ![c] = "ended"]
                  /\ UNCHANGED <<clients, roomy>>
            /\ UNCHANGED <<pausing, saving, late, unmet, saveVars>>
         \/ /\ m.kind \in {"command", "query"}
            /\ IF c \in clients THEN Publish /\ MayRecord
               ELSE UNCHANGED <<clients, roomy, pausing, task, unsaved>>
            /\ UNCHANGED <<saving, late, unmet, overdue, failed>>
         \/ /\ m.kind = "save"
            /\ HandleSave(c)
         \/ /\ m.kind = "disconnect"
            /\ IF c \in clients THEN Depart({c})
               ELSE UNCHANGED <<clients, roomy, pausing, task>>
            /\ UNCHANGED <<saving, late, unmet, saveVars>>
      /\ handled' = IF m.kind = "command" THEN m.number ELSE handled

-----------------------------------------------------------------------------
(* The mailbox *)

\* (Mutants: nothing but the delay counts; everything waits.)
HoldsOverdueOnly(m) == m.kind = "command" /\ overdue
HoldsAllMail(m) == overdue \/ held # <<>>

\* holds: a command waits while saving is overdue or another waits already.
Holds(m) == m.kind = "command" /\ (overdue \/ held # <<>>)

\* deliver: hold, stop or handle the first message.  `next` is where the
\* loop goes on.
Deliver(next) ==
  LET m == Head(mailbox)
  IN  /\ mailbox # <<>>
      /\ mailbox' = Tail(mailbox)
      /\ \/ /\ Holds(m)
            /\ held' = Append(held, m)
            /\ pc' = next
            /\ UNCHANGED <<serviceVars, task, saveVars, handled>>
         \/ /\ ~Holds(m) /\ m.kind = "shutdown"
            /\ Stop
            /\ UNCHANGED <<held, saving, late, unmet, saveVars, handled>>
         \/ /\ ~Holds(m) /\ m.kind # "shutdown"
            /\ Receive(m)
            /\ pc' = next
            /\ UNCHANGED held
      /\ full' = {}
      /\ UNCHANGED <<senders, arrived, stalled, pollDue>>

Disconnected == mailbox = <<>> /\ ~senders

\* The last sender is gone: shut down.
StopDisconnected ==
  /\ Stop
  /\ full' = {}
  /\ UNCHANGED <<mailVars, left, held, stalled, pollDue, saving, late, unmet,
                 saveVars, handled>>

-----------------------------------------------------------------------------
(* One pass of the loop *)

Go(next) ==
  /\ pc' = next
  /\ full' = {}
  /\ UNCHANGED <<mailVars, held, stalled, pollDue, serviceVars, task, saveVars,
                 handled>>

\* (Mutant: only when nothing at all is unsaved.)
ReleaseWhenSaved == held # <<>> /\ unsaved = 0

ReleaseNow == held # <<>> /\ ~overdue

\* Release what is held once saving is no longer overdue.
Top ==
  /\ pc = "top"
  /\ Go(IF ReleaseNow THEN "release" ELSE "batch")
  /\ UNCHANGED left

Release ==
  /\ pc = "release"
  /\ \/ /\ held # <<>>
        /\ held' = Tail(held)
        /\ Receive(Head(held))
        /\ UNCHANGED <<mailVars, pc, left, stalled, full, pollDue>>
     \/ /\ held = <<>>
        /\ Go("batch") /\ UNCHANGED left

\* (Mutant: drain until the mailbox is empty.)
DrainsAll == left

OneFewer == left - 1

\* Handle what could already be queued.
Batch ==
  /\ pc = "batch"
  /\ \/ /\ left > 0
        /\ Deliver("batch")
        /\ left' = OneFewer
     \/ /\ left > 0 /\ Disconnected
        /\ StopDisconnected
     \/ /\ left = 0 \/ (mailbox = <<>> /\ senders)
        /\ Go("poll")
        /\ left' = Capacity

EndsHere == Disconnected

\* Do not act after the last message of the last sender; poll when due.
Poll ==
  /\ pc = "poll"
  /\ \/ /\ EndsHere
        /\ StopDisconnected
     \/ /\ ~EndsHere
        /\ pc' = "step"
        /\ IF pollDue THEN PollSaves
           ELSE UNCHANGED <<clients, roomy, pausing, saving, late, unmet, task>>
        /\ pollDue' = FALSE
        /\ UNCHANGED <<mailVars, left, held, stalled, full, saveVars, handled>>

ClearClocks == stalled' = [c \in Clients |-> None]

Lacking == clients \ roomy

\* Service::step, first part: pauses left behind are recorded before anything
\* else, and while one is refused, or another is left by the messages about
\* them, nothing acts.  Nothing acts while saving is overdue either.
StepPauses ==
  /\ pc = "step"
  /\ \/ /\ overdue
        /\ ClearClocks /\ full' = {} /\ pc' = "select"
        /\ UNCHANGED <<clients, roomy, pausing, task, unsaved>>
     \/ /\ ~overdue /\ pausing
        /\ Publish
        /\ ClearClocks /\ full' = {} /\ pc' = "select"
        /\ MayRecord
     \/ /\ ~overdue /\ (pausing => ~failed)
        /\ pc' = "act"
        /\ IF pausing THEN MayRecord ELSE UNCHANGED unsaved
        /\ LET told == IF pausing THEN clients ELSE {}
           IN  \E tight \in SUBSET told : \E cut \in SUBSET told :
                 roomy' = roomy \ (tight \cup cut) /\ Close(cut)
        /\ pausing' = FALSE
        /\ UNCHANGED <<stalled, full>>
  /\ UNCHANGED <<mailVars, left, held, pollDue, saving, late, unmet, overdue,
                 failed, handled>>

\* Second part: Step::Full while a client lacks headroom; otherwise an action
\* (Progress) or none that may be taken (Blocked).
StepActs ==
  /\ pc = "act"
  /\ Publish
  /\ \/ /\ Lacking # {}
        /\ full' = Lacking /\ pc' = "stall"
        /\ UNCHANGED <<stalled, unsaved>>
     \/ /\ Lacking = {}
        /\ full' = {}
        /\ MayRecord
        /\ ClearClocks
        /\ pc' \in {"top", "select"}
  /\ UNCHANGED <<mailVars, left, held, pollDue, saving, late, unmet, overdue,
                 failed, handled>>

\* (Mutant: every look restarts the clock.)
SeenNow(c) == 0

\* When a client was first seen nearly full.
FirstSeen(c) == IF stalled[c] = None THEN 0 ELSE stalled[c]

Seen == [c \in Clients |-> IF c \in full THEN FirstSeen(c) ELSE None]

\* Disconnect the clients that have been nearly full for STALL, or wait.
StallCheck ==
  /\ pc = "stall"
  /\ LET expired == {c \in Clients : Seen[c] >= Stall}
     IN  /\ stalled' = [c \in Clients |-> IF c \in expired THEN None ELSE Seen[c]]
         /\ IF expired \cap clients = {} THEN UNCHANGED <<clients, roomy, pausing, task>>
            ELSE Depart(expired)
         /\ pc' = IF expired = {} THEN "select" ELSE "top"
         /\ full' = IF expired = {} THEN full ELSE {}
  /\ UNCHANGED <<mailVars, left, held, pollDue, saving, late, unmet,
                 saveVars, handled>>

\* tokio::select!: mail, headroom of a full client (the code waits for that of
\* the lowest identity), the nearest stall deadline or the poll.
Select ==
  /\ pc = "select"
  /\ \/ Deliver("top") /\ UNCHANGED left
     \/ Disconnected /\ StopDisconnected
     \/ /\ \/ \E c \in full : c \in roomy \/ c \notin clients
           \/ \E c \in Clients : stalled[c] >= Stall
           \/ pollDue
        /\ Go("top") /\ UNCHANGED left

-----------------------------------------------------------------------------
(* The connection tasks, the server, the save and time *)

Post(m) == Running /\ Len(mailbox) < Capacity /\ mailbox' = Append(mailbox, m)

Connect(c) ==
  /\ senders /\ task[c] = "outside"
  /\ Post(Mail("connect", c, 0))
  /\ task' = [task EXCEPT ![c] = "connecting"]
  /\ UNCHANGED <<senders, arrived, loopVars, serviceVars, saveVars, handled>>

Request(c) ==
  /\ senders /\ task[c] = "open"
  /\ \/ /\ arrived < MaxCommands
        /\ Post(Mail("command", c, arrived + 1))
        /\ arrived' = arrived + 1
     \/ /\ \E kind \in Requests : Post(Mail(kind, c, 0))
        /\ UNCHANGED arrived
  /\ UNCHANGED <<senders, loopVars, serviceVars, task, saveVars, handled>>

\* The peer leaves, or the service has closed the stream.
TaskEnds(c) ==
  /\ senders /\ task[c] \in {"open", "closing"}
  /\ Post(Mail("disconnect", c, 0))
  /\ task' = [task EXCEPT ![c] = "ended"]
  /\ UNCHANGED <<senders, arrived, loopVars, serviceVars, saveVars, handled>>

\* The client reads: its stream has headroom again.
Drain(c) ==
  /\ Running /\ task[c] = "open" /\ c \in clients \ roomy
  /\ roomy' = roomy \cup {c}
  /\ UNCHANGED <<mailVars, loopVars, clients, pausing, saving, late, unmet,
                 task, saveVars, handled>>

\* serve is told to shut down, once.
Shutdown ==
  /\ senders
  /\ \A i \in DOMAIN mailbox : mailbox[i].kind # "shutdown"
  /\ Post(Mail("shutdown", None, 0))
  /\ UNCHANGED <<senders, arrived, loopVars, serviceVars, task, saveVars, handled>>

\* serve is dropped instead: its tasks end without a word, and no sender is left.
SendersGone ==
  /\ Running /\ senders
  /\ senders' = FALSE
  /\ task' = [c \in Clients |-> "ended"]
  /\ UNCHANGED <<mailbox, arrived, loopVars, serviceVars, saveVars, handled>>

\* The worker drains the whole queue into a batch and commits it, or fails;
\* unsaved entries grow old.
SaveCommits ==
  /\ Running /\ unsaved > 0 /\ ~failed
  /\ \/ unsaved' = 0 /\ unmet' = {}
     \/ unsaved = 2 /\ unsaved' = 1 /\ unmet' \in SUBSET unmet
  /\ overdue' = FALSE
  /\ UNCHANGED <<mailVars, loopVars, clients, roomy, pausing, saving, late,
                 task, failed, handled>>

SaveFails ==
  /\ Running /\ unsaved > 0
  /\ failed' = TRUE
  /\ UNCHANGED <<mailVars, loopVars, serviceVars, task, unsaved, overdue, handled>>

SaveLate ==
  /\ Running /\ unsaved > 0
  /\ overdue' = TRUE
  /\ UNCHANGED <<mailVars, loopVars, serviceVars, task, unsaved, failed, handled>>

Older(n) == IF n \in {None, Stall} THEN n ELSE n + 1

\* Time passes; ages stop at the limits they are compared with.
Tick ==
  /\ Running
  /\ stalled' = [c \in Clients |-> Older(stalled[c])]
  /\ pollDue' = TRUE
  /\ late' = saving
  /\ UNCHANGED <<mailVars, pc, left, held, full, clients, roomy, pausing, saving,
                 unmet, task, saveVars, handled>>

-----------------------------------------------------------------------------
Init ==
  /\ mailbox = <<>> /\ senders = TRUE /\ arrived = 0
  /\ pc = "top" /\ left = Capacity /\ held = <<>>
  /\ stalled = [c \in Clients |-> None] /\ full = {} /\ pollDue = FALSE
  /\ clients = {} /\ roomy = {} /\ pausing = FALSE
  /\ saving = {} /\ late = {} /\ unmet = {}
  /\ task = [c \in Clients |-> "outside"]
  /\ unsaved = 0 /\ overdue = FALSE /\ failed = FALSE
  /\ handled = 0

Loop ==
  Top \/ Release \/ Batch \/ Poll \/ StepPauses \/ StepActs \/ StallCheck \/ Select

Next ==
  \/ Loop
  \/ \E c \in Clients : Connect(c) \/ Request(c) \/ TaskEnds(c) \/ Drain(c)
  \/ Shutdown \/ SendersGone
  \/ SaveCommits \/ SaveFails \/ SaveLate
  \/ Tick

Spec == Init /\ [][Next]_vars

\* The thread runs and time passes.  Clients, the disk and the server that
\* shuts down owe nothing.
FairSpec == Spec /\ WF_vars(Loop) /\ WF_vars(Tick)

-----------------------------------------------------------------------------
(* Properties *)

\* The type invariant.
TypeOK ==
  /\ mailbox \in Seq(Mails) /\ Len(mailbox) <= Capacity
  /\ senders \in BOOLEAN /\ arrived \in 0..MaxCommands
  /\ pc \in {"top", "release", "batch", "poll", "step", "act", "stall", "select",
             "stopped"}
  /\ left \in 0..Capacity
  /\ held \in Seq(Mails) /\ \A i \in DOMAIN held : held[i].kind = "command"
  /\ stalled \in [Clients -> {None} \cup 0..Stall] /\ full \subseteq Clients
  /\ pollDue \in BOOLEAN
  /\ clients \subseteq Clients /\ roomy \subseteq clients /\ pausing \in BOOLEAN
  /\ saving \subseteq Clients /\ late \subseteq saving /\ unmet \subseteq saving
  /\ task \in [Clients -> {"outside", "connecting", "open", "closing", "ended"}]
  /\ unsaved \in 0..2 /\ overdue \in BOOLEAN /\ failed \in BOOLEAN
  /\ handled \in 0..MaxCommands

IsCommand(m) == m.kind = "command"

\* Player commands are handled in the order in which they arrived, although
\* only some of them are held back ("a later command never overtakes a held
\* one").
CommandsInOrder ==
  LET waiting  == held \o mailbox
      commands == {i \in DOMAIN waiting : IsCommand(waiting[i])}
  IN  /\ \A i \in commands : waiting[i].number > handled
      /\ \A i, j \in commands : i < j => waiting[i].number < waiting[j].number

\* Held commands are released once saving has caught up.
HeldAreReleased ==
  <>[]~overdue => []<>(held = <<>> \/ pc = "stopped")

\* Every explicit save is answered, or its client is gone: durable, failed,
\* or behind after its wait, whatever mail keeps arriving.
SavesAnswered ==
  \A c \in Clients : (c \in saving) ~> (c \notin saving \/ pc = "stopped")

\* Arriving mail never starves the game: the loop comes to its step again.
PlayNotStarved == []<>(pc \in {"step", "stopped"})

\* A client that stays nearly full is disconnected, so it cannot stop play,
\* provided that saving keeps up.
FullIsDisconnected ==
  <>[](~overdue /\ ~pausing) =>
    \A c \in Clients : []<>(c \notin clients \ roomy)

\* A shutdown that is asked for happens, also while saving is overdue.
ShutdownStops ==
  (\E i \in DOMAIN mailbox : mailbox[i].kind = "shutdown") ~> (pc = "stopped")
=============================================================================
