------------------------------ MODULE Preload ------------------------------
(***************************************************************************)
(* The region preloader (crates/server/src/preload.rs): one thread that    *)
(* prepares regions the next commands are likely to load, and the engine   *)
(* thread that says what it wants, takes what is ready, and waits for the  *)
(* floor groups it cannot go on without.                                   *)
(*                                                                         *)
(* One action is one critical section of the mutex around `State`.  A job  *)
(* is a number, in the order of the code's `Job`: groups come first.  The  *)
(* maps `ready` and `ready_groups` have disjoint keys and are one set.     *)
(***************************************************************************)
EXTENDS Integers, Sequences, FiniteSets, SequencesExt

CONSTANTS
  LastJob,      \* jobs are 1..LastJob
  LastGroup,    \* those up to LastGroup are Job::Group
  TotalCost,    \* Inner::total_cost: what the results of a set of jobs weigh
  Limit,        \* the weight that `fits`
  MaxWants      \* bound: how many jobs one call of want names

Jobs == 1..LastJob
Groups == 1..LastGroup
NoJob == 0

ASSUME CostAssumption ==
  /\ LastJob \in Nat /\ LastGroup \in 0..LastJob
  /\ Limit \in Nat /\ MaxWants \in Nat
  /\ TotalCost \in [SUBSET Jobs -> Nat]
  /\ TotalCost[{}] = 0
  /\ \A S, T \in SUBSET Jobs :
       S \cap T = {} => TotalCost[S \cup T] = TotalCost[S] + TotalCost[T]

VARIABLES
  queue,     \* jobs still to do, in request order
  running,   \* the job the thread is doing
  prepared,  \* the finished jobs not yet taken
  wanted,    \* the jobs whose results are kept
  demanded,  \* the groups a caller waits for
  stop,      \* the preloader is being dropped
  worker,    \* where the thread is
  caller,    \* where the engine thread is
  asked      \* the group it demands

shared == <<queue, running, prepared, wanted, demanded, stop>>
vars == <<shared, worker, caller, asked>>

Cost(job) == TotalCost[{job}]

\* What the running job will add to what is wanted, when nobody wants it.
ObsoleteCost(w) == IF running = NoJob \/ running \in w THEN 0 ELSE Cost(running)

-----------------------------------------------------------------------------
(* The condition variable, signalled with notify_all *)

\* (Mutant: only when there is work.)
WakeThreadForWork ==
  worker' = IF worker = "waiting" /\ queue' # <<>> THEN "looking" ELSE worker

\* The engine thread signals: only the preloading thread can be waiting.
WakeThread == worker' = IF worker = "waiting" THEN "looking" ELSE worker

\* (Mutant: only the caller of settle is told.)
TellNobody == UNCHANGED caller

\* The preloading thread signals.
WakeCaller == caller' = IF caller = "waiting" THEN "woken" ELSE caller

-----------------------------------------------------------------------------
(* want *)

\* `first`, and behind it the jobs of a list that are due, nothing twice.
Enlisted(first, jobs, due) ==
  LET list[i \in 0..Len(jobs)] ==
        IF i = 0 THEN first
        ELSE IF jobs[i] \in due /\ ~Contains(list[i - 1], jobs[i])
               THEN Append(list[i - 1], jobs[i])
               ELSE list[i - 1]
  IN  list[Len(jobs)]

Ascending == [j \in 1..LastJob |-> j]

\* (Mutant: the job that runs is queued again.)
QueueEvenRunning(w, jobs) ==
  LET due == w \ prepared
  IN  Enlisted(Enlisted(<<>>, Ascending, due \cap demanded), jobs, due)

\* Demanded jobs first, then the order of the call; nothing twice, nothing
\* that is prepared or running.
QueueOf(w, jobs) ==
  LET due == w \ (prepared \cup {running})
  IN  Enlisted(Enlisted(<<>>, Ascending, due \cap demanded), jobs, due)

\* Beside what is demanded, and from the cost `base` on, each job of the call
\* in turn while it still fits, at the cost `extra`.
WantedFrom(base, extra, jobs) ==
  LET sum[i \in 0..Len(jobs)] ==
        IF i = 0 THEN [set |-> demanded, cost |-> base]
        ELSE LET acc == sum[i - 1]
                 j   == jobs[i]
             IN  IF j \notin acc.set /\ acc.cost + extra[j] <= Limit
                   THEN [set |-> acc.set \cup {j}, cost |-> acc.cost + extra[j]]
                   ELSE acc
  IN  sum[Len(jobs)].set

\* (Mutant: the running job's weight is not counted.)
AdmittedBesideRunning(jobs) ==
  WantedFrom(TotalCost[demanded], [j \in Jobs |-> Cost(j)], jobs)

\* The running job is counted from the start.
Admitted(jobs) ==
  WantedFrom(TotalCost[demanded] + ObsoleteCost(demanded),
             [j \in Jobs |-> IF running = j THEN 0 ELSE Cost(j)], jobs)

Want(jobs) ==
  /\ caller = "idle"
  /\ wanted' = Admitted(jobs)
  /\ prepared' = prepared \cap wanted'
  /\ queue' = QueueOf(wanted', jobs)
  /\ WakeThread
  /\ UNCHANGED <<running, demanded, stop, caller, asked>>

\* take: a prepared single region, used once.
Take(job) ==
  /\ caller = "idle"
  /\ job \in prepared \ Groups
  /\ prepared' = prepared \ {job}
  /\ UNCHANGED <<queue, running, wanted, demanded, stop, worker, caller, asked>>

-----------------------------------------------------------------------------
(* demand_group *)

\* Whether a demand is served by the thread; if not, the caller prepares the
\* group itself and nothing here changes.
Served(job) ==
  /\ Cost(job) <= Limit
  /\ job \in demanded \/ TotalCost[demanded] + Cost(job) <= Limit

\* Speculative jobs are given up from the greatest down, until the demanded
\* one fits beside them and beside an obsolete running job.
KeptWith(job) ==
  LET all == wanted \cup {job}
      must == demanded \cup {job}
      upTo(k) == must \cup {j \in all : j <= k}
      fits(w) == TotalCost[w] + ObsoleteCost(w) <= Limit
      cuts == {k \in 0..LastJob : fits(upTo(k))}
  IN  IF cuts = {} THEN must
      ELSE upTo(CHOOSE k \in cuts : \A other \in cuts : other <= k)

\* (Mutant: behind what is queued.)
QueuedLast(job, q) == Append(Enlisted(<<>>, q, Jobs \ {job}), job)

QueuedFirst(job, q) == Enlisted(<<job>>, q, Jobs)

\* Reserve room and put the group at the head of the queue, unless it is
\* running or ready.  After the cut, no stale result is left to drop: what is
\* prepared is wanted, and what is wanted fits (BudgetHeld).
Demand(job) ==
  /\ caller = "idle"
  /\ Served(job)
  /\ demanded' = demanded \cup {job}
  /\ wanted' = KeptWith(job)
  /\ prepared' = prepared \cap wanted'
  /\ LET kept == Enlisted(<<>>, queue, wanted')
     IN  queue' = IF job \in prepared' \/ running = job THEN kept
                  ELSE QueuedFirst(job, kept)
  /\ WakeThread
  /\ caller' = "woken"
  /\ asked' = job
  /\ UNCHANGED <<running, stop>>

\* One turn of the wait: the result is there, or wait for the next signal.
DemandTurn ==
  /\ caller = "woken"
  /\ \/ /\ asked \in prepared
        /\ prepared' = prepared \ {asked}
        /\ demanded' = demanded \ {asked}
        /\ wanted' = wanted \ {asked}
        /\ caller' = "idle"
        /\ asked' = NoJob
     \/ /\ asked \notin prepared
        /\ caller' = "waiting"
        /\ UNCHANGED <<prepared, demanded, wanted, asked>>
  /\ UNCHANGED <<queue, running, stop, worker>>

-----------------------------------------------------------------------------
(* The preloading thread (run) and the drop of its last handle *)

ThreadStart ==
  /\ worker = "looking"
  /\ ~stop /\ queue # <<>>
  /\ running' = Head(queue)
  /\ queue' = Tail(queue)
  /\ worker' = "working"
  /\ UNCHANGED <<prepared, wanted, demanded, stop, caller, asked>>

ThreadWait ==
  /\ worker = "looking"
  /\ ~stop /\ queue = <<>>
  /\ worker' = "waiting"
  /\ UNCHANGED <<shared, caller, asked>>

ThreadExit ==
  /\ worker = "looking"
  /\ stop
  /\ worker' = "exited"
  /\ UNCHANGED <<shared, caller, asked>>

Kept(job) == job \in wanted /\ TotalCost[prepared] + Cost(job) <= Limit

\* (Mutant: the job is left in place.)
LeaveRunning == UNCHANGED running

ClearRunning == running' = NoJob

\* A group always leaves a result, if only a failure; another job may fail
\* and leave none.
ThreadFinish ==
  /\ worker = "working"
  /\ \/ prepared' = IF Kept(running) THEN prepared \cup {running} ELSE prepared
     \/ running \notin Groups /\ UNCHANGED prepared
  /\ ClearRunning
  /\ worker' = "looking"
  /\ WakeCaller
  /\ UNCHANGED <<queue, wanted, demanded, stop, asked>>

\* A wait may end without a signal.
SpuriousWake ==
  /\ \/ worker = "waiting" /\ worker' = "looking" /\ UNCHANGED caller
     \/ caller = "waiting" /\ caller' = "woken" /\ UNCHANGED worker
  /\ UNCHANGED <<shared, asked>>

\* Dropping borrows the preloader exclusively, so no caller is waiting.
Drop ==
  /\ caller = "idle"
  /\ stop' = TRUE
  /\ caller' = "joining"
  /\ UNCHANGED <<queue, running, prepared, wanted, demanded, asked>>
  /\ WakeThread

-----------------------------------------------------------------------------
Init ==
  /\ queue = <<>> /\ running = NoJob
  /\ prepared = {} /\ wanted = {} /\ demanded = {}
  /\ stop = FALSE
  /\ worker = "looking"
  /\ caller = "idle" /\ asked = NoJob

Wants == UNION {[1..n -> Jobs] : n \in 0..MaxWants}

Thread == ThreadStart \/ ThreadWait \/ ThreadExit \/ ThreadFinish

Next ==
  \/ \E jobs \in Wants : Want(jobs)
  \/ \E job \in Jobs : Take(job)
  \/ \E job \in Groups : Demand(job)
  \/ DemandTurn
  \/ Thread
  \/ SpuriousWake
  \/ Drop

Spec == Init /\ [][Next]_vars

\* The thread is scheduled, a job ends, and a woken caller runs.
FairSpec == Spec /\ WF_vars(Thread) /\ WF_vars(DemandTurn)

-----------------------------------------------------------------------------
(* Properties *)

\* The type invariant: `running` names a job exactly while the thread works,
\* and a group is asked for exactly while its caller is in demand_group.
TypeOK ==
  /\ queue \in Seq(Jobs)
  /\ running \in Jobs \cup {NoJob}
  /\ prepared \subseteq Jobs /\ wanted \subseteq Jobs /\ demanded \subseteq Groups
  /\ stop \in BOOLEAN
  /\ worker \in {"looking", "waiting", "working", "exited"}
  /\ caller \in {"idle", "woken", "waiting", "joining"}
  /\ asked \in Groups \cup {NoJob}
  /\ running = NoJob <=> worker # "working"
  /\ asked = NoJob <=> caller \notin {"woken", "waiting"}

\* What is prepared or queued is wanted, and all of it fits the budget
\* together with the job that runs; only a demand that has displaced every
\* speculation may meet an obsolete job still running.
BudgetHeld ==
  /\ prepared \cup ToSet(queue) \subseteq wanted
  /\ TotalCost[wanted] <= Limit
  /\ TotalCost[wanted] + ObsoleteCost(wanted) > Limit => wanted = demanded

\* No job is done twice: queued, running and prepared exclude each other, and
\* a job is queued once.
NoDuplicateWork ==
  /\ \A i, j \in DOMAIN queue : queue[i] = queue[j] => i = j
  /\ ToSet(queue) \cap (prepared \cup {running}) = {}
  /\ running \notin prepared

\* A caller never waits behind speculation: its group is ready, running, or
\* the next job.
DemandIsNext ==
  caller \in {"woken", "waiting"} =>
    \/ asked \in prepared
    \/ asked = running
    \/ queue # <<>> /\ Head(queue) = asked

\* A demanded group always reaches its caller.
DemandReturns == (caller = "woken") ~> (caller = "idle")

\* Dropping the preloader ends its thread, whatever is still queued.
DropJoins == stop ~> (worker = "exited")
=============================================================================
