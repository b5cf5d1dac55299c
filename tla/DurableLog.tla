----------------------------- MODULE DurableLog -----------------------------
(***************************************************************************)
(* What a save promises to the engine that fills it: one log of accepted   *)
(* entries, a stable prefix of it, and the length of the prefix a caller   *)
(* of Store::flush has been told is saved.  A restart keeps the stable     *)
(* prefix and nothing else.  Storage.tla is shown to implement this module *)
(* (ImplementsDurableLog).                                                 *)
(***************************************************************************)
EXTENDS Naturals, Sequences

CONSTANT Entry    \* what one accepted journal entry can be

VARIABLES
  log,       \* every accepted entry, in acceptance order
  stable,    \* the length of the prefix a restart will find
  promised   \* the length of the prefix some flush has reported as saved

logVars == <<log, stable, promised>>

LogTypeOK ==
  /\ log \in Seq(Entry)
  /\ stable \in Nat
  /\ promised \in Nat

LogInit ==
  /\ log = <<>>
  /\ stable = 0
  /\ promised = 0

\* The log grows by one entry at its end, and nothing before it changes.
Accept ==
  /\ Len(log') = Len(log) + 1
  /\ log'[Len(log) + 1] \in Entry
  /\ SubSeq(log', 1, Len(log)) = log
  /\ UNCHANGED <<stable, promised>>

\* One transaction makes some more of the log stable, never less.
Harden(n) ==
  /\ n \in (stable + 1)..Len(log)
  /\ stable' = n
  /\ UNCHANGED <<log, promised>>

\* A flush reports a prefix that is already stable.
Promise(n) ==
  /\ n \in promised..stable
  /\ promised' = n
  /\ UNCHANGED <<log, stable>>

\* A crash or a close loses the unsaved tail as a whole.
Restart ==
  /\ log' = SubSeq(log, 1, stable)
  /\ UNCHANGED <<stable, promised>>

LogNext ==
  \/ Accept
  \/ \E n \in (stable + 1)..Len(log) : Harden(n)
  \/ \E n \in promised..stable : Promise(n)
  \/ Restart

LogSpec == LogInit /\ [][LogNext]_logVars

(***************************************************************************)
(* A prefix reported as saved is on stable storage, and the stable prefix  *)
(* is a prefix of what was accepted.                                       *)
(***************************************************************************)
PromiseIsStable == promised <= stable /\ stable <= Len(log)
=============================================================================
