----------------------------- MODULE MCPreload -----------------------------
(* An instance of Preload for TLC: three groups, a build and a read against *)
(* a budget of 5, so that a demand may displace speculation, two groups may *)
(* or may not fit together, and one group never fits.                       *)
EXTENDS Preload, FiniteSetsExt

MCWeight == <<2, 3, 6, 2, 1>>
MCTotalCost == [S \in SUBSET (1..5) |-> MapThenSumSet(LAMBDA j : MCWeight[j], S)]
=============================================================================
