----------------------------- MODULE MCSession -----------------------------
EXTENDS Session

CONSTANTS a1, a2

MCClients == 1..2
MCRole    == [c \in MCClients |-> IF c = 2 THEN "wizard" ELSE "player"]
MCAllowed == [c \in MCClients |-> IF c = 1 THEN {a1} ELSE {a1}]
=============================================================================
