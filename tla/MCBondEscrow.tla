---------------------------- MODULE MCBondEscrow ----------------------------
(* BondEscrow for TLC: an agent that may open any of the bonds, a merchant, *)
(* and either of them (or both in one key) as settlement authority.         *)
EXTENDS BondEscrow

CONSTANTS a, m

\* Every bond address is derived from the key of the one agent.
MCAgent == [b \in Bonds |-> a]
=============================================================================
