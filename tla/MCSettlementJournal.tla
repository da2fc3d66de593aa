------------------------ MODULE MCSettlementJournal ------------------------
(* SettlementJournal for TLC. The writers run the same code, and neither the *)
(* evidences nor the references are told apart by it.                        *)
EXTENDS SettlementJournal, TLC

Symmetry == Permutations(Writers) \cup Permutations(Evidences) \cup Permutations(References)
=============================================================================
