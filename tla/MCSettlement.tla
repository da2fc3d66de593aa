---------------------------- MODULE MCSettlement ----------------------------
(* Settlement for TLC: who takes part in a run, and the limits of the       *)
(* policy that the intent compilers produce, in calls of the model.         *)
EXTENDS Settlement

\* compiler.py allows one reservation, one release, one consumption and two
\* expire calls; one read stands for all the others.
MCMaxCalls == [op \in Operations |-> IF op = "expire" THEN 2 ELSE 1]
=============================================================================
