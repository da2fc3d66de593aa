----------------------------- MODULE WriteOnce -----------------------------
(***************************************************************************)
(* A register that is written at most once: the promise behind each part   *)
(* of the settlement journal (decision D-014 of docs/00-decision-log.md).  *)
(***************************************************************************)
CONSTANTS
  Values,   \* what may be written
  Unset     \* the register before that

VARIABLE value

Init == value = Unset

Write == value = Unset /\ value' \in Values

Spec == Init /\ [][Write]_value
=============================================================================
