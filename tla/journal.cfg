SPECIFICATION Spec
CONSTANTS
  Writers = {w1, w2}
  Evidences = {e1, e2}
  References = {s1, s2}
  None = None
SYMMETRY Symmetry
INVARIANTS TypeOK WritersAgree ConfirmedWithoutFailure
PROPERTIES EvidenceOnce ReferenceOnce OutcomeMonotone
CHECK_DEADLOCK FALSE
