SPECIFICATION PlaneSpec
CONSTANTS
  x = x  y = y
  Base <- MCBase
  Digests <- MCDigests
  AttemptIds <- MCAttemptIds
  NoReadback = NoReadback
  PacketAttempt = "attempt-1"
  Answers = {"SUCCESS", "FAILURE", "TIMEOUT"}
SYMMETRY DigestsAreAlike
CHECK_DEADLOCK FALSE
INVARIANTS
  ReservationsAgree
  CommitIsEarned
  CompensationIsGrounded
