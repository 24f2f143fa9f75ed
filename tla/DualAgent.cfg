SPECIFICATION Spec
CONSTANTS
  Base <- MCBase
  Digests <- MCDigests
  AttemptIds <- MCAttemptIds
  NoReadback = NoReadback
  PacketAttempt = "attempt-1"
  Answers = {"SUCCESS", "TIMEOUT"}
  MaxAttempts = 2
  SideEffectClass = "REVERSIBLE_WRITE"
  Effects <- MCBase
  NoEffect = NoEffect
CHECK_DEADLOCK FALSE
INVARIANTS
  CancelIsHonoured
PROPERTIES
  DispatchIsLicensed
