SPECIFICATION Spec
CONSTANTS
  NumIds = 1
  Poison = {}
  Relays = {r1, r2}
  Batch = 1
  Lease = 1
  StaleBackoff = 1
  MaxBackoff = 1
  MaxAttempts = 1
  MaxFaults = 1
PROPERTIES LateMarkIsNoOp
