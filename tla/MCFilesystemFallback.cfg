SPECIFICATION Spec
CONSTANTS
  Prefix = {"outer"}
  Under <- Single
  Blob = {"d"}
  Sharded = {"d"}
  Config = "config"
  Bodies <- MCBodies
  Legacy = {"d"}
  Op = {s1}
  PowerFails = FALSE
  LooksFail = FALSE
  Nil = Nil
  Torn = Torn
INVARIANTS
  FallbackReads
