SPECIFICATION Spec
CONSTANTS
  Prefix = {"outer"}
  Under <- Single
  Blob = {"k"}
  Sharded = {}
  Config = "config"
  Bodies <- OneBody
  Legacy = {}
  Op = {s1, s2}
  PowerFails = TRUE
  LooksFail = TRUE
  Nil = Nil
  Torn = Torn
SYMMETRY Symmetry
INVARIANTS
  WholeFiles
