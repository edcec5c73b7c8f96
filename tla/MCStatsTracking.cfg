SPECIFICATION Spec
CONSTANTS
  Prefix = {"", "p"}
  Root = ""
  Blob = {"b"}
  Size <- MCSize
  Slash = "/"
  MaxCalls = 4
  Request = {r1, r2}
INVARIANTS
  CountsExact
  NeverOvercounted
