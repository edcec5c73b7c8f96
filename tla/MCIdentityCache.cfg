SPECIFICATION Spec
CONSTANTS
  Address = {a, b}
  Machine = {"m1", "m2"}
  Hostnames <- MCHostnames
  WhoIsNames <- MCWhoIsNames
  Short <- MCShort
  TTL = 2
  Timeout = 1
  MaxSize = 1
  Failures = 1
  Changes = 1
  NoAddress = none
  Request = {r1, r2}
INVARIANTS
  CacheConsistent
  BoundedStaleness
PROPERTIES
  EventuallyTrue
