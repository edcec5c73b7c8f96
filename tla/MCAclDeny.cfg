SPECIFICATION Spec
CONSTANTS
  Path <- MCPath
  Identity = {"x", "y"}
  Wildcard = "*"
  RuleLists <- MCRuleLists
  DefaultPerm = 1
INVARIANTS
  DenyIsAbsolute
