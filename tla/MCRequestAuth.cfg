SPECIFICATION AuthSpec
CONSTANTS
  Path <- MCPaths
  Identity = {"x", "y"}
  Wildcard = "*"
  RuleLists <- AllLists
  DefaultPerm = 1
  Hex = {"ab", "a", "b"}
  Bad = {"n"}
  Calls <- MCCalls
INVARIANTS
  ResultFromDeepest
  DecisionCoversEffect
  NoPartOfARepository
  Serves
  RowFound
