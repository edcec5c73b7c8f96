SPECIFICATION Spec
CONSTANTS
  Prefix = {p1}
  Blob = {d, l}
  Lock = {l}
  Config = config
  Content = {0, 1, 2}
  Size <- MCSize
  MaxBytes = 3
  Nil = Nil
  Client = {0, 1, 2, 3}
  Level <- MCLevel
  Bodies <- Addressed
  MaxInt = 3
  Request = {r1, r2}
INVARIANTS
  AccountingExact
  QuotaRespected
  TypeOK
  RangeHeadersMatchBody
PROPERTIES
  MemImplementsStore
  ChangesAuthorised
  AppendOnlyKeepsData
  LateConfigSaveRefused
