SPECIFICATION Spec
CONSTANTS
  Backend = {"s3", "webdav", "rclone"}
  Prefix = {"a", "ab"}
  Active = {"a"}
  Starts <- MCStarts
  Under <- MCUnder
  Blob = {"d"}
  Sharded = {"d"}
  Config = "config"
  Bodies <- MCBodies
  Legacy = {"d"}
  Misread = {"d"}
  Rank <- MCRank
  Op = {s1, s2}
  MaxLate = 1
  Nil = Nil
  Torn = Torn
SYMMETRY Symmetry
INVARIANTS
  TornBlamed
  AnswersTrue
  RepoGone
PROPERTIES
  Isolated
  ImplementsStore
