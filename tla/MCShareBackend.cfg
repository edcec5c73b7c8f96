SPECIFICATION Spec
CONSTANTS
  Prefix = {"top"}
  Top = "top"
  Blob = {"d", "k"}
  Sharded = {"d"}
  Config = "config"
  Bodies <- MCBodies
  Legacy = {"d"}
  Nil = Nil
  Torn = Torn
INVARIANTS
  OneConnection
  WholeObjects
  LeftoversBlamed
  AnswersTrue
PROPERTIES
  ImplementsStore
