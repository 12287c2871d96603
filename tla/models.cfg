CONSTANTS
  Nil = Nil
  Malformed = Malformed
  Names = {"a", "b"}
  URIs = {"u1", "u2", Malformed}
  Credentials = {"token", Malformed}
  NodeSelectors = {"gpu"}
  NodeNames = {"n1"}
  Counts <- CountsDef
  MaxCreates = 2
SPECIFICATION Spec
INVARIANT ArtifactIsFixed
CHECK_DEADLOCK FALSE
