SPECIFICATION Spec
CONSTANTS
  Documents <- SomeDocuments
  Requests <- SomeRequests
  Snis <- SomeSnis
  MaxLoads = 1
INVARIANTS
  EscapesAreEscapes
