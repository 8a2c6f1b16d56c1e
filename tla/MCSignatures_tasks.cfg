\* every task type with up to three inputs
SPECIFICATION Spec
CONSTANTS
  int = int
  double = double
  i1 = i1
  i2 = i2
  d1 = d1
  v1 = v1
  void = void
  Void = Void
  None = None
  Types <- Values
  Edges <- SomeEdges
  EdgeType <- TypeOfEdge
  TypeLists <- Lists
  ReturnTs = {int, void}
  Callables <- SomeCallables
INVARIANTS FilterInv ArgumentsHaveTheirTypes LookupByTypeIsUnambiguous
CHECK_DEADLOCK FALSE
