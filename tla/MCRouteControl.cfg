CONSTANT MaxSize = 3
SPECIFICATION Spec
INVARIANTS
  RunsOneRoute
  RecordsOneRoute
  
