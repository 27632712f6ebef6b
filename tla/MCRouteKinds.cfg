CONSTANT MaxSize = 2
SPECIFICATION Spec
INVARIANT OneRouteKind
