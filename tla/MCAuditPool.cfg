CONSTANTS
  p = p
  l = l
  q = q
  Handlers = {p, l, q}
  Does <- MCDoes
  MaxConns = 2
SPECIFICATION Spec
INVARIANT NoConnectionLeaks
INVARIANT NoHoldAndWait
INVARIANT PoolInv
PROPERTY ImplementsStatements
PROPERTY WaitsEnd
