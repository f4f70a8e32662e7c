SPECIFICATION Spec
CONSTANTS
  c1 = c1
  c2 = c2
  k1 = k1
  k2 = k2
  Clients <- MCClients
  Conns <- MCConns
  NoConn = NoConn
  Empty = Empty
  Full = Full
  NKeys = 4
  Matching <- MCMatching
  Unnamed <- MCUnnamed
  Retries = 2
  MaxEmptyPages = 2
  Programs <- MCPrograms
  MaxFaults = 2
  MaxAdds = 1
SYMMETRY Symmetry
INVARIANTS
  PoolIsClean
  AppliedOncePerAnswer
  RemovexExact
  ResultIsTold
CHECK_DEADLOCK FALSE
