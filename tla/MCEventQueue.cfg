CONSTANTS
  MaxQueueLength = 2
  Readers = {r1, r2}
  Types = {wanted, other}
  NoFilter = NoFilter
  RepositoryId = wanted
  MaxEvents = 8
SPECIFICATION Spec
INVARIANTS NoDanglingRead
PROPERTIES InOrder ImplementsStream
SYMMETRY Symmetry
