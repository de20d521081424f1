\* Any host: two threads, any call, any order.
SPECIFICATION Spec
CONSTANTS
  t1 = t1
  t2 = t2
  Threads <- MCThreads
  MaxHandle = 2
INVARIANTS
  SuccessIsTrue
  MetaFollowsSession
  ResponseIsThere
PROPERTIES
  NothingAfterEnd
  VerdictStaysShown
SYMMETRY Symmetry
