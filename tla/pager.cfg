SPECIFICATION Spec
CONSTANTS
  Files <- SomeFiles
  Empty = Empty
  PAGE_SZ = 4
  MaxFailures = 2
INVARIANTS TypeOK WholePosts AllSent PagesFull NothingLeft NoFault
