SPECIFICATION Spec
CONSTANTS
  Addrs = {1, 2, 3}
  Null = 0
  Types <- MCTypes
  Text = "text"
  RootType = "node"
  Layout <- MCLayout
  Contents <- SomeContents
  MaxCalls = 2
  MaxWrites = 1
INVARIANT TypeOK
INVARIANT NoReentry
INVARIANT SharingKept
INVARIANT GraphIsMemory
INVARIANT NothingSkipped
INVARIANT RereadSame
PROPERTY UnmarshalReturns
\* the client stops calling
CHECK_DEADLOCK FALSE
