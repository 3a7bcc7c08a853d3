SPECIFICATION Spec
CONSTANTS
  Addrs = {1, 2, 3}
  Null = 0
  Types <- MCTypes
  Text = "text"
  RootType = "node"
  Layout <- MCLayout
  Contents <- AllContents
  MaxCalls = 1
  MaxWrites = 0
INVARIANT ReusedIsLoaded
\* the client stops calling
CHECK_DEADLOCK FALSE
