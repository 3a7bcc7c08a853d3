SPECIFICATION Spec
CONSTANTS
  Addrs = {0, 1, 2, 3}
  Requests <- MCRequests
  MaxIov = 2
  MaxAdds = 3
  MaxClock = 1
INVARIANT TypeOK
INVARIANT FlushFills
INVARIANT FailureIsPrefix
INVARIANT FailsForReason
PROPERTY BytesKept
PROPERTY FlushReturns
