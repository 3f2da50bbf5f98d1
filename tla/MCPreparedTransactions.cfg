SPECIFICATION RunSpec
CONSTANTS
  Call = {c1, c2}
  Hash = {h1, h2}
  NoHash = NoHash
  MaxGeneration = 2
  MaxU64 = 7
  Scale = 2
  Radix = 2
  Precision = 4
  Grain = 8
  MaxError = 1
  Xelis = "xelis"
  BadAsset = "bad"
  NoData = NoData
  Nobody <- MCNobody
  Invalid = Invalid
  Decimals <- MCDecimals
  Request <- MCRequest
  MaxTransfers = 2
  Input <- MCInput
  Policy <- MCPolicy
  BaseFee = {1, 3}
SYMMETRY Symmetry
INVARIANTS
  ReviewIsTransaction
  AmountsExact
PROPERTY
  ImplementsContract
