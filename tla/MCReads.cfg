SPECIFICATION RunSpec
CONSTANTS
  Asset = {xelis, a1}
  Xelis = xelis
  BadHash = bad
  Call <- MCCall
  NoCall = NoCall
  MaxBalance = 1
  Sink = {s1, s2}
  c1 = c1
  c2 = c2
  c3 = c3
  NoPayload = NoPayload
  NoLimit = NoLimit
  NoAddress = NoAddress
  NoAsset = NoAsset
  NoFile = NoFile
  NoSink = NoSink
  Emitter = {c1, c2}
  MaxLevel = 2
  mainnet = mainnet
  testnet = testnet
  k1 = k1
SYMMETRY Symmetry
INVARIANTS
  ResolvedOnce
  BalancesSnapshot
  PageIsSlice
  FileWhole
  StreamsSound
  AddressLossless
  CauseReported
