SPECIFICATION RunSpec
CONSTANTS
  Call = {c1, c2}
  NoCall = NoCall
  Other = Other
  k1 = k1
  k2 = k2
  other = other
  test = test
  xel = xel
  tok = tok
  Key <- MCKey
  Own = Own
  Self = k1
  Wallet <- MCWallet
  Network <- MCNetwork
  Declared <- MCDeclared
  MaxAlterations = 1
  SetupInput <- MCSetupInput
  Hash = {h1, h2}
  NoHash = NoHash
  Configuration <- MCConfiguration
  NoConfiguration = NoConfiguration
  Mainnet = Mainnet
  MaxParticipants = 2
  MaxGeneration = 2
  MaxShares = 2
SYMMETRY Symmetry
INVARIANTS
  FinalizationSound
  RequestFaithful
