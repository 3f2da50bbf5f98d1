SPECIFICATION RunSpec
CONSTANTS
  App = {s1, s2}
  MaxDeferred = 1
  MaxBurst = 1
  MaxRef = 3
  MaxEvents = 3
  Session = {s1, s2}
  Read = {r1, r2}
  p1 = p1
  AppId <- OneApplication
  Permission = {p1}
  Update <- KnownAndUnknown
  Prefixed = {"wallet"}
  Call = {r1, r2}
  NoSession = NoSession
SYMMETRY Symmetry
CHECK_DEADLOCK FALSE
INVARIANTS
  NoRevival
  NoFreshAuthority
  NoDecisionAfterRevocation
  NothingForgotten
  CallbackNotStarved
  AuthorityGranted
  StopComplete
  PayloadFaithful
PROPERTY
  ListedOperable
