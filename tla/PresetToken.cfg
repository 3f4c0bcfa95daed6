SPECIFICATION FairSpec
CONSTANTS
  Callers = {c1, c2}
  NoCaller = NoCaller
  new = new
  early = early
  odd = odd
  Bad = Bad
  Paths <- MCPaths
  Version <- MCVersion
  SluisctlMin <- MCMin
  Lifetimes <- MCLifetimes
  Minimums <- MCMinimums
  Answers <- MCAnswers
  MaxLifetime = 5
  DefaultLifetime = 5
  MinMinRemaining = 2
  DefaultMinRemaining = 3
  expirySlack = 1
  verifyWindow = 1
  r2Settle = 1
INVARIANTS HandedOutAlive NoSilentFallback VersionGate
PROPERTY CallsReturn
