CONSTANTS
  Name <- MCName
  CommonName <- MCCommonName
  NoCn = NoCn
  Key <- MCKey
  UnusableKey <- MCUnusableKey
  NoKey = NoKey
  RootKey = "kRoot"
  BadDer = BadDer
  BadHex = BadHex
  BadValue = BadValue
  NComps = 2
  MaxChainLen = 3
  MaxChainPemLen = 1
  TicksPerSecond = 2
  MaxSeconds = 99
  Requests <- MCAllRequests
  NoRequest = NoRequest
  IntelQeVendorId = "intel"
  TcbSigningCn = "Intel SGX TCB Signing"
  Prod <- MCProd
  Debug <- MCDebug
  ProdStanding <- MCProdStanding
  FarPast <- MCFarPast
  FarFuture = 60
  Eval <- MCEval
  BaseEval = "19"
  FreshTcb <- MCFreshTcb
  FreshQe <- MCFreshQe
  Early = "early"
  ForeignTcb <- MCForeignTcb
  QveIdentity <- MCQveIdentity
  LiveRootCrl <- MCLiveRootCrl
  LivePckCrl <- MCLivePckCrl
  LivePckCrlChain <- MCLivePckCrlChain
SPECIFICATION FairSpec
INVARIANT TypeOK
PROPERTY ImplementsPromise
PROPERTY CallAnswered
INVARIANT AcceptanceSound
INVARIANT AcceptanceComplete
INVARIANT VerdictAsRecorded
