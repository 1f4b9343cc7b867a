CONSTANTS
  Name <- MCName
  CommonName <- MCCommonName
  NoCn = NoCn
  Key <- MCKey
  UnusableKey <- MCUnusableKey
  NoKey = NoKey
  RootKey = "kRoot"
  BadDer = BadDer
  BadHex = BadHex
  BadValue = BadValue
  NComps = 2
  MaxChainLen = 3
  MaxChainPemLen = 1
  TicksPerSecond = 1
  MaxSeconds = 99
  Requests = {}
  NoRequest = NoRequest
  IntelQeVendorId = "intel"
  TcbSigningCn = "Intel SGX TCB Signing"
  Quotes <- MCQuotes
  Genuine <- MCGenuine
  Fmspc <- MCFmspc
  TcbInfoOf <- MCTcbInfoOf
  QeIdentityOf <- MCQeIdentityOf
  TcbSigningChain <- MCTcbSigningChain
  PckCaChain <- MCPckCaChain
  Nothing = Nothing
  MaxRound = 2
  Floors = {1, 2}
  Revocable <- MCRevocable
  MaxRevoked = 1
  DocLifetime = 2
  CrlLifetime = 1
  MaxSkew = 1
  MaxNow = 3
SPECIFICATION MCWorldSpec
INVARIANT WorldTypeOK
INVARIANT RecoveryBites
INVARIANT RevocationBound
INVARIANT PeekLeadsRight
