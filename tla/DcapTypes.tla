------------------------------ MODULE DcapTypes ------------------------------
(***************************************************************************)
(* The values the dcap-verify crate computes on: certificates, CRLs, the   *)
(* collateral documents, the quote, and a call of the verifier.            *)
(*                                                                         *)
(* Data is abstract.  Signatures are ideal: signedBy names the one key     *)
(* under which the signature on an object verifies, NoKey when there is    *)
(* none (a corrupted or undecodable signature).  A hash is the tuple of    *)
(* what it covers.  A bit mask is the set of its one bits.  An optional    *)
(* field is a set with at most one element.                                *)
(***************************************************************************)
EXTENDS Integers, Sequences

CONSTANTS
  Name,           \* distinguished names, equal iff their raw DER is equal
  CommonName,     \* the readable common name of a Name, NoCn if it has none
  NoCn,
  Key,            \* public keys and the signers they identify
  UnusableKey,    \* the members of Key that are no P-256 point
  NoKey,          \* signer of an object whose signature verifies under no key
  RootKey,        \* INTEL_SGX_ROOT_CA_PUBLIC_KEY_SEC1
  BadDer,         \* a PEM block that is not a DER certificate
  BadHex,         \* a hex field that does not decode to its width
  BadValue,       \* a PCK extension value of the wrong ASN.1 shape
  NComps,         \* number of SGX TCB components (16 in the code)
  MaxChainLen,    \* MAX_CHAIN_LEN
  MaxChainPemLen, \* MAX_CHAIN_PEM_LEN
  TicksPerSecond, \* resolution of SystemTime
  MaxSeconds      \* i64::MAX

ASSUME RootKeyAssumption == RootKey \in Key \ UnusableKey /\ NoKey \notin Key
ASSUME SizeAssumption ==
  /\ NComps \in Nat \ {0}
  /\ MaxChainLen \in Nat \ {0}
  /\ MaxChainPemLen \in Nat
ASSUME ClockAssumption == TicksPerSecond \in Nat \ {0} /\ MaxSeconds \in Nat \ {0}

ErrorCategory ==
  {"QuoteParse", "CollateralParse", "QuoteSignatureInvalid",
   "QeReportSignatureInvalid", "QeBindingInvalid", "QeVendorInvalid",
   "QeIdentitySignatureInvalid", "QeIdentityStale", "QeIdentityMismatch",
   "TcbInfoSignatureInvalid", "TcbInfoStale", "CertOrCrlTimeInvalid",
   "CrlInvalid", "RootCaUntrusted", "TcbLevelUnsupported",
   "TcbStandingRejected", "MrenclaveMismatch", "DebugEnclaveRejected"}

Ok == "ok"
Result == ErrorCategory \cup {Ok}     \* Result<(), VerifyError>, by category

-----------------------------------------------------------------------------
(* X.509 material. *)

Byte == 0..255

Cert ==
  [subject : Name, issuer : Name, serial : Seq(Byte),
   key : Key, signedBy : Key \cup {NoKey},
   notBefore : Int, notAfter : Int,
   outerAlg : STRING, innerAlg : STRING, keyType : STRING, curve : STRING,
   basicConstraints : {"absent", "malformed", "ca", "endEntity"},
   keyUsage : {"absent", "malformed", "certSign", "other"},
   sgxExtension :
     [decodable : BOOLEAN,              \* present, DER, and a sequence
      entries : Seq([field : {"fmspc", "pceId", "tcb", "other"},
                     index : Nat, value : Nat \cup {BadValue}])]]

PemChain == [bytes : Nat, decodable : BOOLEAN, ders : Seq(Cert \cup {BadDer})]

Crl ==
  [decodable : BOOLEAN, outerAlg : STRING, innerAlg : STRING,
   issuer : Name, signedBy : Key \cup {NoKey},
   thisUpdate : Int, nextUpdate : SUBSET Int, revoked : SUBSET Seq(Byte)]

-----------------------------------------------------------------------------
(* Collateral documents: the parsed body of a Signed<T>, and the signer of *)
(* the body_json it was parsed from.                                       *)

TcbLevel ==
  [sgxtcbcomponents : Seq(Nat), pcesvn : Nat, tcbStatus : STRING,
   advisoryIds : Seq(STRING)]

TcbInfo ==
  [id : STRING, version : Nat, tcbType : Nat, issueDate : Int,
   nextUpdate : Int, tcbEvaluationDataNumber : Nat,
   fmspc : Nat \cup {BadHex}, pceId : Nat \cup {BadHex},
   tcbLevels : Seq(TcbLevel), signedBy : Key \cup {NoKey}]

QeIdentity ==
  [id : STRING, version : Nat, issueDate : Int, nextUpdate : Int,
   tcbEvaluationDataNumber : Nat,
   mrsigner : STRING \cup {BadHex}, isvprodid : Nat,
   miscselect : (SUBSET Nat) \cup {BadHex},
   miscselectMask : (SUBSET Nat) \cup {BadHex},
   attributes : (SUBSET Nat) \cup {BadHex},
   attributesMask : (SUBSET Nat) \cup {BadHex},
   tcbLevels : Seq([isvsvn : Nat, tcbStatus : STRING]),
   signedBy : Key \cup {NoKey}]

SgxCollateral ==
  [version : Nat, rootCaCrl : Crl, pckCrl : Crl,
   tcbInfoIssuerChain : PemChain, pckCrlIssuerChain : PemChain,
   qeIdentityIssuerChain : PemChain,
   tcbInfo : TcbInfo, qeIdentity : QeIdentity]

-----------------------------------------------------------------------------
(* The quote. *)

DebugFlag == 1     \* the bit of ATTRIBUTE_FLAG_DEBUG

ReportBody ==
  [mrenclave : STRING, mrsigner : STRING, attributes : SUBSET Nat,
   miscSelect : SUBSET Nat, isvProdId : Nat, isvSvn : Nat,
   reportData : [head : Key \X STRING, tailIsZero : BOOLEAN]]

IsDebug(body) == DebugFlag \in body.attributes

SgxQuote ==
  [qeVendorId : STRING, reportBody : ReportBody,
   isvSignedBy : Key \cup {NoKey},       \* signer of signed_bytes
   attestationPubKey : Key, qeAuthData : STRING,
   qeReport : ReportBody, qeReportSignedBy : Key \cup {NoKey},
   certData : PemChain]

TcbPolicy ==
  [minTcbEvaluationDataNumber : Nat, acceptSwHardeningNeeded : BOOLEAN,
   acceptConfigurationAndSwHardeningNeeded : BOOLEAN]

(* A call.  policy is empty for verify_remote_attestation and holds the    *)
(* policy for verify_remote_attestation_with_policy, which forwards the    *)
(* policy's own floor.  currentTime is in ticks since the epoch.           *)
Request ==
  {r \in [currentTime : Int, collateral : SgxCollateral, quote : SgxQuote,
          expectedMrenclave : STRING, minRound : Nat, policy : SUBSET TcbPolicy] :
     \A p, q \in r.policy : p = q}

AcceptableStatus ==
  {"UpToDate", "SWHardeningNeeded", "ConfigurationAndSWHardeningNeeded"}

TcbStanding == [status : AcceptableStatus, advisoryIds : Seq(STRING)]

Pending == [kind |-> "pending"]
Rejected(category) == [kind |-> "rejected", category |-> category]
Accepted(standing, body) ==
  [kind |-> "accepted", standing |-> standing, reportBody |-> body]

Verdict ==
  {Pending} \cup {Rejected(c) : c \in ErrorCategory}
            \cup [kind : {"accepted"}, standing : TcbStanding,
                  reportBody : ReportBody]

-----------------------------------------------------------------------------
(* unix_seconds: whole seconds, truncated toward the epoch on both sides   *)
(* of it and saturated at i64::MAX.                                        *)

AtMost(n, bound) == IF n <= bound THEN n ELSE bound

UnixSeconds(t) ==
  IF t >= 0 THEN AtMost(t \div TicksPerSecond, MaxSeconds)
            ELSE -AtMost((-t) \div TicksPerSecond, MaxSeconds)

(* The evaluation-round floor the call is verified against. *)
Floor(r) ==
  IF r.policy = {} THEN r.minRound
  ELSE (CHOOSE p \in r.policy : TRUE).minTcbEvaluationDataNumber
=============================================================================
