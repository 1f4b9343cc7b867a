----------------------------- MODULE Attestation -----------------------------
(***************************************************************************)
(* What verify_remote_attestation promises its caller, without saying how: *)
(* a call is answered in one step; it is accepted exactly when everything  *)
(* the verdict rests on holds, with the standing Intel's document gives    *)
(* the platform; otherwise it is rejected with a category for which the    *)
(* call really is at fault.  A category of a later stage is evidence that  *)
(* the earlier stages held: a document is called stale only if it is       *)
(* genuine, an enclave is called a debug enclave only if the quote is.     *)
(***************************************************************************)
EXTENDS DcapTypes

CONSTANTS Requests, NoRequest, IntelQeVendorId, TcbSigningCn

VARIABLES phase, request, verdict

vars == <<phase, request, verdict>>

-----------------------------------------------------------------------------
(* Trust in certificates. *)

CollateralChains(r) ==
  {r.collateral.tcbInfoIssuerChain, r.collateral.pckCrlIssuerChain,
   r.collateral.qeIdentityIssuerChain}

Chains(r) == CollateralChains(r) \cup {r.quote.certData}

Readable(chain) ==
  /\ chain.bytes <= MaxChainPemLen
  /\ chain.decodable
  /\ Len(chain.ders) \in 1..MaxChainLen
  /\ \A i \in DOMAIN chain.ders : chain.ders[i] # BadDer

LeafOf(chain) == chain.ders[1]
RootOf(chain) == chain.ders[Len(chain.ders)]

IssuedBy(child, parent) ==
  /\ child.issuer = parent.subject
  /\ child.signedBy = parent.key
  /\ parent.key \notin UnusableKey

CaCapable(cert) ==
  /\ cert.basicConstraints = "ca"
  /\ cert.keyUsage # "malformed" /\ cert.keyUsage # "other"

Current(cert, now) == cert.notBefore <= now /\ now < cert.notAfter

StrongAlgorithms(cert) ==
  /\ cert.outerAlg = "ecdsa-with-SHA256" /\ cert.innerAlg = "ecdsa-with-SHA256"
  /\ cert.keyType = "id-ecPublicKey" /\ cert.curve = "prime256v1"

(* An unbroken path of CA signatures from the pinned root to the leaf. *)
Trusted(chain, now) ==
  /\ RootOf(chain).key = RootKey
  /\ IssuedBy(RootOf(chain), RootOf(chain))
  /\ \A i \in DOMAIN chain.ders :
       Current(chain.ders[i], now) /\ StrongAlgorithms(chain.ders[i])
  /\ \A i \in 1..(Len(chain.ders) - 1) :
       IssuedBy(chain.ders[i], chain.ders[i + 1]) /\ CaCapable(chain.ders[i + 1])

NowOf(r) == UnixSeconds(r.currentTime)

Measured(r) ==
  /\ r.quote.qeVendorId = IntelQeVendorId
  /\ r.quote.reportBody.mrenclave = r.expectedMrenclave

FormatsKnown(c) ==
  c.version = 3 /\ c.tcbInfo.version = 3 /\ c.qeIdentity.version = 2 /\ c.tcbInfo.tcbType = 0

(* The call is for the right enclave, and all of it can be read. *)
Legible(r) ==
  /\ Measured(r) /\ FormatsKnown(r.collateral)
  /\ \A chain \in Chains(r) : Readable(chain)

AllTrusted(r) == Legible(r) /\ \A chain \in Chains(r) : Trusted(chain, NowOf(r))

SignsTcb(chain) == CommonName[LeafOf(chain).subject] = TcbSigningCn

SignersPinned(r) ==
  /\ SignsTcb(r.collateral.tcbInfoIssuerChain)
  /\ SignsTcb(r.collateral.qeIdentityIssuerChain)

-----------------------------------------------------------------------------
(* Revocation.  Serials are numbers: leading zero bytes carry no meaning.  *)

Digit(raw, i) == IF i < Len(raw) THEN raw[Len(raw) - i] ELSE 0

SameSerial(a, b) ==
  \A i \in 0..(Len(a) + Len(b)) : Digit(a, i) = Digit(b, i)

CrlCurrent(crl, now) ==
  crl.thisUpdate <= now /\ \A t \in crl.nextUpdate : now < t

CrlOf(crl, authority, key) ==
  /\ crl.decodable
  /\ crl.outerAlg = "ecdsa-with-SHA256" /\ crl.innerAlg = "ecdsa-with-SHA256"
  /\ crl.issuer = authority
  /\ crl.signedBy = key

Listed(cert, crl) ==
  crl.issuer = cert.issuer /\ \E s \in crl.revoked : SameSerial(s, cert.serial)

PckLeaf(r) == LeafOf(r.quote.certData)
PckCa(r) == LeafOf(r.collateral.pckCrlIssuerChain)

(* The root CRL is the root's; the PCK CRL is that of the CA named as the  *)
(* issuer of the quote's PCK certificate, under the key of its chain.      *)
RightCrls(r) ==
  /\ PckCa(r).subject = PckLeaf(r).issuer
  /\ CrlOf(r.collateral.rootCaCrl, RootOf(r.quote.certData).subject, RootKey)
  /\ CrlOf(r.collateral.pckCrl, PckLeaf(r).issuer, PckCa(r).key)

NoneListed(r) ==
  \A chain \in Chains(r) : \A i \in DOMAIN chain.ders :
    /\ ~Listed(chain.ders[i], r.collateral.rootCaCrl)
    /\ ~Listed(chain.ders[i], r.collateral.pckCrl)

CrlsCurrent(r) ==
  CrlCurrent(r.collateral.rootCaCrl, NowOf(r)) /\ CrlCurrent(r.collateral.pckCrl, NowOf(r))

NoneRevoked(r) == RightCrls(r) /\ CrlsCurrent(r) /\ NoneListed(r)

(* All certificates may be relied on. *)
PkiSound(r) ==
  /\ AllTrusted(r) /\ SignersPinned(r) /\ NoneRevoked(r)
  /\ PckCa(r).key \notin UnusableKey

-----------------------------------------------------------------------------
(* The signed documents. *)

SignedByLeaf(doc, chain) ==
  /\ LeafOf(chain).key \notin UnusableKey
  /\ doc.signedBy = LeafOf(chain).key

TcbInfoGenuine(r) ==
  PkiSound(r) /\ SignedByLeaf(r.collateral.tcbInfo, r.collateral.tcbInfoIssuerChain)
QeIdentityGenuine(r) ==
  PkiSound(r) /\ SignedByLeaf(r.collateral.qeIdentity, r.collateral.qeIdentityIssuerChain)

Fresh(doc, r) ==
  /\ doc.issueDate <= NowOf(r) /\ NowOf(r) < doc.nextUpdate
  /\ doc.tcbEvaluationDataNumber >= Floor(r)

HexReadable(c) ==
  BadHex \notin {c.tcbInfo.fmspc, c.tcbInfo.pceId, c.qeIdentity.mrsigner,
                 c.qeIdentity.miscselect, c.qeIdentity.miscselectMask,
                 c.qeIdentity.attributes, c.qeIdentity.attributesMask}

(* The quoting enclave is the one Intel describes, and its newest level is *)
(* up to date: the level of the highest isvsvn it reaches.                 *)
AgreeUnder(a, b, mask) == \A bit \in mask : (bit \in a) <=> (bit \in b)

TopQeLevel(id, qe, i) ==
  /\ id.tcbLevels[i].isvsvn <= qe.isvSvn
  /\ \A j \in DOMAIN id.tcbLevels :
       /\ id.tcbLevels[j].isvsvn <= qe.isvSvn => id.tcbLevels[j].isvsvn <= id.tcbLevels[i].isvsvn
       /\ id.tcbLevels[j].isvsvn = id.tcbLevels[i].isvsvn => j <= i

QeRecognised(id, qe) ==
  /\ id.id = "QE"
  /\ id.mrsigner = qe.mrsigner /\ id.isvprodid = qe.isvProdId
  /\ AgreeUnder(qe.miscSelect, id.miscselect, id.miscselectMask)
  /\ AgreeUnder(qe.attributes, id.attributes, id.attributesMask)
  /\ \E i \in DOMAIN id.tcbLevels :
       TopQeLevel(id, qe, i) /\ id.tcbLevels[i].tcbStatus = "UpToDate"

-----------------------------------------------------------------------------
(* The signatures from the platform's PCK key down to the enclave. *)

QeReportGenuine(r) ==
  /\ PkiSound(r)
  /\ PckLeaf(r).key \notin UnusableKey
  /\ r.quote.qeReportSignedBy = PckLeaf(r).key

AttestationKeyBound(r) ==
  /\ QeReportGenuine(r)
  /\ r.quote.qeReport.reportData =
       [head |-> <<r.quote.attestationPubKey, r.quote.qeAuthData>>, tailIsZero |-> TRUE]

QuoteGenuine(r) ==
  /\ AttestationKeyBound(r)
  /\ r.quote.attestationPubKey \notin UnusableKey
  /\ r.quote.isvSignedBy = r.quote.attestationPubKey

-----------------------------------------------------------------------------
(* The platform's TCB: the PCK certificate gives its SVNs, the document    *)
(* the level.                                                              *)

Entry(r, n) == PckLeaf(r).sgxExtension.entries[n]

IsLast(r, f, i, n) ==
  /\ Entry(r, n).field = f /\ Entry(r, n).index = i
  /\ \A m \in DOMAIN PckLeaf(r).sgxExtension.entries :
       Entry(r, m).field = f /\ Entry(r, m).index = i => m <= n

(* The platform has value v for the field. *)
Has(r, f, i, v) ==
  \E n \in DOMAIN PckLeaf(r).sgxExtension.entries :
    IsLast(r, f, i, n) /\ Entry(r, n).value = v

ReadField(f, i) ==
  \/ f \in {"fmspc", "pceId"} /\ i = 0
  \/ f = "tcb" /\ i \in 1..(NComps + 1)

ExtensionReadable(r) ==
  LET entries == PckLeaf(r).sgxExtension.entries
      present(f, i) == \E n \in DOMAIN entries : entries[n].field = f /\ entries[n].index = i
  IN /\ PckLeaf(r).sgxExtension.decodable
     /\ present("fmspc", 0) /\ present("pceId", 0)
     /\ \A i \in 1..(NComps + 1) : present("tcb", i)
     /\ \A n \in DOMAIN entries :
          ReadField(entries[n].field, entries[n].index) => entries[n].value # BadValue

SvnAtLeast(r, i, svn) ==
  \E n \in DOMAIN PckLeaf(r).sgxExtension.entries :
    IsLast(r, "tcb", i, n) /\ Entry(r, n).value >= svn

Reaches(r, level) ==
  /\ Len(level.sgxtcbcomponents) = NComps
  /\ \A i \in 1..NComps : SvnAtLeast(r, i, level.sgxtcbcomponents[i])
  /\ SvnAtLeast(r, NComps + 1, level.pcesvn)

(* The document is about this platform. *)
SamePlatform(r) ==
  /\ Has(r, "fmspc", 0, r.collateral.tcbInfo.fmspc)
  /\ Has(r, "pceId", 0, r.collateral.tcbInfo.pceId)

(* Level i is the one Intel's document assigns: the first that is reached. *)
Assigned(r, i) ==
  LET levels == r.collateral.tcbInfo.tcbLevels
  IN /\ Reaches(r, levels[i])
     /\ \A j \in 1..(i - 1) : ~Reaches(r, levels[j])

StandingOf(level) ==
  [status |-> level.tcbStatus,
   advisoryIds |-> IF level.tcbStatus = "UpToDate" THEN <<>> ELSE level.advisoryIds]

HasStanding(r, s) ==
  /\ SamePlatform(r)
  /\ \E i \in DOMAIN r.collateral.tcbInfo.tcbLevels :
       /\ Assigned(r, i)
       /\ s = StandingOf(r.collateral.tcbInfo.tcbLevels[i])
       /\ s.status \in AcceptableStatus

Permits(policy, s) ==
  /\ s.status = "SWHardeningNeeded" => policy.acceptSwHardeningNeeded
  /\ s.status = "ConfigurationAndSWHardeningNeeded" =>
       policy.acceptConfigurationAndSwHardeningNeeded

-----------------------------------------------------------------------------
(* Everything an acceptance rests on but the standing. *)
Acceptable(r) ==
  /\ HexReadable(r.collateral)
  /\ TcbInfoGenuine(r) /\ r.collateral.tcbInfo.id = "SGX" /\ Fresh(r.collateral.tcbInfo, r)
  /\ QeIdentityGenuine(r) /\ Fresh(r.collateral.qeIdentity, r)
  /\ QeRecognised(r.collateral.qeIdentity, r.quote.qeReport)
  /\ QuoteGenuine(r) /\ ~IsDebug(r.quote.reportBody)
  /\ ExtensionReadable(r)

(* A category is justified by a real fault of the call, and by every fact  *)
(* the stages before it establish.                                         *)
Justified(category, r) ==
  LET c == r.collateral
      q == r.quote
      quoteAndDocuments == /\ QuoteGenuine(r) /\ TcbInfoGenuine(r) /\ QeIdentityGenuine(r)
                           /\ Fresh(c.tcbInfo, r) /\ Fresh(c.qeIdentity, r)
                           /\ QeRecognised(c.qeIdentity, q.qeReport)
  IN CASE category = "QeVendorInvalid" -> q.qeVendorId # IntelQeVendorId
       [] category = "MrenclaveMismatch" ->
            q.qeVendorId = IntelQeVendorId /\ q.reportBody.mrenclave # r.expectedMrenclave
       [] category = "CollateralParse" ->
            /\ Measured(r)
            /\ \/ ~FormatsKnown(c) \/ ~HexReadable(c) \/ c.tcbInfo.id # "SGX"
               \/ \E chain \in CollateralChains(r) : ~Readable(chain)
               \/ CommonName[LeafOf(c.tcbInfoIssuerChain).subject] = NoCn
               \/ CommonName[LeafOf(c.qeIdentityIssuerChain).subject] = NoCn
       [] category = "QuoteParse" ->
            Measured(r) /\ FormatsKnown(c) /\ (~Readable(q.certData) \/ ~ExtensionReadable(r))
       [] category = "RootCaUntrusted" ->
            /\ Legible(r)
            /\ \/ ~AllTrusted(r) \/ ~SignersPinned(r)
               \/ \E chain \in Chains(r) : LeafOf(chain).key \in UnusableKey
       [] category = "CertOrCrlTimeInvalid" ->
            /\ Legible(r)
            /\ \/ \E chain \in Chains(r) : \E i \in DOMAIN chain.ders :
                    ~Current(chain.ders[i], NowOf(r))
               \/ ~CrlsCurrent(r)
       [] category = "CrlInvalid" ->
            AllTrusted(r) /\ SignersPinned(r) /\ ~(RightCrls(r) /\ NoneListed(r))
       [] category = "TcbInfoSignatureInvalid" -> PkiSound(r) /\ ~TcbInfoGenuine(r)
       [] category = "TcbInfoStale" -> TcbInfoGenuine(r) /\ ~Fresh(c.tcbInfo, r)
       [] category = "QeIdentitySignatureInvalid" -> PkiSound(r) /\ ~QeIdentityGenuine(r)
       [] category = "QeIdentityStale" -> QeIdentityGenuine(r) /\ ~Fresh(c.qeIdentity, r)
       [] category = "QeIdentityMismatch" ->
            QeIdentityGenuine(r) /\ Fresh(c.qeIdentity, r) /\ ~QeRecognised(c.qeIdentity, q.qeReport)
       [] category = "QeReportSignatureInvalid" -> PkiSound(r) /\ ~QeReportGenuine(r)
       [] category = "QeBindingInvalid" -> QeReportGenuine(r) /\ ~AttestationKeyBound(r)
       [] category = "QuoteSignatureInvalid" -> AttestationKeyBound(r) /\ ~QuoteGenuine(r)
       [] category = "DebugEnclaveRejected" -> quoteAndDocuments /\ IsDebug(q.reportBody)
       [] category = "TcbLevelUnsupported" ->
            quoteAndDocuments /\ \A s \in {StandingOf(c.tcbInfo.tcbLevels[i]) :
                                           i \in DOMAIN c.tcbInfo.tcbLevels} : ~HasStanding(r, s)
       [] category = "TcbStandingRejected" ->
            /\ Acceptable(r)
            /\ \E i \in DOMAIN c.tcbInfo.tcbLevels :
                 LET s == StandingOf(c.tcbInfo.tcbLevels[i])
                 IN HasStanding(r, s) /\ \E p \in r.policy : ~Permits(p, s)

-----------------------------------------------------------------------------
Init == phase = "idle" /\ request = NoRequest /\ verdict = Pending

Call ==
  /\ phase = "idle" /\ phase' = "called" /\ request' \in Requests
  /\ UNCHANGED verdict

Accept ==
  /\ phase = "called" /\ phase' = "returned" /\ UNCHANGED request
  /\ Acceptable(request)
  /\ \E i \in DOMAIN request.collateral.tcbInfo.tcbLevels :
       LET s == StandingOf(request.collateral.tcbInfo.tcbLevels[i])
       IN /\ HasStanding(request, s)
          /\ \A p \in request.policy : Permits(p, s)
          /\ verdict' = Accepted(s, request.quote.reportBody)

Reject(category) ==
  /\ phase = "called" /\ phase' = "returned" /\ UNCHANGED request
  /\ Justified(category, request)
  /\ verdict' = Rejected(category)

Return ==
  /\ phase = "returned" /\ phase' = "idle"
  /\ request' = NoRequest /\ verdict' = Pending

Next ==
  \/ Call
  \/ Accept
  \/ \E category \in ErrorCategory : Reject(category)
  \/ Return

Spec == Init /\ [][Next]_vars

(* Every call is answered: no gate waits, and the loops over the chains    *)
(* come to an end.                                                         *)
Answered == phase = "called" ~> phase = "returned"
=============================================================================
