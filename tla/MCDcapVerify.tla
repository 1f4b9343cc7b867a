---------------------------- MODULE MCDcapVerify ----------------------------
(***************************************************************************)
(* Calls for model checking: a call that is accepted at second 10, and     *)
(* every call obtained from it by one deviation, or by two typical faults. *)
(***************************************************************************)
EXTENDS DcapVerify, FiniteSets

MCName == {"Root", "ProcessorCA", "PlatformCA", "TcbSigning", "Pck", "Anonymous"}
MCCommonName ==
  [n \in MCName |-> CASE n = "Anonymous" -> NoCn
                      [] n = "TcbSigning" -> "Intel SGX TCB Signing"
                      [] n = "ProcessorCA" -> PckCaCn["processor"]
                      [] n = "PlatformCA" -> PckCaCn["platform"]
                      [] OTHER -> n]
MCKey == {"kRoot", "kProcessor", "kPlatform", "kTcb", "kPck", "kAtt", "kOther", "kBad"}
MCUnusableKey == {"kBad"}

NoExtension == [decodable |-> FALSE, entries |-> <<>>]

MCCert(subject, issuer, serial, key, signer, isCa) ==
  [subject |-> subject, issuer |-> issuer, serial |-> serial, key |-> key,
   signedBy |-> signer, notBefore |-> 0, notAfter |-> 50,
   outerAlg |-> "ecdsa-with-SHA256", innerAlg |-> "ecdsa-with-SHA256",
   keyType |-> "id-ecPublicKey", curve |-> "prime256v1",
   basicConstraints |-> IF isCa THEN "ca" ELSE "endEntity",
   keyUsage |-> IF isCa THEN "certSign" ELSE "absent",
   sgxExtension |-> NoExtension]

RootCert == MCCert("Root", "Root", <<1>>, "kRoot", "kRoot", TRUE)
TcbCert == MCCert("TcbSigning", "Root", <<2>>, "kTcb", "kRoot", FALSE)
ProcessorCert == MCCert("ProcessorCA", "Root", <<3>>, "kProcessor", "kRoot", TRUE)
PlatformCert == MCCert("PlatformCA", "Root", <<4>>, "kPlatform", "kRoot", TRUE)

MCEntry(f, i, v) == [field |-> f, index |-> i, value |-> v]

(* The first PCESVN entry is overridden by the last. *)
PckCert ==
  [MCCert("Pck", "ProcessorCA", <<0, 5>>, "kPck", "kProcessor", FALSE) EXCEPT
    !.sgxExtension =
      [decodable |-> TRUE,
       entries |-> <<MCEntry("fmspc", 0, 7), MCEntry("pceId", 0, 0),
                     MCEntry("tcb", 1, 2), MCEntry("tcb", 3, 9),
                     MCEntry("tcb", 2, 3), MCEntry("tcb", 4, BadValue),
                     MCEntry("tcb", 3, 4), MCEntry("other", 0, BadValue)>>]]

MCChain(certs) == [bytes |-> 1, decodable |-> TRUE, ders |-> certs]

MCCrl(issuer, signer) ==
  [decodable |-> TRUE, outerAlg |-> "ecdsa-with-SHA256",
   innerAlg |-> "ecdsa-with-SHA256", issuer |-> issuer, signedBy |-> signer,
   thisUpdate |-> 5, nextUpdate |-> {20}, revoked |-> {<<9>>}]

MCLevel(comps, pcesvn, status, advisories) ==
  [sgxtcbcomponents |-> comps, pcesvn |-> pcesvn, tcbStatus |-> status,
   advisoryIds |-> advisories]

(* The platform has component SVNs 2 and 3 and PCESVN 4.  It misses the    *)
(* first level, reaches the second, and reaches the incomparable third     *)
(* that a reordering could prefer.                                         *)
MCTcbInfo ==
  [id |-> "SGX", version |-> 3, tcbType |-> 0, issueDate |-> 5, nextUpdate |-> 20,
   tcbEvaluationDataNumber |-> 6, fmspc |-> 7, pceId |-> 0,
   tcbLevels |-> <<MCLevel(<<2, 4>>, 4, "UpToDate", <<>>),
                   MCLevel(<<2, 2>>, 4, "SWHardeningNeeded", <<"SA-1">>),
                   MCLevel(<<1, 3>>, 4, "UpToDate", <<>>),
                   MCLevel(<<0, 0>>, 0, "OutOfDate", <<"SA-1", "SA-2">>)>>,
   signedBy |-> "kTcb"]

MCQeIdentity ==
  [id |-> "QE", version |-> 2, issueDate |-> 5, nextUpdate |-> 20,
   tcbEvaluationDataNumber |-> 6, mrsigner |-> "intel", isvprodid |-> 1,
   miscselect |-> {0}, miscselectMask |-> {0, 1},
   attributes |-> {0, 2}, attributesMask |-> {0, 1},
   tcbLevels |-> <<[isvsvn |-> 4, tcbStatus |-> "OutOfDate"],
                   [isvsvn |-> 6, tcbStatus |-> "UpToDate"],
                   [isvsvn |-> 8, tcbStatus |-> "Revoked"]>>,
   signedBy |-> "kTcb"]

MCReport(mrenclave, mrsigner, head) ==
  [mrenclave |-> mrenclave, mrsigner |-> mrsigner, attributes |-> {0},
   miscSelect |-> {0, 3}, isvProdId |-> 1, isvSvn |-> 7,
   reportData |-> [head |-> head, tailIsZero |-> TRUE]]

MCRequest ==
  [currentTime |-> 21, expectedMrenclave |-> "enclave", minRound |-> 6, policy |-> {},
   collateral |->
     [version |-> 3, rootCaCrl |-> MCCrl("Root", "kRoot"),
      pckCrl |-> MCCrl("ProcessorCA", "kProcessor"),
      tcbInfoIssuerChain |-> MCChain(<<TcbCert, RootCert>>),
      pckCrlIssuerChain |-> MCChain(<<ProcessorCert, RootCert>>),
      qeIdentityIssuerChain |-> MCChain(<<TcbCert, RootCert>>),
      tcbInfo |-> MCTcbInfo, qeIdentity |-> MCQeIdentity],
   quote |->
     [qeVendorId |-> "intel", reportBody |-> MCReport("enclave", "isv", <<"kOther", "user">>),
      isvSignedBy |-> "kAtt", attestationPubKey |-> "kAtt", qeAuthData |-> "auth",
      qeReport |-> MCReport("qe", "intel", <<"kAtt", "auth">>),
      qeReportSignedBy |-> "kPck",
      certData |-> MCChain(<<PckCert, ProcessorCert, RootCert>>)]]

-----------------------------------------------------------------------------
MCPolicy(sw, conf) ==
  [minTcbEvaluationDataNumber |-> 5, acceptSwHardeningNeeded |-> sw,
   acceptConfigurationAndSwHardeningNeeded |-> conf]

(* The calls that differ from r in one respect. *)
CallDeviations(r) ==
  {[r EXCEPT !.expectedMrenclave = "other"],
   [r EXCEPT !.minRound = 7],
   [r EXCEPT !.currentTime = 10], [r EXCEPT !.currentTime = 9],
   [r EXCEPT !.currentTime = 39], [r EXCEPT !.currentTime = 40],
   [r EXCEPT !.currentTime = -1], [r EXCEPT !.currentTime = 200],
   [r EXCEPT !.policy = {MCPolicy(TRUE, FALSE)}],
   [r EXCEPT !.policy = {MCPolicy(FALSE, TRUE)}]}

ChainDeviations(c) ==
  {[c EXCEPT !.bytes = MaxChainPemLen + 1],
   [c EXCEPT !.decodable = FALSE],
   [c EXCEPT !.ders = <<>>],
   [c EXCEPT !.ders = @ \o @],
   [c EXCEPT !.ders = [@ EXCEPT ![1] = BadDer]],
   [c EXCEPT !.ders = SubSeq(@, 1, Len(@) - 1)],
   [c EXCEPT !.ders = <<RootCert>>]}

CertDeviations(cert) ==
  {[cert EXCEPT !.notAfter = 10], [cert EXCEPT !.notBefore = 11],
   [cert EXCEPT !.signedBy = "kOther"], [cert EXCEPT !.issuer = "PlatformCA"],
   [cert EXCEPT !.subject = "Anonymous"], [cert EXCEPT !.subject = "TcbSigning"],
   [cert EXCEPT !.key = "kBad"], [cert EXCEPT !.key = "kOther"],
   [cert EXCEPT !.outerAlg = "sha1"], [cert EXCEPT !.curve = "secp384r1"],
   [cert EXCEPT !.basicConstraints = "endEntity"],
   [cert EXCEPT !.keyUsage = "other"], [cert EXCEPT !.serial = <<0, 0, 9>>]}

CrlDeviations(crl) ==
  {[crl EXCEPT !.decodable = FALSE], [crl EXCEPT !.innerAlg = "sha1"],
   [crl EXCEPT !.thisUpdate = 11], [crl EXCEPT !.nextUpdate = {10}],
   [crl EXCEPT !.nextUpdate = {}], [crl EXCEPT !.signedBy = NoKey],
   [crl EXCEPT !.revoked = @ \cup {<<5>>}], [crl EXCEPT !.revoked = @ \cup {<<0, 3>>}],
   [crl EXCEPT !.revoked = @ \cup {<<2>>}],
   MCCrl("PlatformCA", "kPlatform"), MCCrl("Root", "kOther")}

DocumentDeviations(doc) ==
  {[doc EXCEPT !.version = 4], [doc EXCEPT !.id = "TDX"],
   [doc EXCEPT !.issueDate = 11], [doc EXCEPT !.nextUpdate = 10],
   [doc EXCEPT !.tcbEvaluationDataNumber = 5], [doc EXCEPT !.signedBy = "kOther"]}

TcbInfoDeviations(info) ==
  DocumentDeviations(info) \cup
  {[info EXCEPT !.tcbType = 1], [info EXCEPT !.fmspc = BadHex], [info EXCEPT !.fmspc = 8],
   [info EXCEPT !.pceId = 1], [info EXCEPT !.tcbLevels = Tail(Tail(@))],
   [info EXCEPT !.tcbLevels[2].tcbStatus = "ConfigurationAndSWHardeningNeeded"],
   [info EXCEPT !.tcbLevels[2].tcbStatus = "Revoked"],
   [info EXCEPT !.tcbLevels[2].pcesvn = 5],
   [info EXCEPT !.tcbLevels[2].sgxtcbcomponents = <<2>>],
   [info EXCEPT !.tcbLevels = <<>>]}

QeIdentityDeviations(id) ==
  DocumentDeviations(id) \cup
  {[id EXCEPT !.mrsigner = BadHex], [id EXCEPT !.mrsigner = "other"],
   [id EXCEPT !.isvprodid = 2], [id EXCEPT !.miscselectMask = BadHex],
   [id EXCEPT !.miscselect = {}], [id EXCEPT !.miscselect = {0, 2}],
   [id EXCEPT !.attributes = {0, 1}], [id EXCEPT !.attributes = BadHex],
   [id EXCEPT !.tcbLevels[3].isvsvn = 7], [id EXCEPT !.tcbLevels[1].isvsvn = 6],
   [id EXCEPT !.tcbLevels[3].isvsvn = 6],
   [id EXCEPT !.tcbLevels = <<@[3]>>]}

QuoteDeviations(q) ==
  {[q EXCEPT !.qeVendorId = "other"], [q EXCEPT !.reportBody.attributes = {0, DebugFlag}],
   [q EXCEPT !.isvSignedBy = "kOther"], [q EXCEPT !.attestationPubKey = "kOther"],
   [q EXCEPT !.attestationPubKey = "kBad", !.isvSignedBy = "kBad",
             !.qeReport.reportData.head = <<"kBad", "auth">>],
   [q EXCEPT !.qeAuthData = "other"], [q EXCEPT !.qeReport.reportData.tailIsZero = FALSE],
   [q EXCEPT !.qeReportSignedBy = NoKey], [q EXCEPT !.qeReport.isvSvn = 5],
   [q EXCEPT !.qeReport.isvSvn = 8]}

(* A PCK extension that lacks an entry, or has a malformed one. *)
ExtensionDeviations(ext) ==
  {[ext EXCEPT !.decodable = FALSE], [ext EXCEPT !.entries = Tail(@)],
   [ext EXCEPT !.entries[5].index = 1], [ext EXCEPT !.entries[7].value = 3],
   [ext EXCEPT !.entries[4].value = BadValue], [ext EXCEPT !.entries[7].index = 5]}

CertifiedDeviations(chain) ==
  ChainDeviations(chain)
  \cup {[chain EXCEPT !.ders[i] = d] : <<i, d>> \in
          UNION {{i} \X CertDeviations(chain.ders[i]) : i \in 1..2}}

(* Every call that differs from r in one respect. *)
Deviate(r) ==
  LET c == r.collateral
      q == r.quote
  IN CallDeviations(r) \cup {[r EXCEPT !.collateral.version = 2]}
     \cup {[r EXCEPT !.collateral.tcbInfoIssuerChain = d] :
             d \in CertifiedDeviations(c.tcbInfoIssuerChain)}
     \cup {[r EXCEPT !.collateral.pckCrlIssuerChain = d] :
             d \in CertifiedDeviations(c.pckCrlIssuerChain)
                     \cup {MCChain(<<PlatformCert, RootCert>>)}}
     \cup {[r EXCEPT !.collateral.qeIdentityIssuerChain = d] :
             d \in CertifiedDeviations(c.qeIdentityIssuerChain)}
     \cup {[r EXCEPT !.quote.certData = d] : d \in CertifiedDeviations(q.certData)}
     \cup {[r EXCEPT !.quote.certData.ders[1].sgxExtension = e] :
             e \in ExtensionDeviations(q.certData.ders[1].sgxExtension)}
     \cup {[r EXCEPT !.collateral.rootCaCrl = d] : d \in CrlDeviations(c.rootCaCrl)}
     \cup {[r EXCEPT !.collateral.pckCrl = d] : d \in CrlDeviations(c.pckCrl)}
     \cup {[r EXCEPT !.collateral.tcbInfo = d] : d \in TcbInfoDeviations(c.tcbInfo)}
     \cup {[r EXCEPT !.collateral.qeIdentity = d] : d \in QeIdentityDeviations(c.qeIdentity)}
     \cup {[r EXCEPT !.quote = d] : d \in QuoteDeviations(q)}

(* Faults typical of one gate each: a call with several of them shows      *)
(* which category wins.                                                    *)
TypicalFaults ==
  {"measurement", "format", "unreadable", "untrusted", "expired", "signer", "sibling",
   "rootCrl", "pckCrlStale", "revokedLeaf", "tcbSignature", "tcbStale", "qeSignature",
   "qeStale", "qeIdentity", "qeReport", "binding", "quote", "debug", "extension", "level",
   "policy"}

WithFault(r, f) ==
  CASE f = "measurement" -> [r EXCEPT !.expectedMrenclave = "other"]
    [] f = "format" -> [r EXCEPT !.collateral.version = 2]
    [] f = "unreadable" -> [r EXCEPT !.collateral.pckCrlIssuerChain.decodable = FALSE]
    [] f = "untrusted" -> [r EXCEPT !.collateral.qeIdentityIssuerChain.ders[2].signedBy = "kOther"]
    [] f = "expired" -> [r EXCEPT !.quote.certData.ders[2].notAfter = 10]
    [] f = "signer" -> [r EXCEPT !.collateral.tcbInfoIssuerChain.ders[1].subject = "Anonymous"]
    [] f = "sibling" -> [r EXCEPT !.collateral.pckCrlIssuerChain.ders[1] = PlatformCert]
    [] f = "rootCrl" -> [r EXCEPT !.collateral.rootCaCrl.signedBy = "kOther"]
    [] f = "pckCrlStale" -> [r EXCEPT !.collateral.pckCrl.nextUpdate = {10}]
    [] f = "revokedLeaf" -> [r EXCEPT !.collateral.pckCrl.revoked = {<<5>>}]
    [] f = "tcbSignature" -> [r EXCEPT !.collateral.tcbInfo.signedBy = "kOther"]
    [] f = "tcbStale" -> [r EXCEPT !.collateral.tcbInfo.nextUpdate = 10]
    [] f = "qeSignature" -> [r EXCEPT !.collateral.qeIdentity.signedBy = "kPck"]
    [] f = "qeStale" -> [r EXCEPT !.collateral.qeIdentity.tcbEvaluationDataNumber = 5]
    [] f = "qeIdentity" -> [r EXCEPT !.quote.qeReport.isvSvn = 5]
    [] f = "qeReport" -> [r EXCEPT !.quote.qeReportSignedBy = NoKey]
    [] f = "binding" -> [r EXCEPT !.quote.qeAuthData = "other"]
    [] f = "quote" -> [r EXCEPT !.quote.isvSignedBy = "kOther"]
    [] f = "debug" -> [r EXCEPT !.quote.reportBody.attributes = {DebugFlag}]
    [] f = "extension" -> [r EXCEPT !.quote.certData.ders[1].sgxExtension = NoExtension]
    [] f = "level" -> [r EXCEPT !.collateral.tcbInfo.tcbLevels[2].tcbStatus = "OutOfDate"]
    [] f = "policy" -> [r EXCEPT !.policy = {MCPolicy(FALSE, TRUE)}]

MCRequests ==
  {MCRequest} \cup Deviate(MCRequest)
  \cup {WithFault(WithFault(MCRequest, f), g) : f, g \in TypicalFaults}
=============================================================================
