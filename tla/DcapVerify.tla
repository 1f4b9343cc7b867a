----------------------------- MODULE DcapVerify -----------------------------
(***************************************************************************)
(* dcap-verify/src/verify.rs: verify_remote_attestation and                *)
(* verify_remote_attestation_with_policy as a state machine with one       *)
(* action per gate.  A gate that fails returns its error at once, so the   *)
(* category the caller sees is the first failing gate's.  Loops over the   *)
(* four chains take one step per chain.                                    *)
(***************************************************************************)
EXTENDS Pki, Tcb

CONSTANTS
  Requests,       \* the calls considered
  NoRequest,
  IntelQeVendorId, TcbSigningCn

ASSUME RequestsAssumption == Requests \subseteq Request /\ NoRequest \notin Requests
ASSUME SignerAssumption == TcbSigningCn # NoCn

VARIABLES
  pc,        \* the next gate
  request,   \* the arguments of the call
  k,         \* the chain a loop is at
  revoked,   \* revoked entries collected from the CRLs
  standing,  \* the standing found, before policy
  verdict

vars == <<pc, request, k, revoked, standing, verdict>>

NoStanding == [status |-> "none", advisoryIds |-> <<>>]

(* The gates in the order of the code. *)
Rank ==
  [idle |-> 0, returned |-> 0,
   qe_vendor |-> 1, mrenclave |-> 2, formats |-> 3, from_pem |-> 4,
   parse |-> 5, validate |-> 6, signing_leaf |-> 7, crl_issuer |-> 8,
   root_crl |-> 9, pck_crl |-> 10, none_revoked |-> 11,
   tcb_signature |-> 12, tcb_id |-> 13, tcb_window |-> 14, tcb_round |-> 15,
   qe_signature |-> 16, qe_window |-> 17, qe_round |-> 18,
   qe_identity |-> 19, qe_report_signature |-> 20, qe_binding |-> 21,
   quote_signature |-> 22, debug |-> 23, platform_tcb |-> 24,
   platform_standing |-> 25, policy |-> 26]

-----------------------------------------------------------------------------
(* What the gates compute. *)

Now(r) == UnixSeconds(r.currentTime)
ChainAt(r, i) == ChainsOf(r)[i]
TcbCerts(r) == r.collateral.tcbInfoIssuerChain.ders
CrlCerts(r) == r.collateral.pckCrlIssuerChain.ders
QeCerts(r) == r.collateral.qeIdentityIssuerChain.ders
PckCerts(r) == r.quote.certData.ders

CheckThat(holds, category) == IF holds THEN Ok ELSE category

CheckDocumentFormats(c) ==
  CheckThat(/\ c.version = 3
            /\ c.tcbInfo.version = 3
            /\ c.qeIdentity.version = 2
            /\ c.tcbInfo.tcbType = 0, "CollateralParse")

RequireTcbSigningLeaf(certs) ==
  LET cn == CommonName[Leaf(certs).subject]
  IN IF cn = NoCn THEN "CollateralParse"
     ELSE CheckThat(cn = TcbSigningCn, "RootCaUntrusted")

(* leaf_verifying_key, then verify_raw_hex_signature of the document. *)
DocumentSignature(certs, doc, category) ==
  IF ~Usable(Leaf(certs).key) THEN "RootCaUntrusted"
  ELSE CheckThat(Verifies(doc, Leaf(certs).key), category)

CheckValidityWindow(doc, now, stale) ==
  CheckThat(~(doc.nextUpdate <= now \/ doc.issueDate > now), stale)

CheckEvaluationRound(doc, minimum, stale) ==
  CheckThat(~(doc.tcbEvaluationDataNumber < minimum), stale)

(* The PCK CRL is checked under the key of its issuer chain's leaf, which  *)
(* is decoded before anything of the CRL is looked at.                     *)
CheckPckCrl(r) ==
  IF ~Usable(Leaf(CrlCerts(r)).key) THEN "RootCaUntrusted"
  ELSE CheckCrl(r.collateral.pckCrl, Leaf(PckCerts(r)).issuer,
                Leaf(CrlCerts(r)).key, Now(r))

QeReportSignature(r) ==
  IF ~Usable(Leaf(PckCerts(r)).key) THEN "RootCaUntrusted"
  ELSE CheckThat(r.quote.qeReportSignedBy = Leaf(PckCerts(r)).key,
                 "QeReportSignatureInvalid")

QeBinding(quote) ==
  CheckThat(/\ quote.qeReport.reportData.head = <<quote.attestationPubKey, quote.qeAuthData>>
            /\ quote.qeReport.reportData.tailIsZero, "QeBindingInvalid")

QuoteSignature(quote) ==
  CheckThat(/\ Usable(quote.attestationPubKey)
            /\ quote.isvSignedBy = quote.attestationPubKey, "QuoteSignatureInvalid")

-----------------------------------------------------------------------------
(* One gate: continue at the next one, or return the error. *)
Gate(gate, result, next) ==
  /\ pc = gate
  /\ UNCHANGED request
  /\ \/ result = Ok /\ pc' = next /\ UNCHANGED verdict
     \/ result # Ok /\ pc' = "returned" /\ verdict' = Rejected(result)

PlainGate(gate, result, next) ==
  Gate(gate, result, next) /\ UNCHANGED <<k, revoked, standing>>

(* Variants of the two loops a slip would make of them: the counter runs   *)
(* on after an error; the counter stands still; the second list of revoked *)
(* entries replaces the first.                                             *)
ChainGateUnreset(gate, n, result, next) ==
  /\ Gate(gate, result, IF k < n THEN gate ELSE next)
  /\ k' = IF result = Ok THEN k + 1 ELSE 1
  /\ UNCHANGED <<revoked, standing>>

ChainGateStuck(gate, n, result, next) ==
  /\ Gate(gate, result, IF k < n THEN gate ELSE next)
  /\ UNCHANGED <<k, revoked, standing>>

CrlGateReplacing(gate, result, crl, next) ==
  /\ Gate(gate, result, next)
  /\ revoked' = IF result = Ok THEN RevokedEntries(crl) ELSE revoked
  /\ UNCHANGED <<k, standing>>

(* A gate repeated for chains 1..n. *)
ChainGate(gate, n, result, next) ==
  /\ Gate(gate, result, IF k < n THEN gate ELSE next)
  /\ k' = IF k < n /\ result = Ok THEN k + 1 ELSE 1
  /\ UNCHANGED <<revoked, standing>>

(* A gate that collects the entries of a CRL. *)
CrlGate(gate, result, crl, next) ==
  /\ Gate(gate, result, next)
  /\ revoked' = IF result = Ok THEN revoked \cup RevokedEntries(crl) ELSE revoked
  /\ UNCHANGED <<k, standing>>

Init ==
  /\ pc = "idle" /\ request = NoRequest /\ verdict = Pending
  /\ k = 1 /\ revoked = {} /\ standing = NoStanding

CallWith(r) ==
  /\ pc = "idle"
  /\ pc' = "qe_vendor" /\ request' = r
  /\ UNCHANGED <<k, revoked, standing, verdict>>

Call == \E r \in Requests : CallWith(r)

QeVendorGate ==
  PlainGate("qe_vendor", CheckThat(request.quote.qeVendorId = IntelQeVendorId,
                                   "QeVendorInvalid"), "mrenclave")

MrenclaveGate ==
  PlainGate("mrenclave",
            CheckThat(request.quote.reportBody.mrenclave = request.expectedMrenclave,
                      "MrenclaveMismatch"), "formats")

FormatsGate ==
  PlainGate("formats", CheckDocumentFormats(request.collateral), "from_pem")

FromPemGate ==
  ChainGate("from_pem", 4, FromPem(ChainKind[k], ChainAt(request, k)), "parse")

ParseGate ==
  ChainGate("parse", 4, ParseChain(ChainKind[k], ChainAt(request, k)), "validate")

ValidateGate ==
  ChainGate("validate", 4, Validate(ChainAt(request, k).ders, Now(request)), "signing_leaf")

SigningLeafGate ==
  ChainGate("signing_leaf", 2,
            RequireTcbSigningLeaf(IF k = 1 THEN TcbCerts(request) ELSE QeCerts(request)),
            "crl_issuer")

CrlIssuerGate ==
  PlainGate("crl_issuer",
            CheckThat(Leaf(CrlCerts(request)).subject = Leaf(PckCerts(request)).issuer,
                      "CrlInvalid"), "root_crl")

RootCrlGate ==
  CrlGate("root_crl",
          CheckCrl(request.collateral.rootCaCrl, Root(PckCerts(request)).subject,
                   RootKey, Now(request)),
          request.collateral.rootCaCrl, "pck_crl")

PckCrlGate ==
  CrlGate("pck_crl", CheckPckCrl(request), request.collateral.pckCrl, "none_revoked")

NoneRevokedGate ==
  PlainGate("none_revoked", EnsureNoneRevoked(ChainsOf(request), revoked), "tcb_signature")

TcbSignatureGate ==
  PlainGate("tcb_signature",
            DocumentSignature(TcbCerts(request), request.collateral.tcbInfo,
                              "TcbInfoSignatureInvalid"), "tcb_id")

TcbIdGate ==
  PlainGate("tcb_id", CheckThat(request.collateral.tcbInfo.id = "SGX", "CollateralParse"),
            "tcb_window")

TcbWindowGate ==
  PlainGate("tcb_window", CheckValidityWindow(request.collateral.tcbInfo, Now(request),
                                              "TcbInfoStale"), "tcb_round")

TcbRoundGate ==
  PlainGate("tcb_round", CheckEvaluationRound(request.collateral.tcbInfo, Floor(request),
                                              "TcbInfoStale"), "qe_signature")

QeSignatureGate ==
  PlainGate("qe_signature",
            DocumentSignature(QeCerts(request), request.collateral.qeIdentity,
                              "QeIdentitySignatureInvalid"), "qe_window")

QeWindowGate ==
  PlainGate("qe_window", CheckValidityWindow(request.collateral.qeIdentity, Now(request),
                                             "QeIdentityStale"), "qe_round")

(* A variant that holds the other document's round against the floor.      *)
QeRoundGateOfTcbInfo ==
  PlainGate("qe_round", CheckEvaluationRound(request.collateral.tcbInfo, Floor(request),
                                             "QeIdentityStale"), "qe_identity")

QeRoundGate ==
  PlainGate("qe_round", CheckEvaluationRound(request.collateral.qeIdentity, Floor(request),
                                             "QeIdentityStale"), "qe_identity")

QeIdentityGate ==
  PlainGate("qe_identity",
            CheckQeIdentity(request.collateral.qeIdentity, request.quote.qeReport),
            "qe_report_signature")

QeReportSignatureGate ==
  PlainGate("qe_report_signature", QeReportSignature(request), "qe_binding")

QeBindingGate ==
  PlainGate("qe_binding", QeBinding(request.quote), "quote_signature")

QuoteSignatureGate ==
  PlainGate("quote_signature", QuoteSignature(request.quote), "debug")

DebugGate ==
  PlainGate("debug", CheckThat(~IsDebug(request.quote.reportBody), "DebugEnclaveRejected"),
            "platform_tcb")

PlatformTcbGate ==
  PlainGate("platform_tcb", ExtensionError(Leaf(PckCerts(request))), "platform_standing")

(* The last gate of verify_remote_attestation.  Without a policy its       *)
(* success is the verdict; with one, the policy judges the standing next.  *)
PlatformStandingGate ==
  LET pck == ExtractPckPlatformTcb(Leaf(PckCerts(request)))
      info == request.collateral.tcbInfo
      result == StandingError(info, pck)
  IN /\ pc = "platform_standing"
     /\ standing' = IF result = Ok THEN PlatformStanding(info, pck) ELSE standing
     /\ \/ /\ result = Ok /\ request.policy = {}
           /\ pc' = "returned"
           /\ verdict' = Accepted(standing', request.quote.reportBody)
        \/ /\ result = Ok /\ request.policy # {}
           /\ pc' = "policy" /\ UNCHANGED verdict
        \/ /\ result # Ok
           /\ pc' = "returned" /\ verdict' = Rejected(result)
     /\ UNCHANGED <<request, k, revoked>>

PolicyGate ==
  LET result == PolicyCheck(CHOOSE p \in request.policy : TRUE, standing)
  IN /\ pc = "policy"
     /\ pc' = "returned"
     /\ verdict' = IF result = Ok THEN Accepted(standing, request.quote.reportBody)
                   ELSE Rejected(result)
     /\ UNCHANGED <<request, k, revoked, standing>>

(* The caller takes the result; every local of the call is gone. *)
Return ==
  /\ pc = "returned"
  /\ pc' = "idle" /\ request' = NoRequest /\ verdict' = Pending
  /\ k' = 1 /\ revoked' = {} /\ standing' = NoStanding

Step ==
  \/ QeVendorGate \/ MrenclaveGate \/ FormatsGate
  \/ FromPemGate \/ ParseGate \/ ValidateGate \/ SigningLeafGate
  \/ CrlIssuerGate \/ RootCrlGate \/ PckCrlGate \/ NoneRevokedGate
  \/ TcbSignatureGate \/ TcbIdGate \/ TcbWindowGate \/ TcbRoundGate
  \/ QeSignatureGate \/ QeWindowGate \/ QeRoundGate \/ QeIdentityGate
  \/ QeReportSignatureGate \/ QeBindingGate \/ QuoteSignatureGate
  \/ DebugGate \/ PlatformTcbGate \/ PlatformStandingGate \/ PolicyGate

Next == Call \/ Step \/ Return

Spec == Init /\ [][Next]_vars

(* The function runs to its end; the caller need not call. *)
FairSpec == Spec /\ WF_vars(Step)

-----------------------------------------------------------------------------
(* The abstract specification this pipeline implements. *)
Phase == IF pc \in {"idle", "returned"} THEN pc ELSE "called"
Promise == INSTANCE Attestation WITH phase <- Phase

(* The variables keep their types: the loop counter stays within the four  *)
(* chains, only entries of a CRL of the call are collected, and a verdict  *)
(* is there exactly when the call has returned.                            *)
TypeOK ==
  /\ pc \in DOMAIN Rank
  /\ request = NoRequest \/ request \in Request
  /\ (request = NoRequest) = (pc = "idle")
  /\ k \in 1..4
  /\ revoked \subseteq [issuer : Name, serial : Seq(Byte)]
  /\ standing \in TcbStanding \cup {NoStanding}
  /\ verdict \in Verdict
  /\ (verdict = Pending) = (pc # "returned")

(* An accepted report is backed by the whole of the evidence, whichever of *)
(* the two entry points was called: every certificate, CRL, document and   *)
(* signature holds at the time of the call, and the standing is that of    *)
(* the first TCB level the platform reaches.                               *)
AcceptanceSound ==
  verdict.kind = "accepted" =>
    /\ Promise!Acceptable(request)
    /\ Promise!HasStanding(request, verdict.standing)
    /\ \A p \in request.policy : Promise!Permits(p, verdict.standing)
    /\ verdict.reportBody = request.quote.reportBody

(* What an acceptance takes: all of the evidence, and a standing that the  *)
(* policy, if there is one, permits.                                       *)
Deserved(r) ==
  /\ Promise!Acceptable(r)
  /\ \E i \in DOMAIN r.collateral.tcbInfo.tcbLevels :
       LET s == Promise!StandingOf(r.collateral.tcbInfo.tcbLevels[i])
       IN Promise!HasStanding(r, s) /\ \A p \in r.policy : Promise!Permits(p, s)

(* No call with all of it is turned away: whatever else there is about its *)
(* chains, CRLs, documents and levels, none of the gates finds a fault.    *)
AcceptanceComplete ==
  pc = "returned" /\ Deserved(request) => verdict.kind = "accepted"

(* Whatever the order of the gates does, the call is answered as promised: *)
(* accepted exactly when all the evidence holds, with the standing of the  *)
(* first level reached, and otherwise rejected for a fault the call has,   *)
(* after the stages its category takes for granted.                        *)
ImplementsPromise == Promise!Spec

(* Every call comes to an end: each gate continues or returns, and the     *)
(* loops over the chains visit four chains and stop.                       *)
CallAnswered == Promise!Answered
=============================================================================
