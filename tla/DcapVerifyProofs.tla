-------------------------- MODULE DcapVerifyProofs --------------------------
(***************************************************************************)
(* The verifier keeps its types, accepts only what the evidence backs, and *)
(* implements Attestation, for all calls, chain lengths and component      *)
(* counts.  No call goes round in its gates, and its verdict is a function *)
(* of the call: stricter with a stricter policy, without gaps in time.     *)
(***************************************************************************)
EXTENDS DcapVerifyLemmas

Gates == DOMAIN Rank \ {"idle", "returned"}

(* TypeOK is inductive once the standing a policy judges is a real one.    *)
TypeInv == TypeOK /\ (pc = "policy" => standing \in TcbStanding)

-----------------------------------------------------------------------------
(* Every check returns Ok or an error category. *)
LEMMA CheckThatType ==
  ASSUME NEW holds, NEW category \in ErrorCategory
  PROVE  CheckThat(holds, category) \in Result
  BY DEF CheckThat, Result

(* The checks of documents return results. *)
LEMMA DocumentCheckTypes ==
  ASSUME NEW doc, NEW certs, NEW now, NEW category \in ErrorCategory
  PROVE  /\ DocumentSignature(certs, doc, category) \in Result
         /\ CheckValidityWindow(doc, now, category) \in Result
         /\ CheckEvaluationRound(doc, now, category) \in Result
  BY CheckThatType DEF DocumentSignature, CheckValidityWindow, CheckEvaluationRound,
                       Result, ErrorCategory

(* The checks of chains return results. *)
LEMMA ChainCheckTypes ==
  ASSUME NEW kind, NEW chain, NEW certs, NEW now
  PROVE  /\ FromPem(kind, chain) \in Result /\ ParseChain(kind, chain) \in Result
         /\ Validate(certs, now) \in Result /\ RequireTcbSigningLeaf(certs) \in Result
  BY DEF FromPem, ParseChain, ParseError, Validate, RequireTcbSigningLeaf, CheckThat,
         Result, ErrorCategory

(* The checks of CRLs return results. *)
LEMMA CrlCheckTypes ==
  ASSUME NEW crl, NEW authority, NEW key, NEW now, NEW chains, NEW entries, NEW r
  PROVE  /\ CheckCrl(crl, authority, key, now) \in Result
         /\ CheckPckCrl(r) \in Result
         /\ EnsureNoneRevoked(chains, entries) \in Result
  BY DEF CheckCrl, CheckPckCrl, EnsureNoneRevoked, Result, ErrorCategory

(* The checks of the quote return results. *)
LEMMA QuoteCheckTypes ==
  ASSUME NEW r, NEW id, NEW qe, NEW leaf
  PROVE  /\ CheckDocumentFormats(r) \in Result /\ CheckQeIdentity(id, qe) \in Result
         /\ QeReportSignature(r) \in Result /\ QeBinding(r) \in Result
         /\ QuoteSignature(r) \in Result /\ ExtensionError(leaf) \in Result
  BY DEF CheckDocumentFormats, CheckQeIdentity, QeReportSignature, QeBinding,
         QuoteSignature, ExtensionError, CheckThat, Result, ErrorCategory

(* The standing and policy checks return results. *)
LEMMA StandingCheckTypes ==
  ASSUME NEW info, NEW pck, NEW policy, NEW s
  PROVE  StandingError(info, pck) \in Result /\ PolicyCheck(policy, s) \in Result
  BY DEF StandingError, PolicyCheck, Result, ErrorCategory

(* The entries of a CRL are issuer names with byte strings. *)
LEMMA RevokedEntriesType ==
  ASSUME NEW crl \in Crl
  PROVE  RevokedEntries(crl) \subseteq [issuer : Name, serial : Seq(Byte)]
<1>1. crl.issuer \in Name /\ \A s \in crl.revoked : s \in Seq(Byte)
  BY DEF Crl
<1>2. \A s \in crl.revoked : NormalizedSerial(s) \in Seq(Byte)
  BY <1>1, NormalizedSerialType
<1> QED
  BY <1>1, <1>2 DEF RevokedEntries

-----------------------------------------------------------------------------

(* A rejection is a verdict. *)
LEMMA RejectedType ==
  ASSUME NEW result \in Result, result # Ok
  PROVE  Rejected(result) \in Verdict /\ Rejected(result) # Pending
  BY DEF Result, Rejected, Verdict, Pending

(* An acceptance is a verdict. *)
LEMMA AcceptedType ==
  ASSUME NEW s \in TcbStanding, NEW body \in ReportBody
  PROVE  Accepted(s, body) \in Verdict /\ Accepted(s, body) # Pending
<1>1. Accepted(s, body) \in [kind : {"accepted"}, standing : TcbStanding, reportBody : ReportBody]
  BY DEF Accepted
<1>2. Accepted(s, body).kind # Pending.kind
  BY DEF Accepted, Pending
<1> QED
  BY <1>1, <1>2 DEF Verdict

(* A call that has not returned has the pending verdict. *)
LEMMA PendingType == Pending \in Verdict /\ Pending = [kind |-> "pending"]
  BY DEF Pending, Verdict

(* A gate keeps the types of the variables every gate handles alike. *)
LEMMA GateTyped ==
  ASSUME NEW gate \in Gates, NEW result \in Result, NEW next \in Gates,
         TypeInv, Gate(gate, result, next)
  PROVE  /\ pc' \in DOMAIN Rank /\ pc' # "idle"
         /\ request' = request /\ request' # NoRequest /\ request' \in Request
         /\ verdict' \in Verdict /\ (verdict' = Pending) = (pc' # "returned")
         /\ result = Ok => pc' = next
<1>1. CASE result = Ok
  BY <1>1 DEF Gate, TypeInv, TypeOK, Gates
<1>2. CASE result # Ok
  <2>1. "returned" \in DOMAIN Rank
    BY DEF Rank
  <2> QED
    BY <1>2, <2>1, RejectedType DEF Gate, TypeInv, TypeOK, Gates
<1> QED
  BY <1>1, <1>2

(* A gate that neither loops nor collects keeps the types. *)
LEMMA PlainGateTyped ==
  ASSUME NEW gate \in Gates, NEW result \in Result, NEW next \in Gates \ {"policy"},
         TypeInv, PlainGate(gate, result, next)
  PROVE  TypeInv'
  BY GateTyped DEF PlainGate, Gate, TypeInv, TypeOK

(* A gate that loops over chains keeps its counter within them. *)
LEMMA ChainGateTyped ==
  ASSUME NEW gate \in Gates \ {"policy"}, NEW n \in 1..4, NEW result \in Result,
         NEW next \in Gates \ {"policy"}, TypeInv, ChainGate(gate, n, result, next)
  PROVE  TypeInv'
<1>1. (IF k < n THEN gate ELSE next) \in Gates \ {"policy"}
  OBVIOUS
<1>2. /\ Gate(gate, result, IF k < n THEN gate ELSE next)
      /\ k' \in 1..4 /\ revoked' = revoked /\ standing' = standing
  BY DEF ChainGate, TypeInv, TypeOK
<1>3. pc' # "policy"
  BY <1>1, <1>2 DEF Gate
<1> QED
  BY <1>1, <1>2, <1>3, GateTyped DEF TypeInv, TypeOK

(* A gate that collects CRL entries collects well-typed ones. *)
LEMMA CrlGateTyped ==
  ASSUME NEW gate \in Gates, NEW result \in Result, NEW crl \in Crl,
         NEW next \in Gates \ {"policy"}, TypeInv, CrlGate(gate, result, crl, next)
  PROVE  TypeInv'
<1>1. revoked' \subseteq [issuer : Name, serial : Seq(Byte)]
  BY RevokedEntriesType DEF CrlGate, TypeInv, TypeOK
<1>2. /\ Gate(gate, result, next) /\ k' = k /\ standing' = standing
      /\ pc' # "policy"
  BY DEF CrlGate, Gate
<1> QED
  BY <1>1, <1>2, GateTyped DEF TypeInv, TypeOK

(* The gates of the code are gates. *)
LEMMA GateNames ==
  /\ Gates =
       {"qe_vendor", "mrenclave", "formats", "from_pem", "parse", "validate",
        "signing_leaf", "crl_issuer", "root_crl", "pck_crl", "none_revoked",
        "tcb_signature", "tcb_id", "tcb_window", "tcb_round", "qe_signature",
        "qe_window", "qe_round", "qe_identity", "qe_report_signature", "qe_binding",
        "quote_signature", "debug", "platform_tcb", "platform_standing", "policy"}
  /\ DOMAIN Rank = Gates \cup {"idle", "returned"}
  BY DEF Gates, Rank

(* The call is there while a gate is at work. *)
LEMMA RequestThere ==
  ASSUME TypeInv, pc # "idle"
  PROVE  /\ request \in Request /\ request.collateral.rootCaCrl \in Crl
         /\ request.collateral.pckCrl \in Crl /\ request.collateral.tcbInfo \in TcbInfo
         /\ request.quote.reportBody \in ReportBody
<1>1. request \in Request
  BY DEF TypeInv, TypeOK
<1> QED
  BY <1>1, RequestParts

(* The verifier starts with well-typed variables. *)
LEMMA TypeInit == Init => TypeInv
<1> SUFFICES ASSUME Init PROVE TypeInv
  OBVIOUS
<1>1. "idle" \in DOMAIN Rank
  BY DEF Rank
<1> QED
  BY <1>1, PendingType DEF Init, TypeInv, TypeOK

(* The standing platform_standing returns is one of the three accepted     *)
(* kinds.                                                                  *)
LEMMA StandingGateTyped ==
  ASSUME TypeInv, PlatformStandingGate
  PROVE  TypeInv'
<1> DEFINE pck == ExtractPckPlatformTcb(Leaf(PckCerts(request)))
           info == request.collateral.tcbInfo
           result == StandingError(info, pck)
<1>0. /\ pc = "platform_standing"
      /\ standing' = IF result = Ok THEN PlatformStanding(info, pck) ELSE standing
      /\ \/ /\ result = Ok /\ pc' = "returned"
            /\ verdict' = Accepted(standing', request.quote.reportBody)
         \/ result = Ok /\ pc' = "policy" /\ verdict' = verdict
         \/ result # Ok /\ pc' = "returned" /\ verdict' = Rejected(result)
      /\ request' = request /\ k' = k /\ revoked' = revoked
  BY DEF PlatformStandingGate
<1>1. /\ request \in Request /\ info \in TcbInfo /\ request.quote.reportBody \in ReportBody
  BY <1>0, RequestThere
<1>2. result \in Result
  BY StandingCheckTypes
<1>3. result = Ok => PlatformStanding(info, pck) \in TcbStanding
  BY <1>1, PlatformStandingType
<1>4. pc' \in DOMAIN Rank /\ pc' # "idle"
  BY <1>0, GateNames
<1> HIDE DEF pck, info, result
<1>5. CASE result = Ok
  <2>1. standing' \in TcbStanding
    BY <1>0, <1>3, <1>5
  <2>2. verdict' \in Verdict /\ (verdict' = Pending) = (pc' # "returned")
    BY <1>0, <1>1, <1>5, <2>1, AcceptedType DEF TypeInv, TypeOK
  <2> QED
    BY <1>0, <1>4, <2>1, <2>2 DEF TypeInv, TypeOK
<1>6. CASE result # Ok
  BY <1>0, <1>2, <1>4, <1>6, RejectedType DEF TypeInv, TypeOK
<1> QED
  BY <1>5, <1>6

(* The policy passes the standing on as it is, or rejects. *)
LEMMA PolicyGateTyped ==
  ASSUME TypeInv, PolicyGate
  PROVE  TypeInv'
<1> DEFINE result == PolicyCheck(CHOOSE p \in request.policy : TRUE, standing)
<1>0. /\ pc = "policy" /\ pc' = "returned"
      /\ verdict' = IF result = Ok THEN Accepted(standing, request.quote.reportBody)
                    ELSE Rejected(result)
      /\ request' = request /\ k' = k /\ revoked' = revoked /\ standing' = standing
  BY DEF PolicyGate
<1>1. standing \in TcbStanding /\ request.quote.reportBody \in ReportBody
  BY <1>0, RequestThere DEF TypeInv
<1>2. result \in Result
  BY StandingCheckTypes
<1>3. pc' \in DOMAIN Rank
  BY <1>0, GateNames
<1> HIDE DEF result
<1>4. verdict' \in Verdict /\ verdict' # Pending
  BY <1>0, <1>1, <1>2, AcceptedType, RejectedType
<1> QED
  BY <1>0, <1>3, <1>4 DEF TypeInv, TypeOK

(* Every step keeps the types. *)
LEMMA TypeStep == TypeInv /\ [Next]_vars => TypeInv'
<1> SUFFICES ASSUME TypeInv, [Next]_vars PROVE TypeInv'
  OBVIOUS
<1> USE GateNames
<1>0. \A c \in ErrorCategory : \A holds : CheckThat(holds, c) \in Result
  BY CheckThatType
<1>1. CASE QeVendorGate
  BY <1>1, <1>0, PlainGateTyped DEF QeVendorGate, ErrorCategory
<1>2. CASE MrenclaveGate
  BY <1>2, <1>0, PlainGateTyped DEF MrenclaveGate, ErrorCategory
<1>3. CASE FormatsGate
  BY <1>3, QuoteCheckTypes, PlainGateTyped DEF FormatsGate
<1>4. CASE CrlIssuerGate
  BY <1>4, <1>0, PlainGateTyped DEF CrlIssuerGate, ErrorCategory
<1>5. CASE NoneRevokedGate
  BY <1>5, CrlCheckTypes, PlainGateTyped DEF NoneRevokedGate
<1>6. CASE TcbSignatureGate
  BY <1>6, DocumentCheckTypes, PlainGateTyped DEF TcbSignatureGate, ErrorCategory
<1>7. CASE TcbIdGate
  BY <1>7, <1>0, PlainGateTyped DEF TcbIdGate, ErrorCategory
<1>8. CASE TcbWindowGate
  BY <1>8, DocumentCheckTypes, PlainGateTyped DEF TcbWindowGate, ErrorCategory
<1>9. CASE TcbRoundGate
  BY <1>9, DocumentCheckTypes, PlainGateTyped DEF TcbRoundGate, ErrorCategory
<1>10. CASE QeSignatureGate
  BY <1>10, DocumentCheckTypes, PlainGateTyped DEF QeSignatureGate, ErrorCategory
<1>11. CASE QeWindowGate
  BY <1>11, DocumentCheckTypes, PlainGateTyped DEF QeWindowGate, ErrorCategory
<1>12. CASE QeRoundGate
  BY <1>12, DocumentCheckTypes, PlainGateTyped DEF QeRoundGate, ErrorCategory
<1>13. CASE QeIdentityGate
  BY <1>13, QuoteCheckTypes, PlainGateTyped DEF QeIdentityGate
<1>14. CASE QeReportSignatureGate
  BY <1>14, QuoteCheckTypes, PlainGateTyped DEF QeReportSignatureGate
<1>15. CASE QeBindingGate
  BY <1>15, QuoteCheckTypes, PlainGateTyped DEF QeBindingGate
<1>16. CASE QuoteSignatureGate
  BY <1>16, QuoteCheckTypes, PlainGateTyped DEF QuoteSignatureGate
<1>17. CASE DebugGate
  BY <1>17, <1>0, PlainGateTyped DEF DebugGate, ErrorCategory
<1>18. CASE PlatformTcbGate
  BY <1>18, QuoteCheckTypes, PlainGateTyped DEF PlatformTcbGate
<1>19. CASE FromPemGate
  BY <1>19, ChainCheckTypes, ChainGateTyped DEF FromPemGate
<1>20. CASE ParseGate
  BY <1>20, ChainCheckTypes, ChainGateTyped DEF ParseGate
<1>21. CASE ValidateGate
  BY <1>21, ChainCheckTypes, ChainGateTyped DEF ValidateGate
<1>22. CASE SigningLeafGate
  BY <1>22, ChainCheckTypes, ChainGateTyped DEF SigningLeafGate
<1>23. CASE RootCrlGate
  <2>1. pc # "idle"
    BY <1>23 DEF RootCrlGate, CrlGate, Gate
  <2> QED
    BY <1>23, <2>1, RequestThere, CrlCheckTypes, CrlGateTyped DEF RootCrlGate
<1>24. CASE PckCrlGate
  <2>1. pc # "idle"
    BY <1>24 DEF PckCrlGate, CrlGate, Gate
  <2> QED
    BY <1>24, <2>1, RequestThere, CrlCheckTypes, CrlGateTyped DEF PckCrlGate
<1>25. CASE PlatformStandingGate
  BY <1>25, StandingGateTyped
<1>26. CASE PolicyGate
  BY <1>26, PolicyGateTyped
<1>27. CASE Call
  BY <1>27, RequestsAssumption DEF Call, CallWith, TypeInv, TypeOK
<1>28. CASE Return
  BY <1>28, PendingType DEF Return, TypeInv, TypeOK
<1>29. CASE UNCHANGED vars
  BY <1>29 DEF vars, TypeInv, TypeOK
<1> QED
  BY <1>1, <1>2, <1>3, <1>4, <1>5, <1>6, <1>7, <1>8, <1>9, <1>10, <1>11, <1>12,
     <1>13, <1>14, <1>15, <1>16, <1>17, <1>18, <1>19, <1>20, <1>21, <1>22,
     <1>23, <1>24, <1>25, <1>26, <1>27, <1>28, <1>29 DEF Next, Step

(* At every moment of any run the variables have their types: the loop     *)
(* counter of the four chains never leaves them, and a verdict is there    *)
(* exactly when the call has returned.                                     *)
THEOREM TypeCorrect == Spec => []TypeOK
<1>1. TypeInv => TypeOK
  BY DEF TypeInv
<1> QED
  BY <1>1, TypeInit, TypeStep, PTL DEF Spec

-----------------------------------------------------------------------------
(* What the gates passed so far have established.  Gate n of call r holds; *)
(* the gates that loop over chains hold for each of them.                  *)

HoldsAt(r, n, i) ==
  /\ n = 4 => FromPem(ChainKind[i], ChainAt(r, i)) = Ok
  /\ n = 5 => ParseChain(ChainKind[i], ChainAt(r, i)) = Ok
  /\ n = 6 => Validate(ChainAt(r, i).ders, Now(r)) = Ok
  /\ n = 7 => RequireTcbSigningLeaf(IF i = 1 THEN TcbCerts(r) ELSE QeCerts(r)) = Ok

Holds(r, n) ==
  /\ n = 1 => r.quote.qeVendorId = IntelQeVendorId
  /\ n = 2 => r.quote.reportBody.mrenclave = r.expectedMrenclave
  /\ n = 3 => CheckDocumentFormats(r.collateral) = Ok
  /\ n \in 4..6 => \A i \in 1..4 : HoldsAt(r, n, i)
  /\ n = 7 => \A i \in 1..2 : HoldsAt(r, n, i)
  /\ n = 8 => Leaf(CrlCerts(r)).subject = Leaf(PckCerts(r)).issuer
  /\ n = 9 => CheckCrl(r.collateral.rootCaCrl, Root(PckCerts(r)).subject, RootKey, Now(r)) = Ok
  /\ n = 10 => CheckPckCrl(r) = Ok
  /\ n = 11 => EnsureNoneRevoked(ChainsOf(r), RevokedEntries(r.collateral.rootCaCrl)
                                  \cup RevokedEntries(r.collateral.pckCrl)) = Ok
  /\ n = 12 => DocumentSignature(TcbCerts(r), r.collateral.tcbInfo, "TcbInfoSignatureInvalid") = Ok
  /\ n = 13 => r.collateral.tcbInfo.id = "SGX"
  /\ n = 14 => CheckValidityWindow(r.collateral.tcbInfo, Now(r), "TcbInfoStale") = Ok
  /\ n = 15 => CheckEvaluationRound(r.collateral.tcbInfo, Floor(r), "TcbInfoStale") = Ok
  /\ n = 16 => DocumentSignature(QeCerts(r), r.collateral.qeIdentity,
                                 "QeIdentitySignatureInvalid") = Ok
  /\ n = 17 => CheckValidityWindow(r.collateral.qeIdentity, Now(r), "QeIdentityStale") = Ok
  /\ n = 18 => CheckEvaluationRound(r.collateral.qeIdentity, Floor(r), "QeIdentityStale") = Ok
  /\ n = 19 => CheckQeIdentity(r.collateral.qeIdentity, r.quote.qeReport) = Ok
  /\ n = 20 => QeReportSignature(r) = Ok
  /\ n = 21 => QeBinding(r.quote) = Ok
  /\ n = 22 => QuoteSignature(r.quote) = Ok
  /\ n = 23 => ~IsDebug(r.quote.reportBody)
  /\ n = 24 => ExtensionError(Leaf(PckCerts(r))) = Ok

PlatformOf(r) == ExtractPckPlatformTcb(Leaf(PckCerts(r)))

(* The CRL entries a call has collected when gate n is next. *)
Collected(r, n) ==
  (IF n > 9 THEN RevokedEntries(r.collateral.rootCaCrl) ELSE {})
  \cup (IF n > 10 THEN RevokedEntries(r.collateral.pckCrl) ELSE {})

(* The strengthening of AcceptanceSound: every gate passed holds, the gate *)
(* at work holds for the chains visited so far, and the locals are what    *)
(* the gates passed have computed.                                         *)
Evidence ==
  /\ pc = "idle" => k = 1 /\ revoked = {}
  /\ pc \in Gates =>
    /\ \A n \in 1..(Rank[pc] - 1) : Holds(request, n)
    /\ \A i \in 1..(k - 1) : HoldsAt(request, Rank[pc], i)
    /\ k # 1 => pc \in {"from_pem", "parse", "validate", "signing_leaf"}
    /\ pc = "signing_leaf" => k <= 2
    /\ revoked = Collected(request, Rank[pc])
    /\ pc = "policy" => /\ request.policy # {}
                        /\ StandingError(request.collateral.tcbInfo, PlatformOf(request)) = Ok
                        /\ standing = PlatformStanding(request.collateral.tcbInfo,
                                                       PlatformOf(request))

(* A gate that rejects leaves nothing to show. *)
LEMMA EvidenceReturned == pc' = "returned" => Evidence'
  BY GateNames DEF Evidence

(* The gate after one that neither loops nor collects. *)
Follows(gate, next) ==
  /\ gate \in Gates \ {"from_pem", "parse", "validate", "signing_leaf"}
  /\ next \in Gates \ {"policy"}
  /\ Rank[gate] \in Nat /\ Rank[next] = Rank[gate] + 1
  /\ \A r : Collected(r, Rank[next]) = Collected(r, Rank[gate])

(* A gate that neither loops nor collects adds what it has checked to the  *)
(* evidence.                                                               *)
LEMMA PlainGateEvidence ==
  ASSUME Evidence, NEW gate, NEW result, NEW next, Follows(gate, next),
         PlainGate(gate, result, next), result = Ok => Holds(request, Rank[gate])
  PROVE  Evidence'
<1>1. CASE result # Ok
  BY <1>1, EvidenceReturned DEF PlainGate, Gate
<1>2. CASE result = Ok
  <2>0. /\ gate \in Gates \ {"from_pem", "parse", "validate", "signing_leaf"}
        /\ next \in Gates \ {"policy"}
        /\ Rank[gate] \in Nat /\ Rank[next] = Rank[gate] + 1
        /\ Collected(request, Rank[next]) = Collected(request, Rank[gate])
    BY DEF Follows
  <2>1. /\ pc = gate /\ pc' = next /\ request' = request
        /\ k' = k /\ revoked' = revoked /\ standing' = standing
    BY <1>2 DEF PlainGate, Gate
  <2>2. k = 1 /\ revoked = Collected(request, Rank[gate])
    BY <2>0, <2>1 DEF Evidence
  <2>3. \A n \in 1..(Rank[next] - 1) : Holds(request, n)
    BY <1>2, <2>0, <2>1 DEF Evidence
  <2>4. \A i \in 1..(k - 1) : HoldsAt(request, Rank[next], i)
    BY <2>2
  <2> QED
    BY <2>0, <2>1, <2>2, <2>3, <2>4, GateNames DEF Evidence
<1> QED
  BY <1>1, <1>2

(* A gate that loops over chains moves on only when it has checked each of *)
(* them.                                                                   *)
LEMMA ChainGateEvidence ==
  ASSUME TypeInv, Evidence, NEW gate \in {"from_pem", "parse", "validate", "signing_leaf"},
         NEW count \in {2, 4}, gate = "signing_leaf" <=> count = 2,
         NEW result, NEW next \in Gates \ {"policy"}, ChainGate(gate, count, result, next),
         Rank[gate] \in Nat, Rank[next] = Rank[gate] + 1,
         result = Ok => HoldsAt(request, Rank[gate], k),
         (\A i \in 1..count : HoldsAt(request, Rank[gate], i)) => Holds(request, Rank[gate]),
         Collected(request, Rank[next]) = Collected(request, Rank[gate])
  PROVE  Evidence'
<1>0. k \in 1..4 /\ gate \in Gates
  BY GateNames DEF TypeInv, TypeOK
<1>1. CASE result # Ok
  BY <1>1, EvidenceReturned DEF ChainGate, Gate
<1>2. CASE result = Ok
  <2>1. /\ pc = gate /\ pc' = (IF k < count THEN gate ELSE next) /\ request' = request
        /\ k' = (IF k < count THEN k + 1 ELSE 1)
        /\ revoked' = revoked /\ standing' = standing
    BY <1>2 DEF ChainGate, Gate
  <2>2. /\ \A i \in 1..k : HoldsAt(request, Rank[gate], i)
        /\ k <= count
        /\ revoked = Collected(request, Rank[gate])
        /\ \A n \in 1..(Rank[gate] - 1) : Holds(request, n)
    BY <1>0, <1>2, <2>1 DEF Evidence
  <2>3. CASE k < count
    BY <1>0, <2>1, <2>2, <2>3, GateNames DEF Evidence
  <2>4. CASE ~(k < count)
    <3>1. k = count
      BY <1>0, <2>2, <2>4
    <3>2. \A n \in 1..(Rank[next] - 1) : Holds(request, n)
      BY <2>2, <3>1
    <3> QED
      BY <2>1, <2>2, <2>4, <3>2, GateNames DEF Evidence
  <2> QED
    BY <2>3, <2>4
<1> QED
  BY <1>1, <1>2

(* A CRL gate adds its entries to those collected before it. *)
LEMMA CrlGateEvidence ==
  ASSUME Evidence, NEW gate \in {"root_crl", "pck_crl"}, NEW result, NEW crl,
         NEW next \in Gates \ {"policy"}, CrlGate(gate, result, crl, next),
         Rank[gate] \in Nat, Rank[next] = Rank[gate] + 1,
         result = Ok => Holds(request, Rank[gate]),
         Collected(request, Rank[next]) = Collected(request, Rank[gate]) \cup RevokedEntries(crl)
  PROVE  Evidence'
<1>1. CASE result # Ok
  BY <1>1, EvidenceReturned DEF CrlGate, Gate
<1>2. CASE result = Ok
  <2>1. /\ pc = gate /\ pc' = next /\ request' = request
        /\ k' = k /\ revoked' = revoked \cup RevokedEntries(crl) /\ standing' = standing
    BY <1>2 DEF CrlGate, Gate
  <2>2. /\ k = 1 /\ revoked = Collected(request, Rank[gate])
        /\ \A n \in 1..(Rank[gate] - 1) : Holds(request, n)
    BY <2>1, GateNames DEF Evidence
  <2>3. \A n \in 1..(Rank[next] - 1) : Holds(request, n)
    BY <1>2, <2>2
  <2> QED
    BY <2>1, <2>2, <2>3, GateNames DEF Evidence
<1> QED
  BY <1>1, <1>2

(* Without an error platform_standing's result goes to the policy, with    *)
(* everything the earlier gates established.                               *)
LEMMA StandingGateEvidence ==
  ASSUME Evidence, PlatformStandingGate
  PROVE  Evidence'
<1>0. /\ Rank["platform_standing"] = 25 /\ Rank["policy"] = 26
  BY DEF Rank
<1>1. CASE pc' = "returned"
  BY <1>1, EvidenceReturned
<1>2. CASE pc' # "returned"
  <2>1. /\ pc = "platform_standing" /\ pc' = "policy"
        /\ request' = request /\ k' = k /\ revoked' = revoked /\ request.policy # {}
        /\ StandingError(request.collateral.tcbInfo, PlatformOf(request)) = Ok
        /\ standing' = PlatformStanding(request.collateral.tcbInfo, PlatformOf(request))
    BY <1>2 DEF PlatformStandingGate, PlatformOf
  <2>2. /\ k = 1 /\ revoked = Collected(request, 25)
        /\ \A n \in 1..24 : Holds(request, n)
    BY <1>0, <2>1, GateNames DEF Evidence
  <2>3. \A n \in 1..25 : Holds(request, n)
    BY <2>2 DEF Holds
  <2>4. Collected(request, 26) = Collected(request, 25)
    BY DEF Collected
  <2> QED
    BY <1>0, <2>1, <2>2, <2>3, <2>4, GateNames DEF Evidence
<1> QED
  BY <1>1, <1>2

(* The ranks of the gates. *)
LEMMA Ranks ==
  /\ Rank["qe_vendor"] = 1 /\ Rank["mrenclave"] = 2 /\ Rank["formats"] = 3
  /\ Rank["from_pem"] = 4 /\ Rank["parse"] = 5 /\ Rank["validate"] = 6
  /\ Rank["signing_leaf"] = 7 /\ Rank["crl_issuer"] = 8 /\ Rank["root_crl"] = 9
  /\ Rank["pck_crl"] = 10 /\ Rank["none_revoked"] = 11 /\ Rank["tcb_signature"] = 12
  /\ Rank["tcb_id"] = 13 /\ Rank["tcb_window"] = 14 /\ Rank["tcb_round"] = 15
  /\ Rank["qe_signature"] = 16 /\ Rank["qe_window"] = 17 /\ Rank["qe_round"] = 18
  /\ Rank["qe_identity"] = 19 /\ Rank["qe_report_signature"] = 20 /\ Rank["qe_binding"] = 21
  /\ Rank["quote_signature"] = 22 /\ Rank["debug"] = 23 /\ Rank["platform_tcb"] = 24
  /\ Rank["platform_standing"] = 25 /\ Rank["policy"] = 26
  BY DEF Rank

(* What is collected changes with the two CRL gates only. *)
LEMMA CollectedSteps ==
  ASSUME NEW r
  PROVE  /\ \A n \in 1..8 : Collected(r, n + 1) = Collected(r, n)
         /\ \A n \in 11..25 : Collected(r, n + 1) = Collected(r, n)
         /\ Collected(r, 1) = {}
         /\ Collected(r, 10) = Collected(r, 9) \cup RevokedEntries(r.collateral.rootCaCrl)
         /\ Collected(r, 11) = Collected(r, 10) \cup RevokedEntries(r.collateral.pckCrl)
  BY DEF Collected

(* The order of those gates. *)
LEMMA GateOrder ==
  /\ Follows("qe_vendor", "mrenclave")
  /\ Follows("mrenclave", "formats")
  /\ Follows("formats", "from_pem")
  /\ Follows("crl_issuer", "root_crl")
  /\ Follows("none_revoked", "tcb_signature")
  /\ Follows("tcb_signature", "tcb_id")
  /\ Follows("tcb_id", "tcb_window")
  /\ Follows("tcb_window", "tcb_round")
  /\ Follows("tcb_round", "qe_signature")
  /\ Follows("qe_signature", "qe_window")
  /\ Follows("qe_window", "qe_round")
  /\ Follows("qe_round", "qe_identity")
  /\ Follows("qe_identity", "qe_report_signature")
  /\ Follows("qe_report_signature", "qe_binding")
  /\ Follows("qe_binding", "quote_signature")
  /\ Follows("quote_signature", "debug")
  /\ Follows("debug", "platform_tcb")
  /\ Follows("platform_tcb", "platform_standing")
  BY GateNames, Ranks, CollectedSteps DEF Follows

(* Every step keeps the evidence. *)
LEMMA EvidenceStep == TypeInv /\ Evidence /\ [Next]_vars => Evidence'
<1> SUFFICES ASSUME TypeInv, Evidence, [Next]_vars PROVE Evidence'
  OBVIOUS
<1>1. CASE QeVendorGate
  BY <1>1, Ranks, GateOrder, PlainGateEvidence
     DEF QeVendorGate, Holds, CheckThat, Ok
<1>2. CASE MrenclaveGate
  BY <1>2, Ranks, GateOrder, PlainGateEvidence
     DEF MrenclaveGate, Holds, CheckThat, Ok
<1>3. CASE FormatsGate
  BY <1>3, Ranks, GateOrder, PlainGateEvidence
     DEF FormatsGate, Holds
<1>4. CASE CrlIssuerGate
  BY <1>4, Ranks, GateOrder, PlainGateEvidence
     DEF CrlIssuerGate, Holds, CheckThat, Ok
<1>5. CASE NoneRevokedGate
  <2>1. pc = "none_revoked"
    BY <1>5 DEF NoneRevokedGate, PlainGate, Gate
  <2>2. revoked = RevokedEntries(request.collateral.rootCaCrl)
                    \cup RevokedEntries(request.collateral.pckCrl)
    BY <2>1, GateNames, Ranks DEF Evidence, Collected
  <2> QED
    BY <1>5, <2>2, Ranks, GateOrder, PlainGateEvidence DEF NoneRevokedGate, Holds
<1>6. CASE TcbSignatureGate
  BY <1>6, Ranks, GateOrder, PlainGateEvidence
     DEF TcbSignatureGate, Holds
<1>7. CASE TcbIdGate
  BY <1>7, Ranks, GateOrder, PlainGateEvidence
     DEF TcbIdGate, Holds, CheckThat, Ok
<1>8. CASE TcbWindowGate
  BY <1>8, Ranks, GateOrder, PlainGateEvidence
     DEF TcbWindowGate, Holds
<1>9. CASE TcbRoundGate
  BY <1>9, Ranks, GateOrder, PlainGateEvidence
     DEF TcbRoundGate, Holds
<1>10. CASE QeSignatureGate
  BY <1>10, Ranks, GateOrder, PlainGateEvidence
     DEF QeSignatureGate, Holds
<1>11. CASE QeWindowGate
  BY <1>11, Ranks, GateOrder, PlainGateEvidence
     DEF QeWindowGate, Holds
<1>12. CASE QeRoundGate
  BY <1>12, Ranks, GateOrder, PlainGateEvidence
     DEF QeRoundGate, Holds
<1>13. CASE QeIdentityGate
  BY <1>13, Ranks, GateOrder, PlainGateEvidence
     DEF QeIdentityGate, Holds
<1>14. CASE QeReportSignatureGate
  BY <1>14, Ranks, GateOrder, PlainGateEvidence
     DEF QeReportSignatureGate, Holds
<1>15. CASE QeBindingGate
  BY <1>15, Ranks, GateOrder, PlainGateEvidence
     DEF QeBindingGate, Holds
<1>16. CASE QuoteSignatureGate
  BY <1>16, Ranks, GateOrder, PlainGateEvidence
     DEF QuoteSignatureGate, Holds
<1>17. CASE DebugGate
  BY <1>17, Ranks, GateOrder, PlainGateEvidence
     DEF DebugGate, Holds, CheckThat, Ok
<1>18. CASE PlatformTcbGate
  BY <1>18, Ranks, GateOrder, PlainGateEvidence
     DEF PlatformTcbGate, Holds
<1>19. CASE FromPemGate
  BY <1>19, GateNames, Ranks, CollectedSteps, ChainGateEvidence DEF FromPemGate, Holds, HoldsAt
<1>20. CASE ParseGate
  BY <1>20, GateNames, Ranks, CollectedSteps, ChainGateEvidence DEF ParseGate, Holds, HoldsAt
<1>21. CASE ValidateGate
  BY <1>21, GateNames, Ranks, CollectedSteps, ChainGateEvidence DEF ValidateGate, Holds, HoldsAt
<1>22. CASE SigningLeafGate
  BY <1>22, GateNames, Ranks, CollectedSteps, ChainGateEvidence DEF SigningLeafGate, Holds, HoldsAt
<1>23. CASE RootCrlGate
  BY <1>23, GateNames, Ranks, CollectedSteps, CrlGateEvidence DEF RootCrlGate, Holds
<1>24. CASE PckCrlGate
  BY <1>24, GateNames, Ranks, CollectedSteps, CrlGateEvidence DEF PckCrlGate, Holds
<1>25. CASE PlatformStandingGate
  BY <1>25, StandingGateEvidence
<1>26. CASE PolicyGate
  BY <1>26, EvidenceReturned DEF PolicyGate
<1>27. CASE Call
  BY <1>27, GateNames, Ranks, CollectedSteps DEF Call, CallWith, Evidence
<1>28. CASE Return
  BY <1>28, GateNames DEF Return, Evidence
<1>29. CASE UNCHANGED vars
  BY <1>29 DEF vars, Evidence
<1> QED
  BY <1>1, <1>2, <1>3, <1>4, <1>5, <1>6, <1>7, <1>8, <1>9, <1>10, <1>11, <1>12,
     <1>13, <1>14, <1>15, <1>16, <1>17, <1>18, <1>19, <1>20, <1>21, <1>22,
     <1>23, <1>24, <1>25, <1>26, <1>27, <1>28, <1>29 DEF Next, Step

-----------------------------------------------------------------------------
(* What the gates passed mean for the caller, stage by stage. *)

(* After chain parsing the call is legible. *)
LEMMA LegibleWhen ==
  ASSUME NEW r \in Request, \A n \in 1..5 : Holds(r, n)
  PROVE  Promise!Legible(r) /\ \A i \in 1..4 : Promise!Readable(ChainAt(r, i))
<1>1. Holds(r, 1) /\ Holds(r, 2) /\ Holds(r, 3) /\ Holds(r, 4) /\ Holds(r, 5)
  OBVIOUS
<1>2. Promise!Measured(r) /\ Promise!FormatsKnown(r.collateral)
  BY <1>1, FormatsIff DEF Holds, Promise!Measured
<1>3. \A i \in 1..4 : HoldsAt(r, 4, i) /\ HoldsAt(r, 5, i)
  BY <1>1 DEF Holds
<1>4. \A i \in 1..4 : Promise!Readable(ChainAt(r, i))
  BY <1>3, RequestParts, ReadableIff DEF HoldsAt
<1> QED
  BY <1>2, <1>4, ChainsAre DEF Promise!Legible

(* After chain validation every chain leads up to the pinned root. *)
LEMMA TrustedWhen ==
  ASSUME NEW r \in Request, \A n \in 1..6 : Holds(r, n)
  PROVE  Promise!AllTrusted(r)
<1>1. Promise!Legible(r) /\ \A i \in 1..4 : Promise!Readable(ChainAt(r, i))
  BY LegibleWhen
<1>2. \A i \in 1..4 : Validate(ChainAt(r, i).ders, Now(r)) = Ok
  <2>1. Holds(r, 6)
    OBVIOUS
  <2>2. \A i \in 1..4 : HoldsAt(r, 6, i)
    BY <2>1 DEF Holds
  <2> QED
    BY <2>2 DEF HoldsAt
<1>3. \A i \in 1..4 : Promise!Trusted(ChainAt(r, i), Now(r))
  BY <1>1, <1>2, RequestParts, NowType, ValidateIff
<1> QED
  BY <1>1, <1>3, ChainsAre, NowType DEF Promise!AllTrusted

(* After the leaf checks both documents have Intel's signer. *)
LEMMA SignersPinnedWhen ==
  ASSUME NEW r \in Request, Holds(r, 7)
  PROVE  Promise!SignersPinned(r)
<1>1. HoldsAt(r, 7, 1) /\ HoldsAt(r, 7, 2)
  BY DEF Holds
<1>2. RequireTcbSigningLeaf(TcbCerts(r)) = Ok /\ RequireTcbSigningLeaf(QeCerts(r)) = Ok
  BY <1>1 DEF HoldsAt
<1> QED
  BY <1>2, SigningLeafPinned DEF TcbCerts, QeCerts, Promise!SignersPinned

(* After the revocation check all certificates can be relied on. *)
LEMMA PkiSoundWhen ==
  ASSUME NEW r \in Request, \A n \in 1..11 : Holds(r, n)
  PROVE  Promise!PkiSound(r)
<1>1. Promise!AllTrusted(r) /\ Promise!SignersPinned(r)
  BY TrustedWhen, SignersPinnedWhen
<1>2. Holds(r, 8) /\ Holds(r, 9) /\ Holds(r, 10) /\ Holds(r, 11)
  OBVIOUS
<1>3. Promise!PckCa(r).subject = Promise!PckLeaf(r).issuer
  BY <1>2 DEF Holds, Leaf, CrlCerts, PckCerts, Promise!PckCa, Promise!PckLeaf, Promise!LeafOf
<1>4. /\ Promise!CrlOf(r.collateral.rootCaCrl, Promise!RootOf(r.quote.certData).subject, RootKey)
      /\ Promise!CrlCurrent(r.collateral.rootCaCrl, Now(r))
  <2>1. CheckCrl(r.collateral.rootCaCrl, Root(PckCerts(r)).subject, RootKey, Now(r)) = Ok
    BY <1>2 DEF Holds
  <2>2. Root(PckCerts(r)) = Promise!RootOf(r.quote.certData)
    BY DEF Root, PckCerts, Promise!RootOf
  <2> QED
    BY <2>1, <2>2, RequestParts, NowType, CheckCrlIff
<1>5. CheckPckCrl(r) = Ok
  BY <1>2 DEF Holds
<1>6. Promise!NoneListed(r)
  <2>1. \A i \in 1..4 : Promise!Readable(ChainAt(r, i))
    BY LegibleWhen
  <2> QED
    BY <1>2, <2>1, NoneRevokedIff DEF Holds
<1>7. Promise!RightCrls(r) /\ Promise!CrlsCurrent(r)
  BY <1>3, <1>4, <1>5, PckCrlIff, NowType DEF Promise!RightCrls, Promise!CrlsCurrent
<1> QED
  BY <1>1, <1>5, <1>6, <1>7, PckCrlIff DEF Promise!PkiSound, Promise!NoneRevoked

(* After the document gates both documents are genuine and fresh. *)
LEMMA DocumentsWhen ==
  ASSUME NEW r \in Request, Promise!PkiSound(r), \A n \in 12..18 : Holds(r, n)
  PROVE  /\ Promise!TcbInfoGenuine(r) /\ r.collateral.tcbInfo.id = "SGX"
         /\ Promise!Fresh(r.collateral.tcbInfo, r)
         /\ Promise!QeIdentityGenuine(r) /\ Promise!Fresh(r.collateral.qeIdentity, r)
<1>0. \A n \in {12, 13, 14, 15, 16, 17, 18} : Holds(r, n)
  OBVIOUS
<1>1. /\ r.collateral.tcbInfo.issueDate \in Int /\ r.collateral.tcbInfo.nextUpdate \in Int
      /\ r.collateral.tcbInfo.tcbEvaluationDataNumber \in Nat
  <2>1. r.collateral.tcbInfo \in TcbInfo
    BY RequestParts
  <2> QED
    BY <2>1 DEF TcbInfo
<1>2. /\ r.collateral.qeIdentity.issueDate \in Int /\ r.collateral.qeIdentity.nextUpdate \in Int
      /\ r.collateral.qeIdentity.tcbEvaluationDataNumber \in Nat
  <2>1. r.collateral.qeIdentity \in QeIdentity
    BY RequestParts
  <2> QED
    BY <2>1 DEF QeIdentity
<1>3. Promise!TcbInfoGenuine(r) /\ Promise!QeIdentityGenuine(r)
  BY <1>0, DocumentSignatureIff
     DEF Holds, TcbCerts, QeCerts, ErrorCategory, Promise!TcbInfoGenuine, Promise!QeIdentityGenuine
<1>4. /\ CheckValidityWindow(r.collateral.tcbInfo, Now(r), "TcbInfoStale") = Ok
      /\ CheckEvaluationRound(r.collateral.tcbInfo, Floor(r), "TcbInfoStale") = Ok
      /\ CheckValidityWindow(r.collateral.qeIdentity, Now(r), "QeIdentityStale") = Ok
      /\ CheckEvaluationRound(r.collateral.qeIdentity, Floor(r), "QeIdentityStale") = Ok
      /\ r.collateral.tcbInfo.id = "SGX"
  BY <1>0 DEF Holds
<1>5. "TcbInfoStale" \in ErrorCategory /\ "QeIdentityStale" \in ErrorCategory
  BY DEF ErrorCategory
<1>6. Promise!Fresh(r.collateral.tcbInfo, r)
  BY <1>1, <1>4, <1>5, FreshIff
<1>7. Promise!Fresh(r.collateral.qeIdentity, r)
  BY <1>2, <1>4, <1>5, FreshIff
<1> QED
  BY <1>3, <1>4, <1>6, <1>7

(* After the signature gates the quote is genuine. *)
LEMMA QuoteWhen ==
  ASSUME NEW r \in Request, Promise!PkiSound(r), \A n \in 20..22 : Holds(r, n)
  PROVE  Promise!QuoteGenuine(r)
<1>1. QeReportSignature(r) = Ok /\ QeBinding(r.quote) = Ok /\ QuoteSignature(r.quote) = Ok
  <2>1. Holds(r, 20) /\ Holds(r, 21) /\ Holds(r, 22)
    OBVIOUS
  <2> QED
    BY <2>1 DEF Holds
<1> QED
  BY <1>1, QeReportSignatureIff, QeBindingIff, QuoteSignatureIff
     DEF Promise!QuoteGenuine, Promise!AttestationKeyBound, Promise!QeReportGenuine

(* All gates but the last passed: the call is acceptable, if the platform  *)
(* fields of the TCB info can be decoded.                                  *)
LEMMA AcceptableWhen ==
  ASSUME NEW r \in Request, \A n \in 1..24 : Holds(r, n),
         r.collateral.tcbInfo.fmspc # BadHex, r.collateral.tcbInfo.pceId # BadHex
  PROVE  Promise!Acceptable(r)
<1>1. Promise!PkiSound(r)
  BY PkiSoundWhen
<1>2. /\ Promise!TcbInfoGenuine(r) /\ r.collateral.tcbInfo.id = "SGX"
      /\ Promise!Fresh(r.collateral.tcbInfo, r)
      /\ Promise!QeIdentityGenuine(r) /\ Promise!Fresh(r.collateral.qeIdentity, r)
  BY <1>1, DocumentsWhen
<1>3. Promise!QuoteGenuine(r)
  BY <1>1, QuoteWhen
<1>4. Holds(r, 19) /\ Holds(r, 23) /\ Holds(r, 24)
  OBVIOUS
<1>5. /\ CheckQeIdentity(r.collateral.qeIdentity, r.quote.qeReport) = Ok
      /\ ~IsDebug(r.quote.reportBody) /\ ExtensionError(Leaf(PckCerts(r))) = Ok
  BY <1>4 DEF Holds
<1>6. r.collateral.qeIdentity \in QeIdentity /\ r.quote.qeReport \in ReportBody
  BY RequestParts
<1>7. Promise!QeRecognised(r.collateral.qeIdentity, r.quote.qeReport)
  BY <1>5, <1>6, CheckQeIdentityIff
<1>8. Promise!HexReadable(r.collateral)
  BY <1>5, <1>6, CheckQeIdentityIff DEF Promise!HexReadable
<1>9. ~Promise!IsDebug(r.quote.reportBody) /\ Promise!ExtensionReadable(r)
  BY <1>5, ExtensionIff DEF IsDebug, Promise!IsDebug, DebugFlag, Promise!DebugFlag
<1> QED
  BY <1>2, <1>3, <1>7, <1>8, <1>9 DEF Promise!Acceptable

(* With all gates passed the call is acceptable, for the standing that was *)
(* selected.                                                               *)
LEMMA AcceptanceWhen ==
  ASSUME NEW r \in Request, \A n \in 1..24 : Holds(r, n),
         StandingError(r.collateral.tcbInfo, PlatformOf(r)) = Ok
  PROVE  /\ Promise!Acceptable(r)
         /\ Promise!HasStanding(r, PlatformStanding(r.collateral.tcbInfo, PlatformOf(r)))
<1>1. Promise!Readable(r.quote.certData) /\ r.quote.certData \in PemChain
  <2>1. Promise!Readable(ChainAt(r, 4)) /\ ChainAt(r, 4) \in PemChain
    BY LegibleWhen, RequestParts
  <2>2. ChainAt(r, 4) = r.quote.certData
    BY DEF ChainAt, ChainsOf
  <2> QED
    BY <2>1, <2>2
<1>2. Leaf(PckCerts(r)) \in Cert
  <2>1. /\ Len(r.quote.certData.ders) \in Nat \ {0}
        /\ \A i \in 1..Len(r.quote.certData.ders) : r.quote.certData.ders[i] \in Cert
    BY <1>1, ReadableCerts
  <2> QED
    BY <2>1 DEF Leaf, PckCerts
<1>3. ExtensionError(Leaf(PckCerts(r))) = Ok
  <2>1. Holds(r, 24)
    OBVIOUS
  <2> QED
    BY <2>1 DEF Holds
<1>4. Promise!ExtensionReadable(r)
  BY <1>3, ExtensionIff
<1>5. /\ Promise!HasStanding(r, PlatformStanding(r.collateral.tcbInfo, PlatformOf(r)))
      /\ r.collateral.tcbInfo.fmspc # BadHex /\ r.collateral.tcbInfo.pceId # BadHex
  BY <1>2, <1>4, PlatformStandingIs DEF PlatformOf
<1> QED
  BY <1>2, <1>4, <1>5, AcceptableWhen

(* The last gate of verify_remote_attestation accepts what all the gates   *)
(* before it have established.                                             *)
LEMMA StandingGateAcceptance ==
  ASSUME TypeInv, Evidence, PlatformStandingGate
  PROVE  AcceptanceSound'
<1>1. /\ pc = "platform_standing" /\ request' = request
      /\ \/ /\ StandingError(request.collateral.tcbInfo, PlatformOf(request)) = Ok
            /\ request.policy = {}
            /\ verdict' =
                 Accepted(PlatformStanding(request.collateral.tcbInfo, PlatformOf(request)),
                          request.quote.reportBody)
         \/ verdict' = verdict
         \/ \E c : verdict' = Rejected(c)
  BY DEF PlatformStandingGate, PlatformOf
<1>2. request \in Request /\ verdict.kind # "accepted"
  BY <1>1, RequestThere, PendingType DEF TypeInv, TypeOK
<1>3. \A n \in 1..24 : Holds(request, n)
  BY <1>1, GateNames, Ranks DEF Evidence
<1>4. CASE verdict'.kind # "accepted"
  BY <1>4 DEF AcceptanceSound
<1>5. CASE verdict'.kind = "accepted"
  <2>1. /\ StandingError(request.collateral.tcbInfo, PlatformOf(request)) = Ok
        /\ request'.policy = {}
        /\ verdict'.standing = PlatformStanding(request.collateral.tcbInfo, PlatformOf(request))
        /\ verdict'.reportBody = request.quote.reportBody
    BY <1>1, <1>2, <1>5 DEF Accepted, Rejected
  <2>2. /\ Promise!Acceptable(request)
        /\ Promise!HasStanding(request, verdict'.standing)
    BY <1>2, <1>3, <2>1, AcceptanceWhen
  <2> QED
    BY <1>1, <2>1, <2>2 DEF AcceptanceSound
<1> QED
  BY <1>4, <1>5

(* With a policy the standing found is accepted only if it is permitted.   *)
LEMMA PolicyGateAcceptance ==
  ASSUME TypeInv, Evidence, PolicyGate
  PROVE  AcceptanceSound'
<1> DEFINE policy == CHOOSE p \in request.policy : TRUE
<1>1. /\ pc = "policy" /\ request' = request
      /\ verdict' = IF PolicyCheck(policy, standing) = Ok
                    THEN Accepted(standing, request.quote.reportBody)
                    ELSE Rejected(PolicyCheck(policy, standing))
  BY DEF PolicyGate
<1>2. request \in Request /\ standing \in TcbStanding
  BY <1>1, RequestThere DEF TypeInv
<1>3. \A n \in 1..24 : Holds(request, n)
  BY <1>1, GateNames, Ranks DEF Evidence
<1>4. /\ StandingError(request.collateral.tcbInfo, PlatformOf(request)) = Ok
      /\ standing = PlatformStanding(request.collateral.tcbInfo, PlatformOf(request))
  BY <1>1, GateNames DEF Evidence
<1>5. \A p \in request.policy : p = policy
  BY <1>2 DEF Request
<1> HIDE DEF policy
<1>6. CASE verdict'.kind # "accepted"
  BY <1>6 DEF AcceptanceSound
<1>7. CASE verdict'.kind = "accepted"
  <2>1. /\ PolicyCheck(policy, standing) = Ok
        /\ verdict'.standing = standing /\ verdict'.reportBody = request.quote.reportBody
    BY <1>1, <1>7 DEF Accepted, Rejected
  <2>2. Promise!Acceptable(request) /\ Promise!HasStanding(request, standing)
    BY <1>2, <1>3, <1>4, AcceptanceWhen
  <2>3. \A p \in request.policy : Promise!Permits(p, standing)
    BY <1>2, <1>5, <2>1, PolicyCheckIff
  <2> QED
    BY <1>1, <2>1, <2>2, <2>3 DEF AcceptanceSound
<1> QED
  BY <1>6, <1>7

(* The gates before the last one only reject. *)
LEMMA GateAcceptance ==
  ASSUME TypeInv, NEW gate \in Gates, NEW result, NEW next, Gate(gate, result, next)
  PROVE  AcceptanceSound'
<1>1. verdict.kind # "accepted"
  BY PendingType DEF Gate, TypeInv, TypeOK, Gates
<1>2. verdict'.kind # "accepted"
  BY <1>1 DEF Gate, Rejected
<1> QED
  BY <1>2 DEF AcceptanceSound

(* No step accepts a report that the evidence does not back. *)
LEMMA AcceptanceStep == TypeInv /\ Evidence /\ AcceptanceSound /\ [Next]_vars => AcceptanceSound'
<1> SUFFICES ASSUME TypeInv, Evidence, AcceptanceSound, [Next]_vars PROVE AcceptanceSound'
  OBVIOUS
<1>1. CASE PlatformStandingGate
  BY <1>1, StandingGateAcceptance
<1>2. CASE PolicyGate
  BY <1>2, PolicyGateAcceptance
<1>3. CASE Step /\ ~PlatformStandingGate /\ ~PolicyGate
  <2>1. \E gate \in Gates : \E result, next : Gate(gate, result, next)
    BY <1>3, GateNames
       DEF Step, QeVendorGate, MrenclaveGate, FormatsGate, FromPemGate, ParseGate,
           ValidateGate, SigningLeafGate, CrlIssuerGate, RootCrlGate, PckCrlGate,
           NoneRevokedGate, TcbSignatureGate, TcbIdGate, TcbWindowGate, TcbRoundGate,
           QeSignatureGate, QeWindowGate, QeRoundGate, QeIdentityGate,
           QeReportSignatureGate, QeBindingGate, QuoteSignatureGate, DebugGate,
           PlatformTcbGate, PlainGate, ChainGate, CrlGate
  <2> QED
    BY <2>1, GateAcceptance
<1>4. CASE Call
  <2>1. verdict'.kind # "accepted"
    BY <1>4, PendingType DEF Call, CallWith, TypeInv, TypeOK
  <2> QED
    BY <2>1 DEF AcceptanceSound
<1>5. CASE Return
  <2>1. verdict'.kind # "accepted"
    BY <1>5, PendingType DEF Return
  <2> QED
    BY <2>1 DEF AcceptanceSound
<1>6. CASE UNCHANGED vars
  BY <1>6 DEF vars, AcceptanceSound
<1> QED
  BY <1>1, <1>2, <1>3, <1>4, <1>5, <1>6 DEF Next

(* At the start there is neither evidence nor an acceptance. *)
LEMMA AcceptanceInit == Init => Evidence /\ AcceptanceSound
<1> SUFFICES ASSUME Init PROVE Evidence /\ AcceptanceSound
  OBVIOUS
<1>1. Evidence
  BY GateNames DEF Init, Evidence
<1>2. verdict.kind # "accepted"
  BY PendingType DEF Init
<1> QED
  BY <1>1, <1>2 DEF AcceptanceSound

(* No report is accepted, by either entry point, unless every certificate, *)
(* CRL, document and signature it rests on holds at the time of the call   *)
(* and the standing is that of the first level the platform reaches.       *)
THEOREM AcceptanceIsSound == Spec => []AcceptanceSound
<1>1. Init => TypeInv /\ Evidence /\ AcceptanceSound
  BY TypeInit, AcceptanceInit
<1>2. TypeInv /\ Evidence /\ AcceptanceSound /\ [Next]_vars
        => TypeInv' /\ Evidence' /\ AcceptanceSound'
  BY TypeStep, EvidenceStep, AcceptanceStep
<1> QED
  BY <1>1, <1>2, PTL DEF Spec

-----------------------------------------------------------------------------
(* The other half of the promise: a rejection is for a fault of the call.  *)

FaultIsReal(result, r) ==
  result # Ok => result \in ErrorCategory /\ Promise!Justified(result, r)

(* A check that fails fails with its category. *)
LEMMA CheckThatFault ==
  ASSUME NEW holds, NEW category \in ErrorCategory, NEW r,
         ~holds => Promise!Justified(category, r)
  PROVE  FaultIsReal(CheckThat(holds, category), r)
  BY DEF CheckThat, FaultIsReal

(* The call is not for this enclave, or its documents are of no known      *)
(* format.                                                                 *)
LEMMA DoorFaults ==
  ASSUME NEW r \in Request
  PROVE  /\ FaultIsReal(CheckThat(r.quote.qeVendorId = IntelQeVendorId, "QeVendorInvalid"), r)
         /\ Holds(r, 1) =>
              FaultIsReal(CheckThat(r.quote.reportBody.mrenclave = r.expectedMrenclave,
                                    "MrenclaveMismatch"), r)
         /\ Holds(r, 1) /\ Holds(r, 2) => FaultIsReal(CheckDocumentFormats(r.collateral), r)
<1>1. /\ {"QeVendorInvalid", "MrenclaveMismatch", "CollateralParse"} \subseteq ErrorCategory
  BY DEF ErrorCategory
<1>2. r.quote.qeVendorId # IntelQeVendorId => Promise!Justified("QeVendorInvalid", r)
  BY DEF Promise!Justified
<1>3. ASSUME Holds(r, 1), r.quote.reportBody.mrenclave # r.expectedMrenclave
      PROVE  Promise!Justified("MrenclaveMismatch", r)
  BY <1>3 DEF Promise!Justified, Holds
<1>4. ASSUME Holds(r, 1), Holds(r, 2), ~Promise!FormatsKnown(r.collateral)
      PROVE  Promise!Justified("CollateralParse", r)
  BY <1>4 DEF Promise!Justified, Promise!Measured, Holds
<1>5. CheckDocumentFormats(r.collateral) =
        CheckThat(Promise!FormatsKnown(r.collateral), "CollateralParse")
  BY DEF CheckDocumentFormats, Promise!FormatsKnown
<1> QED
  BY <1>1, <1>2, <1>3, <1>4, <1>5, CheckThatFault

(* The enclave is the expected one once the first gates are passed. *)
LEMMA MeasuredWhen ==
  ASSUME NEW r, \A n \in 1..3 : Holds(r, n)
  PROVE  Promise!Measured(r) /\ Promise!FormatsKnown(r.collateral)
<1>1. Holds(r, 1) /\ Holds(r, 2) /\ Holds(r, 3)
  OBVIOUS
<1> QED
  BY <1>1, FormatsIff DEF Holds, Promise!Measured

(* A chain that is turned away as unreadable is not readable. *)
LEMMA ReadingFault ==
  ASSUME NEW r \in Request, \A n \in 1..3 : Holds(r, n), NEW i \in 1..4
  PROVE  /\ FaultIsReal(FromPem(ChainKind[i], ChainAt(r, i)), r)
         /\ FaultIsReal(ParseChain(ChainKind[i], ChainAt(r, i)), r)
<1> DEFINE kind == ChainKind[i]
           chain == ChainAt(r, i)
<1>1. Promise!Measured(r) /\ Promise!FormatsKnown(r.collateral)
  BY MeasuredWhen
<1>2. /\ chain \in PemChain
      /\ FromPem(kind, chain) \in {Ok, ParseError(kind)}
      /\ ParseChain(kind, chain) \in {Ok, ParseError(kind)}
  BY RequestParts DEF FromPem, ParseChain
<1>3. ParseError(kind) = IF i = 4 THEN "QuoteParse" ELSE "CollateralParse"
  BY DEF ParseError, ChainKind
<1>4. i # 4 => chain \in Promise!CollateralChains(r)
  BY DEF ChainAt, ChainsOf, Promise!CollateralChains
<1>5. i = 4 => chain = r.quote.certData
  BY DEF ChainAt, ChainsOf
<1> HIDE DEF kind, chain
<1>6. ASSUME ~Promise!Readable(chain)
      PROVE  ParseError(kind) \in ErrorCategory /\ Promise!Justified(ParseError(kind), r)
  <2>1. CASE i = 4
    BY <1>1, <1>3, <1>5, <1>6, <2>1 DEF Promise!Justified, ErrorCategory
  <2>2. CASE i # 4
    BY <1>1, <1>3, <1>4, <1>6, <2>2 DEF Promise!Justified, ErrorCategory
  <2> QED
    BY <2>1, <2>2
<1>7. Promise!Readable(chain) => FromPem(kind, chain) = Ok /\ ParseChain(kind, chain) = Ok
  BY <1>2, ReadableIff
<1> QED
  BY <1>2, <1>6, <1>7 DEF FaultIsReal, kind, chain

(* A chain is rejected for its time only if a certificate of it is out of  *)
(* its window.                                                             *)
LEMMA ValidateFault ==
  ASSUME NEW r \in Request, \A n \in 1..5 : Holds(r, n), NEW i \in 1..4
  PROVE  FaultIsReal(Validate(ChainAt(r, i).ders, Now(r)), r)
<1> DEFINE chain == ChainAt(r, i)
           result == Validate(chain.ders, Now(r))
<1> SUFFICES FaultIsReal(result, r)
  OBVIOUS
<1>1. Promise!Legible(r) /\ Promise!Readable(chain) /\ chain \in PemChain
  BY LegibleWhen, RequestParts
<1>2. chain \in Promise!Chains(r)
  BY ChainsAre
<1>3. Now(r) \in Int /\ Now(r) = Promise!NowOf(r)
  BY NowType
<1>4. result # Ok => ~Promise!AllTrusted(r)
  BY <1>1, <1>2, <1>3, ValidateIff DEF Promise!AllTrusted
<1>5. result \in {Ok, "RootCaUntrusted", "CertOrCrlTimeInvalid"}
  BY DEF Validate
<1>6. ASSUME result = "CertOrCrlTimeInvalid"
      PROVE  \E j \in DOMAIN chain.ders : ~Promise!Current(chain.ders[j], Promise!NowOf(r))
  <2>1. /\ \E j \in DOMAIN chain.ders :
             ~(InValidity(chain.ders[j], Now(r)) /\ P256Sha256(chain.ders[j]))
        /\ ~InValidity(chain.ders[FirstBadCert(chain.ders, Now(r))], Now(r))
    BY <1>6 DEF Validate, Ok
  <2> HIDE DEF chain
  <2>2. PICK j \in DOMAIN chain.ders : ~InValidity(chain.ders[j], Now(r))
    BY <1>1, <1>3, <2>1, FirstBadCertExists
  <2>3. chain.ders[j] \in Cert
    BY <1>1, ReadableCerts
  <2> QED
    BY <1>3, <2>2, <2>3, CertChecks
<1> HIDE DEF result, chain
<1>7. CASE result = "RootCaUntrusted"
  BY <1>1, <1>4, <1>7 DEF FaultIsReal, Promise!Justified, ErrorCategory, Ok
<1>8. CASE result = "CertOrCrlTimeInvalid"
  BY <1>1, <1>2, <1>6, <1>8 DEF FaultIsReal, Promise!Justified, ErrorCategory
<1>9. CASE result = Ok
  BY <1>9 DEF FaultIsReal
<1> QED
  BY <1>5, <1>7, <1>8, <1>9

(* A document's chain ends in another signer, or in one without a name. *)
LEMMA SigningLeafFault ==
  ASSUME NEW r \in Request, \A n \in 1..6 : Holds(r, n)
  PROVE  /\ FaultIsReal(RequireTcbSigningLeaf(TcbCerts(r)), r)
         /\ FaultIsReal(RequireTcbSigningLeaf(QeCerts(r)), r)
<1>1. Promise!Legible(r) /\ Promise!Measured(r)
  BY TrustedWhen DEF Promise!AllTrusted, Promise!Legible
<1>2. ASSUME NEW chain \in {r.collateral.tcbInfoIssuerChain, r.collateral.qeIdentityIssuerChain}
      PROVE  FaultIsReal(RequireTcbSigningLeaf(chain.ders), r)
  <2>1. CASE CommonName[Promise!LeafOf(chain).subject] = NoCn
    <3>1. RequireTcbSigningLeaf(chain.ders) = "CollateralParse"
      BY <2>1 DEF RequireTcbSigningLeaf, Leaf, Promise!LeafOf
    <3> QED
      BY <1>1, <1>2, <2>1, <3>1 DEF FaultIsReal, Promise!Justified, ErrorCategory
  <2>2. CASE CommonName[Promise!LeafOf(chain).subject] # NoCn
    <3>1. RequireTcbSigningLeaf(chain.ders) =
            CheckThat(Promise!SignsTcb(chain), "RootCaUntrusted")
      BY <2>2 DEF RequireTcbSigningLeaf, Leaf, Promise!LeafOf, Promise!SignsTcb
    <3>2. ~Promise!SignsTcb(chain) => Promise!Justified("RootCaUntrusted", r)
      BY <1>1, <1>2 DEF Promise!Justified, Promise!SignersPinned
    <3> QED
      BY <3>1, <3>2, CheckThatFault DEF ErrorCategory
  <2> QED
    BY <2>1, <2>2
<1> QED
  BY <1>2 DEF TcbCerts, QeCerts

(* A CRL that is turned away is not that of its issuer, or out of its      *)
(* window.                                                                 *)
LEMMA CrlFault ==
  ASSUME NEW crl \in Crl, NEW authority, NEW key, NEW now \in Int
  PROVE  /\ CheckCrl(crl, authority, key, now) \in {Ok, "CrlInvalid", "CertOrCrlTimeInvalid"}
         /\ CheckCrl(crl, authority, key, now) = "CrlInvalid" =>
              ~Promise!CrlOf(crl, authority, key)
         /\ CheckCrl(crl, authority, key, now) = "CertOrCrlTimeInvalid" =>
              ~Promise!CrlCurrent(crl, now)
<1>1. crl.thisUpdate \in Int /\ \A t \in crl.nextUpdate : t \in Int
  BY DEF Crl
<1> QED
  BY <1>1 DEF CheckCrl, Verifies, Ok, Promise!CrlOf, Promise!CrlCurrent

(* A key that is no point on the curve ends the call for want of trust. *)
LEMMA UnusableKeyFault ==
  ASSUME NEW r, Promise!Legible(r), NEW chain \in Promise!Chains(r),
         Promise!LeafOf(chain).key \in UnusableKey
  PROVE  FaultIsReal("RootCaUntrusted", r)
  BY DEF FaultIsReal, Promise!Justified, ErrorCategory

(* The CRLs, and what they list. *)
LEMMA RevocationFaults ==
  ASSUME NEW r \in Request, \A n \in 1..7 : Holds(r, n)
  PROVE  /\ FaultIsReal(CheckThat(Leaf(CrlCerts(r)).subject = Leaf(PckCerts(r)).issuer,
                                  "CrlInvalid"), r)
         /\ FaultIsReal(CheckCrl(r.collateral.rootCaCrl, Root(PckCerts(r)).subject,
                                 RootKey, Now(r)), r)
         /\ FaultIsReal(CheckPckCrl(r), r)
         /\ FaultIsReal(EnsureNoneRevoked(ChainsOf(r),
                          RevokedEntries(r.collateral.rootCaCrl)
                            \cup RevokedEntries(r.collateral.pckCrl)), r)
<1>1. /\ Promise!AllTrusted(r) /\ Promise!SignersPinned(r) /\ Promise!Legible(r)
      /\ \A i \in 1..4 : Promise!Readable(ChainAt(r, i))
  BY TrustedWhen, SignersPinnedWhen, LegibleWhen
<1>2. /\ Now(r) \in Int /\ Now(r) = Promise!NowOf(r)
      /\ r.collateral.rootCaCrl \in Crl /\ r.collateral.pckCrl \in Crl
  BY NowType, RequestParts
<1>3. /\ Leaf(CrlCerts(r)) = Promise!PckCa(r) /\ Leaf(PckCerts(r)) = Promise!PckLeaf(r)
      /\ Root(PckCerts(r)) = Promise!RootOf(r.quote.certData)
  BY DEF Leaf, Root, CrlCerts, PckCerts, Promise!PckCa, Promise!PckLeaf, Promise!LeafOf,
         Promise!RootOf
<1>4. {"CrlInvalid", "CertOrCrlTimeInvalid", "RootCaUntrusted"} \subseteq ErrorCategory
  BY DEF ErrorCategory
<1>5. ~(Promise!RightCrls(r) /\ Promise!NoneListed(r)) => Promise!Justified("CrlInvalid", r)
  BY <1>1 DEF Promise!Justified
<1>6. ~Promise!CrlsCurrent(r) => Promise!Justified("CertOrCrlTimeInvalid", r)
  BY <1>1 DEF Promise!Justified
<1>7. FaultIsReal(CheckThat(Leaf(CrlCerts(r)).subject = Leaf(PckCerts(r)).issuer,
                            "CrlInvalid"), r)
  BY <1>3, <1>4, <1>5, CheckThatFault DEF Promise!RightCrls
<1>8. FaultIsReal(CheckCrl(r.collateral.rootCaCrl, Root(PckCerts(r)).subject,
                           RootKey, Now(r)), r)
  <2> DEFINE result == CheckCrl(r.collateral.rootCaCrl, Root(PckCerts(r)).subject,
                                RootKey, Now(r))
  <2>1. /\ result \in {Ok, "CrlInvalid", "CertOrCrlTimeInvalid"}
        /\ result = "CrlInvalid" =>
             ~Promise!CrlOf(r.collateral.rootCaCrl, Root(PckCerts(r)).subject, RootKey)
        /\ result = "CertOrCrlTimeInvalid" =>
             ~Promise!CrlCurrent(r.collateral.rootCaCrl, Now(r))
    BY <1>2, CrlFault
  <2>2. /\ result = "CrlInvalid" => ~Promise!RightCrls(r)
        /\ result = "CertOrCrlTimeInvalid" => ~Promise!CrlsCurrent(r)
    BY <1>2, <1>3, <2>1 DEF Promise!RightCrls, Promise!CrlsCurrent
  <2> HIDE DEF result
  <2>3. FaultIsReal(result, r)
    BY <1>4, <1>5, <1>6, <2>1, <2>2 DEF FaultIsReal
  <2> QED
    BY <2>3 DEF result
<1>9. FaultIsReal(CheckPckCrl(r), r)
  <2>1. CASE ~Usable(Leaf(CrlCerts(r)).key)
    <3>1. r.collateral.pckCrlIssuerChain \in Promise!Chains(r)
      BY DEF Promise!Chains, Promise!CollateralChains
    <3>2. CheckPckCrl(r) = "RootCaUntrusted"
      BY <2>1 DEF CheckPckCrl
    <3> QED
      BY <1>1, <1>3, <2>1, <3>1, <3>2, UnusableKeyFault DEF Usable, Promise!PckCa
  <2>2. CASE Usable(Leaf(CrlCerts(r)).key)
    <3> DEFINE result == CheckCrl(r.collateral.pckCrl, Leaf(PckCerts(r)).issuer,
                                  Leaf(CrlCerts(r)).key, Now(r))
    <3>1. /\ result \in {Ok, "CrlInvalid", "CertOrCrlTimeInvalid"}
          /\ result = "CrlInvalid" =>
               ~Promise!CrlOf(r.collateral.pckCrl, Leaf(PckCerts(r)).issuer,
                              Leaf(CrlCerts(r)).key)
          /\ result = "CertOrCrlTimeInvalid" =>
               ~Promise!CrlCurrent(r.collateral.pckCrl, Now(r))
      BY <1>2, CrlFault
    <3>2. /\ result = "CrlInvalid" => ~Promise!RightCrls(r)
          /\ result = "CertOrCrlTimeInvalid" => ~Promise!CrlsCurrent(r)
      BY <1>2, <1>3, <3>1 DEF Promise!RightCrls, Promise!CrlsCurrent
    <3>3. CheckPckCrl(r) = result
      BY <2>2 DEF CheckPckCrl
    <3> HIDE DEF result
    <3> QED
      BY <1>4, <1>5, <1>6, <3>1, <3>2, <3>3 DEF FaultIsReal
  <2> QED
    BY <2>1, <2>2
<1>10. FaultIsReal(EnsureNoneRevoked(ChainsOf(r),
                     RevokedEntries(r.collateral.rootCaCrl)
                       \cup RevokedEntries(r.collateral.pckCrl)), r)
  <2> DEFINE result == EnsureNoneRevoked(ChainsOf(r),
                         RevokedEntries(r.collateral.rootCaCrl)
                           \cup RevokedEntries(r.collateral.pckCrl))
  <2>1. result = Ok <=> Promise!NoneListed(r)
    BY <1>1, NoneRevokedIff
  <2>2. result \in {Ok, "CrlInvalid"}
    BY DEF EnsureNoneRevoked
  <2> HIDE DEF result
  <2>3. FaultIsReal(result, r)
    BY <1>4, <1>5, <2>1, <2>2 DEF FaultIsReal
  <2> QED
    BY <2>3 DEF result
<1> QED
  BY <1>7, <1>8, <1>9, <1>10

(* The documents' signatures. *)
LEMMA DocumentSignatureFaults ==
  ASSUME NEW r \in Request, Promise!PkiSound(r)
  PROVE  /\ FaultIsReal(DocumentSignature(TcbCerts(r), r.collateral.tcbInfo,
                                          "TcbInfoSignatureInvalid"), r)
         /\ FaultIsReal(DocumentSignature(QeCerts(r), r.collateral.qeIdentity,
                                          "QeIdentitySignatureInvalid"), r)
<1>1. Promise!Legible(r)
  BY DEF Promise!PkiSound, Promise!AllTrusted
<1>2. /\ r.collateral.tcbInfoIssuerChain \in Promise!Chains(r)
      /\ r.collateral.qeIdentityIssuerChain \in Promise!Chains(r)
  BY DEF Promise!Chains, Promise!CollateralChains
<1>3. ASSUME NEW chain \in Promise!Chains(r), NEW doc, NEW category \in ErrorCategory,
             ~Promise!SignedByLeaf(doc, chain) => Promise!Justified(category, r)
      PROVE  FaultIsReal(DocumentSignature(chain.ders, doc, category), r)
  <2>1. CASE Usable(Leaf(chain.ders).key)
    <3>1. DocumentSignature(chain.ders, doc, category) =
            CheckThat(Verifies(doc, Leaf(chain.ders).key), category)
      BY <2>1 DEF DocumentSignature
    <3>2. ~Verifies(doc, Leaf(chain.ders).key) => Promise!Justified(category, r)
      BY <1>3 DEF Verifies, Leaf, Promise!SignedByLeaf, Promise!LeafOf
    <3> QED
      BY <3>1, <3>2, CheckThatFault
  <2>2. CASE ~Usable(Leaf(chain.ders).key)
    <3>1. DocumentSignature(chain.ders, doc, category) = "RootCaUntrusted"
      BY <2>2 DEF DocumentSignature
    <3> QED
      BY <1>1, <2>2, <3>1, UnusableKeyFault DEF Usable, Leaf, Promise!LeafOf
  <2> QED
    BY <2>1, <2>2
<1>4. /\ ~Promise!SignedByLeaf(r.collateral.tcbInfo, r.collateral.tcbInfoIssuerChain)
           => Promise!Justified("TcbInfoSignatureInvalid", r)
      /\ ~Promise!SignedByLeaf(r.collateral.qeIdentity, r.collateral.qeIdentityIssuerChain)
           => Promise!Justified("QeIdentitySignatureInvalid", r)
  BY DEF Promise!Justified, Promise!TcbInfoGenuine, Promise!QeIdentityGenuine
<1> QED
  BY <1>2, <1>3, <1>4 DEF TcbCerts, QeCerts, ErrorCategory

(* A document that is turned away as stale is genuine, and is stale. *)
LEMMA StaleFaults ==
  ASSUME NEW r \in Request, NEW doc, doc.issueDate \in Int, doc.nextUpdate \in Int,
         doc.tcbEvaluationDataNumber \in Nat, NEW category \in ErrorCategory,
         ~Promise!Fresh(doc, r) => Promise!Justified(category, r)
  PROVE  /\ FaultIsReal(CheckValidityWindow(doc, Now(r), category), r)
         /\ FaultIsReal(CheckEvaluationRound(doc, Floor(r), category), r)
<1>1. CASE Promise!Fresh(doc, r)
  BY <1>1, FreshIff DEF FaultIsReal
<1>2. CASE ~Promise!Fresh(doc, r)
  BY <1>2 DEF FaultIsReal, CheckValidityWindow, CheckEvaluationRound, CheckThat
<1> QED
  BY <1>1, <1>2

(* The documents' identifiers, windows and rounds. *)
LEMMA DocumentFaults ==
  ASSUME NEW r \in Request, Promise!PkiSound(r)
  PROVE  /\ FaultIsReal(CheckThat(r.collateral.tcbInfo.id = "SGX", "CollateralParse"), r)
         /\ Promise!TcbInfoGenuine(r) =>
              /\ FaultIsReal(CheckValidityWindow(r.collateral.tcbInfo, Now(r),
                                                 "TcbInfoStale"), r)
              /\ FaultIsReal(CheckEvaluationRound(r.collateral.tcbInfo, Floor(r),
                                                  "TcbInfoStale"), r)
         /\ Promise!QeIdentityGenuine(r) =>
              /\ FaultIsReal(CheckValidityWindow(r.collateral.qeIdentity, Now(r),
                                                 "QeIdentityStale"), r)
              /\ FaultIsReal(CheckEvaluationRound(r.collateral.qeIdentity, Floor(r),
                                                  "QeIdentityStale"), r)
<1>1. {"CollateralParse", "TcbInfoStale", "QeIdentityStale"} \subseteq ErrorCategory
  BY DEF ErrorCategory
<1>2. Promise!Measured(r)
  BY DEF Promise!PkiSound, Promise!AllTrusted, Promise!Legible
<1>3. r.collateral.tcbInfo.id # "SGX" => Promise!Justified("CollateralParse", r)
  BY <1>2 DEF Promise!Justified
<1>4. r.collateral.tcbInfo \in TcbInfo /\ r.collateral.qeIdentity \in QeIdentity
  BY RequestParts
<1>5. /\ r.collateral.tcbInfo.issueDate \in Int /\ r.collateral.tcbInfo.nextUpdate \in Int
      /\ r.collateral.tcbInfo.tcbEvaluationDataNumber \in Nat
      /\ r.collateral.qeIdentity.issueDate \in Int /\ r.collateral.qeIdentity.nextUpdate \in Int
      /\ r.collateral.qeIdentity.tcbEvaluationDataNumber \in Nat
  BY <1>4 DEF TcbInfo, QeIdentity
<1>6. ASSUME Promise!TcbInfoGenuine(r)
      PROVE  ~Promise!Fresh(r.collateral.tcbInfo, r) => Promise!Justified("TcbInfoStale", r)
  BY <1>6 DEF Promise!Justified
<1>7. ASSUME Promise!QeIdentityGenuine(r)
      PROVE  ~Promise!Fresh(r.collateral.qeIdentity, r) => Promise!Justified("QeIdentityStale", r)
  BY <1>7 DEF Promise!Justified
<1> QED
  BY <1>1, <1>3, <1>5, <1>6, <1>7, CheckThatFault, StaleFaults

(* A quoting enclave that is turned away is not the one Intel describes,   *)
(* or the description cannot be decoded.                                   *)
LEMMA QeIdentityFault ==
  ASSUME NEW r \in Request, Promise!QeIdentityGenuine(r),
         Promise!Fresh(r.collateral.qeIdentity, r)
  PROVE  FaultIsReal(CheckQeIdentity(r.collateral.qeIdentity, r.quote.qeReport), r)
<1> DEFINE id == r.collateral.qeIdentity
           qe == r.quote.qeReport
           result == CheckQeIdentity(id, qe)
           hex == {id.mrsigner, id.miscselect, id.miscselectMask, id.attributes,
                   id.attributesMask}
<1> SUFFICES FaultIsReal(result, r)
  OBVIOUS
<1>1. id \in QeIdentity /\ qe \in ReportBody
  BY RequestParts
<1>2. result \in {Ok, "CollateralParse", "QeIdentityMismatch"}
  BY DEF CheckQeIdentity
<1>3. result = "CollateralParse" => BadHex \in hex
  BY DEF CheckQeIdentity, Ok
<1>4. ASSUME result = "QeIdentityMismatch"
      PROVE  ~Promise!QeRecognised(id, qe)
  <2>1. CASE BadHex \in hex
    <3>1. \/ id.id # "QE" \/ id.mrsigner # qe.mrsigner \/ id.isvprodid # qe.isvProdId
          \/ ~MaskedEq(qe.miscSelect, id.miscselect, id.miscselectMask)
      BY <1>4, <2>1 DEF CheckQeIdentity, Ok
    <3>2. MaskedEq(qe.miscSelect, id.miscselect, id.miscselectMask)
            <=> Promise!AgreeUnder(qe.miscSelect, id.miscselect, id.miscselectMask)
      BY DEF MaskedEq, Promise!AgreeUnder
    <3> QED
      BY <3>1, <3>2 DEF Promise!QeRecognised
  <2>2. CASE BadHex \notin hex
    BY <1>1, <1>4, <2>2, CheckQeIdentityIff DEF Ok
  <2> QED
    BY <2>1, <2>2
<1>5. Promise!Measured(r)
  BY DEF Promise!QeIdentityGenuine, Promise!PkiSound, Promise!AllTrusted, Promise!Legible
<1>6. BadHex \in hex => Promise!Justified("CollateralParse", r)
  BY <1>5 DEF Promise!Justified, Promise!HexReadable
<1>7. ~Promise!QeRecognised(id, qe) => Promise!Justified("QeIdentityMismatch", r)
  BY DEF Promise!Justified
<1> HIDE DEF result, id, qe, hex
<1>8. {"CollateralParse", "QeIdentityMismatch"} \subseteq ErrorCategory
  BY DEF ErrorCategory
<1> QED
  BY <1>2, <1>3, <1>4, <1>6, <1>7, <1>8 DEF FaultIsReal

(* The signatures from the PCK key to the enclave; a later one is looked   *)
(* at only if the earlier ones held.                                       *)
LEMMA QuoteFaults ==
  ASSUME NEW r \in Request, Promise!PkiSound(r)
  PROVE  /\ FaultIsReal(QeReportSignature(r), r)
         /\ QeReportSignature(r) = Ok => FaultIsReal(QeBinding(r.quote), r)
         /\ QeReportSignature(r) = Ok /\ QeBinding(r.quote) = Ok =>
              FaultIsReal(QuoteSignature(r.quote), r)
<1>1. Promise!Legible(r) /\ r.quote.certData \in Promise!Chains(r)
  BY DEF Promise!PkiSound, Promise!AllTrusted, Promise!Chains
<1>2. Leaf(PckCerts(r)) = Promise!PckLeaf(r)
  BY DEF Leaf, PckCerts, Promise!PckLeaf, Promise!LeafOf
<1>3. {"QeReportSignatureInvalid", "QeBindingInvalid", "QuoteSignatureInvalid"}
        \subseteq ErrorCategory
  BY DEF ErrorCategory
<1>4. FaultIsReal(QeReportSignature(r), r)
  <2>1. CASE Usable(Promise!PckLeaf(r).key)
    <3>1. QeReportSignature(r) =
            CheckThat(r.quote.qeReportSignedBy = Promise!PckLeaf(r).key,
                      "QeReportSignatureInvalid")
      BY <1>2, <2>1 DEF QeReportSignature
    <3>2. r.quote.qeReportSignedBy # Promise!PckLeaf(r).key
            => Promise!Justified("QeReportSignatureInvalid", r)
      BY DEF Promise!Justified, Promise!QeReportGenuine
    <3> QED
      BY <1>3, <3>1, <3>2, CheckThatFault
  <2>2. CASE ~Usable(Promise!PckLeaf(r).key)
    <3>1. QeReportSignature(r) = "RootCaUntrusted"
      BY <1>2, <2>2 DEF QeReportSignature
    <3> QED
      BY <1>1, <2>2, <3>1, UnusableKeyFault DEF Usable, Promise!PckLeaf
  <2> QED
    BY <2>1, <2>2
<1>5. QeReportSignature(r) = Ok => Promise!QeReportGenuine(r)
  BY QeReportSignatureIff DEF Promise!QeReportGenuine
<1>6. ASSUME Promise!QeReportGenuine(r)
      PROVE  FaultIsReal(QeBinding(r.quote), r)
  <2>1. QeBinding(r.quote) \in {Ok, "QeBindingInvalid"}
    BY DEF QeBinding, CheckThat
  <2>2. QeBinding(r.quote) # Ok => Promise!Justified("QeBindingInvalid", r)
    BY <1>6, QeBindingIff DEF Promise!Justified, Promise!AttestationKeyBound
  <2> QED
    BY <1>3, <2>1, <2>2 DEF FaultIsReal
<1>7. ASSUME Promise!QeReportGenuine(r), QeBinding(r.quote) = Ok
      PROVE  FaultIsReal(QuoteSignature(r.quote), r)
  <2>1. QuoteSignature(r.quote) \in {Ok, "QuoteSignatureInvalid"}
    BY DEF QuoteSignature, CheckThat
  <2>2. Promise!AttestationKeyBound(r)
    BY <1>7, QeBindingIff DEF Promise!AttestationKeyBound
  <2>3. QuoteSignature(r.quote) # Ok => Promise!Justified("QuoteSignatureInvalid", r)
    BY <2>2, QuoteSignatureIff DEF Promise!Justified, Promise!QuoteGenuine
  <2> QED
    BY <1>3, <2>1, <2>3 DEF FaultIsReal
<1> QED
  BY <1>4, <1>5, <1>6, <1>7

(* Everything the last stages take for granted. *)
QuoteAndDocuments(r) ==
  /\ Promise!QuoteGenuine(r) /\ Promise!TcbInfoGenuine(r) /\ Promise!QeIdentityGenuine(r)
  /\ Promise!Fresh(r.collateral.tcbInfo, r) /\ Promise!Fresh(r.collateral.qeIdentity, r)
  /\ Promise!QeRecognised(r.collateral.qeIdentity, r.quote.qeReport)

(* It holds once the quote's signature is checked. *)
LEMMA QuoteAndDocumentsWhen ==
  ASSUME NEW r \in Request, \A n \in 1..22 : Holds(r, n)
  PROVE  QuoteAndDocuments(r)
<1>1. Promise!PkiSound(r)
  BY PkiSoundWhen
<1>2. Holds(r, 19)
  OBVIOUS
<1>3. CheckQeIdentity(r.collateral.qeIdentity, r.quote.qeReport) = Ok
  BY <1>2 DEF Holds
<1>4. r.collateral.qeIdentity \in QeIdentity /\ r.quote.qeReport \in ReportBody
  BY RequestParts
<1> QED
  BY <1>1, <1>3, <1>4, DocumentsWhen, QuoteWhen, CheckQeIdentityIff DEF QuoteAndDocuments

(* A debug enclave is named only when its quote and the documents hold; a  *)
(* PCK certificate without the platform's TCB is unreadable.               *)
LEMMA EnclaveFaults ==
  ASSUME NEW r \in Request, \A n \in 1..22 : Holds(r, n)
  PROVE  /\ FaultIsReal(CheckThat(~IsDebug(r.quote.reportBody), "DebugEnclaveRejected"), r)
         /\ FaultIsReal(ExtensionError(Leaf(PckCerts(r))), r)
<1>1. QuoteAndDocuments(r)
  BY QuoteAndDocumentsWhen
<1>2. Promise!Measured(r) /\ Promise!FormatsKnown(r.collateral)
  BY MeasuredWhen
<1>3. IsDebug(r.quote.reportBody) => Promise!Justified("DebugEnclaveRejected", r)
  BY <1>1 DEF QuoteAndDocuments, Promise!Justified, IsDebug, Promise!IsDebug, DebugFlag,
              Promise!DebugFlag
<1>4. FaultIsReal(CheckThat(~IsDebug(r.quote.reportBody), "DebugEnclaveRejected"), r)
  BY <1>3, CheckThatFault DEF ErrorCategory
<1>5. ExtensionError(Leaf(PckCerts(r))) \in {Ok, "QuoteParse"}
  BY DEF ExtensionError
<1>6. ~Promise!ExtensionReadable(r) => Promise!Justified("QuoteParse", r)
  BY <1>2 DEF Promise!Justified
<1>7. FaultIsReal(ExtensionError(Leaf(PckCerts(r))), r)
  BY <1>5, <1>6, ExtensionIff DEF FaultIsReal, ErrorCategory
<1> QED
  BY <1>4, <1>7

(* A field of the extension has one value, that of its last entry. *)
LEMMA HasOne ==
  ASSUME NEW r, Promise!PckLeaf(r) \in Cert, NEW f, NEW i, NEW v, NEW w,
         Promise!Has(r, f, i, v), Promise!Has(r, f, i, w)
  PROVE  v = w
<1> DEFINE ext == Promise!PckLeaf(r).sgxExtension
           EntryType == [field : {"fmspc", "pceId", "tcb", "other"}, index : Nat,
                         value : Nat \cup {BadValue}]
<1>1. ext \in [decodable : BOOLEAN, entries : Seq(EntryType)]
  BY DEF Cert
<1>2. PICK n \in DOMAIN ext.entries :
        Promise!IsLast(r, f, i, n) /\ Promise!Entry(r, n).value = v
  BY DEF Promise!Has
<1>3. PICK m \in DOMAIN ext.entries :
        Promise!IsLast(r, f, i, m) /\ Promise!Entry(r, m).value = w
  BY DEF Promise!Has
<1>4. n <= m /\ m <= n
  BY <1>2, <1>3 DEF Promise!IsLast
<1> HIDE DEF EntryType, ext
<1>5. n \in Nat /\ m \in Nat
  <2>1. DOMAIN ext.entries = 1..Len(ext.entries) /\ Len(ext.entries) \in Nat
    BY <1>1, LenProperties
  <2> QED
    BY <2>1
<1>6. n = m
  BY <1>4, <1>5
<1> QED
  BY <1>2, <1>3, <1>6

(* Where Intel's document gives the platform a standing, a level is        *)
(* selected and no check of it fails.                                      *)
LEMMA StandingThere ==
  ASSUME NEW r \in Request, Leaf(PckCerts(r)) \in Cert, Promise!ExtensionReadable(r),
         NEW s, Promise!HasStanding(r, s)
  PROVE  StandingError(r.collateral.tcbInfo, PlatformOf(r)) # "TcbLevelUnsupported"
<1> DEFINE info == r.collateral.tcbInfo
           pck == ExtractPckPlatformTcb(Leaf(PckCerts(r)))
<1>1. info \in TcbInfo /\ Promise!PckLeaf(r) \in Cert
  BY RequestParts DEF Leaf, PckCerts, Promise!PckLeaf, Promise!LeafOf
<1>2. info.fmspc = pck.fmspc /\ info.pceId = pck.pceId
  <2>1. Promise!Has(r, "fmspc", 0, pck.fmspc) /\ Promise!Has(r, "pceId", 0, pck.pceId)
    BY ExtractIs
  <2>2. Promise!Has(r, "fmspc", 0, info.fmspc) /\ Promise!Has(r, "pceId", 0, info.pceId)
    BY DEF Promise!HasStanding, Promise!SamePlatform
  <2> HIDE DEF pck, info
  <2> QED
    BY <1>1, <2>1, <2>2, HasOne
<1>3. PICK i \in DOMAIN info.tcbLevels :
        /\ Promise!Assigned(r, i)
        /\ s = Promise!StandingOf(info.tcbLevels[i])
        /\ s.status \in Promise!AcceptableStatus
  BY DEF Promise!HasStanding
<1>4. \A level : LevelSatisfied(level, pck) <=> Promise!Reaches(r, level)
  BY LevelSatisfiedIff
<1>5. /\ LevelSatisfied(info.tcbLevels[i], pck)
      /\ \A j \in 1..(i - 1) : ~LevelSatisfied(info.tcbLevels[j], pck)
  BY <1>3, <1>4 DEF Promise!Assigned
<1>6. info.tcbLevels[i].tcbStatus \in AcceptableStatus
  BY <1>3 DEF Promise!StandingOf, AcceptableStatus, Promise!AcceptableStatus
<1> HIDE DEF pck, info
<1>7. i \in SatisfiedLevels(info, pck)
  BY <1>5 DEF SatisfiedLevels
<1>8. PICK j \in DOMAIN info.tcbLevels :
        /\ LevelSatisfied(info.tcbLevels[j], pck)
        /\ \A l \in 1..(j - 1) : ~LevelSatisfied(info.tcbLevels[l], pck)
        /\ SelectedLevel(info, pck) = info.tcbLevels[j]
  BY <1>1, <1>7, SelectedLevelIs
<1>9. i = j
  <2>1. DOMAIN info.tcbLevels = 1..Len(info.tcbLevels) /\ Len(info.tcbLevels) \in Nat
    BY <1>1, TcbLevels
  <2>2. ~(i < j) /\ ~(j < i)
    BY <1>5, <1>8, <2>1
  <2> QED
    BY <2>1, <2>2
<1>10. StandingError(info, pck) # "TcbLevelUnsupported"
  BY <1>2, <1>6, <1>7, <1>8, <1>9 DEF StandingError, Ok
<1> QED
  BY <1>10 DEF PlatformOf, info, pck

(* The PCK leaf is a certificate once the chains are read. *)
LEMMA PckLeafWhen ==
  ASSUME NEW r \in Request, \A n \in 1..24 : Holds(r, n)
  PROVE  Leaf(PckCerts(r)) \in Cert /\ Promise!ExtensionReadable(r)
<1>1. Promise!Readable(ChainAt(r, 4)) /\ ChainAt(r, 4) \in PemChain
  BY LegibleWhen, RequestParts
<1>2. ChainAt(r, 4) = r.quote.certData
  BY DEF ChainAt, ChainsOf
<1>3. Leaf(PckCerts(r)) \in Cert
  <2>1. PICK n \in Nat \ {0} : /\ n = Len(r.quote.certData.ders)
                               /\ \A i \in 1..n : r.quote.certData.ders[i] \in Cert
    BY <1>1, <1>2, ReadableCerts
  <2>2. 1 \in 1..n
    OBVIOUS
  <2> QED
    BY <2>1, <2>2 DEF Leaf, PckCerts
<1>4. Holds(r, 24)
  OBVIOUS
<1>5. ExtensionError(Leaf(PckCerts(r))) = Ok
  BY <1>4 DEF Holds
<1> QED
  BY <1>3, <1>5, ExtensionIff

(* A platform without a standing is turned away only if the document gives *)
(* it none.                                                                *)
LEMMA StandingFault ==
  ASSUME NEW r \in Request, \A n \in 1..24 : Holds(r, n)
  PROVE  FaultIsReal(StandingError(r.collateral.tcbInfo, PlatformOf(r)), r)
<1> DEFINE info == r.collateral.tcbInfo
           result == StandingError(info, PlatformOf(r))
<1> SUFFICES FaultIsReal(result, r)
  OBVIOUS
<1>1. Promise!Measured(r) /\ QuoteAndDocuments(r)
  BY MeasuredWhen, QuoteAndDocumentsWhen
<1>2. result \in {Ok, "CollateralParse", "TcbLevelUnsupported"}
  BY DEF StandingError
<1>3. result = "CollateralParse" => Promise!Justified("CollateralParse", r)
  <2>1. result = "CollateralParse" => info.fmspc = BadHex \/ info.pceId = BadHex
    BY DEF StandingError, Ok
  <2>2. result = "CollateralParse" => ~Promise!HexReadable(r.collateral)
    BY <2>1 DEF Promise!HexReadable
  <2> HIDE DEF result
  <2> QED
    BY <1>1, <2>2 DEF Promise!Justified
<1>4. result = "TcbLevelUnsupported" => Promise!Justified("TcbLevelUnsupported", r)
  <2>1. result = "TcbLevelUnsupported" => \A s : ~Promise!HasStanding(r, s)
    BY PckLeafWhen, StandingThere
  <2> HIDE DEF result
  <2> QED
    BY <1>1, <2>1 DEF Promise!Justified, QuoteAndDocuments
<1> HIDE DEF result
<1> QED
  BY <1>2, <1>3, <1>4 DEF FaultIsReal, ErrorCategory

(* The policy turns away a standing that an acceptable call really has.    *)
LEMMA PolicyFault ==
  ASSUME NEW r \in Request, NEW s \in TcbStanding, Promise!Acceptable(r),
         Promise!HasStanding(r, s), NEW policy \in r.policy
  PROVE  FaultIsReal(PolicyCheck(policy, s), r)
<1>1. PolicyCheck(policy, s) \in {Ok, "TcbStandingRejected"}
  BY DEF PolicyCheck
<1>2. PolicyCheck(policy, s) # Ok => ~Promise!Permits(policy, s)
  BY PolicyCheckIff
<1>3. \E i \in DOMAIN r.collateral.tcbInfo.tcbLevels :
        s = Promise!StandingOf(r.collateral.tcbInfo.tcbLevels[i])
  BY DEF Promise!HasStanding
<1>4. ~Promise!Permits(policy, s) => Promise!Justified("TcbStandingRejected", r)
  BY <1>3 DEF Promise!Justified
<1> QED
  BY <1>1, <1>2, <1>4 DEF FaultIsReal, ErrorCategory

-----------------------------------------------------------------------------
(* The pipeline's steps as steps of the promise. *)

PromiseStep == [Promise!Next]_(Promise!vars)

(* Phases of the gates. *)
LEMMA PhaseOfGates ==
  /\ pc \in Gates => Phase = "called"
  /\ pc = "returned" => Phase = "returned"
  /\ pc = "idle" => Phase = "idle"
  BY GateNames DEF Phase

(* A gate that passes is no step of the promise; one that fails rejects.   *)
LEMMA GateRefines ==
  ASSUME NEW gate \in Gates, NEW next \in Gates, NEW result,
         Gate(gate, result, next), FaultIsReal(result, request)
  PROVE  PromiseStep
<1>1. Phase = "called" /\ request' = request
  BY PhaseOfGates DEF Gate
<1>2. CASE result = Ok
  <2>1. pc' \in Gates /\ verdict' = verdict
    BY <1>2 DEF Gate
  <2>2. Phase' = "called"
    BY <2>1, GateNames DEF Phase
  <2> QED
    BY <1>1, <2>1, <2>2 DEF PromiseStep, Promise!vars
<1>3. CASE result # Ok
  <2>1. pc' = "returned" /\ verdict' = Rejected(result)
    BY <1>3 DEF Gate
  <2>2. Phase' = "returned"
    BY <2>1 DEF Phase
  <2>3. result \in Promise!ErrorCategory /\ Promise!Justified(result, request)
    BY <1>3 DEF FaultIsReal, ErrorCategory, Promise!ErrorCategory
  <2>4. Promise!Reject(result)
    BY <1>1, <2>1, <2>2, <2>3 DEF Promise!Reject, Rejected, Promise!Rejected
  <2> QED
    BY <2>3, <2>4 DEF PromiseStep, Promise!Next
<1> QED
  BY <1>2, <1>3

(* An acceptance is one the promise makes. *)
LEMMA AcceptRefines ==
  ASSUME NEW s, pc \in Gates, pc' = "returned", request' = request,
         verdict' = Accepted(s, request.quote.reportBody),
         Promise!Acceptable(request), Promise!HasStanding(request, s),
         \A p \in request.policy : Promise!Permits(p, s)
  PROVE  PromiseStep
<1>1. Phase = "called" /\ Phase' = "returned"
  BY PhaseOfGates DEF Phase
<1>2. PICK i \in DOMAIN request.collateral.tcbInfo.tcbLevels :
        s = Promise!StandingOf(request.collateral.tcbInfo.tcbLevels[i])
  BY DEF Promise!HasStanding
<1>3. Promise!Accept
  BY <1>1, <1>2 DEF Promise!Accept, Accepted, Promise!Accepted
<1> QED
  BY <1>3 DEF PromiseStep, Promise!Next

(* The last gate of verify_remote_attestation. *)
LEMMA StandingGateRefines ==
  ASSUME TypeInv, Evidence, PlatformStandingGate
  PROVE  PromiseStep
<1> DEFINE result == StandingError(request.collateral.tcbInfo, PlatformOf(request))
           found == PlatformStanding(request.collateral.tcbInfo, PlatformOf(request))
<1>1. /\ pc = "platform_standing" /\ request' = request
      /\ \/ /\ result = Ok /\ request.policy = {} /\ pc' = "returned"
            /\ verdict' = Accepted(found, request.quote.reportBody)
         \/ result = Ok /\ pc' = "policy" /\ verdict' = verdict
         \/ result # Ok /\ pc' = "returned" /\ verdict' = Rejected(result)
  BY DEF PlatformStandingGate, PlatformOf
<1>2. request \in Request /\ pc \in Gates /\ "policy" \in Gates
  BY <1>1, RequestThere, GateNames
<1>3. \A n \in 1..24 : Holds(request, n)
  BY <1>1, GateNames, Ranks DEF Evidence
<1>4. CASE result = Ok /\ pc' = "returned"
  <2>1. Promise!Acceptable(request) /\ Promise!HasStanding(request, found)
    BY <1>2, <1>3, <1>4, AcceptanceWhen
  <2> HIDE DEF found, result
  <2> QED
    BY <1>1, <1>2, <1>4, <2>1, GateNames, AcceptRefines
<1>5. CASE ~(result = Ok /\ pc' = "returned")
  <2>1. FaultIsReal(result, request)
    BY <1>2, <1>3, StandingFault
  <2> HIDE DEF found, result
  <2>2. Gate("platform_standing", result, "policy")
    BY <1>1, <1>5 DEF Gate
  <2> QED
    BY <1>1, <1>2, <2>1, <2>2, GateRefines
<1> QED
  BY <1>4, <1>5

(* The policy's gate. *)
LEMMA PolicyGateRefines ==
  ASSUME TypeInv, Evidence, PolicyGate
  PROVE  PromiseStep
<1> DEFINE policy == CHOOSE p \in request.policy : TRUE
           result == PolicyCheck(policy, standing)
<1>1. /\ pc = "policy" /\ pc' = "returned" /\ request' = request
      /\ verdict' = IF result = Ok THEN Accepted(standing, request.quote.reportBody)
                    ELSE Rejected(result)
  BY DEF PolicyGate
<1>2. request \in Request /\ standing \in TcbStanding /\ pc \in Gates
  BY <1>1, RequestThere, GateNames DEF TypeInv
<1>3. \A n \in 1..24 : Holds(request, n)
  BY <1>1, GateNames, Ranks DEF Evidence
<1>4. Promise!Acceptable(request) /\ Promise!HasStanding(request, standing)
  <2>1. /\ StandingError(request.collateral.tcbInfo, PlatformOf(request)) = Ok
        /\ standing = PlatformStanding(request.collateral.tcbInfo, PlatformOf(request))
    BY <1>1, GateNames DEF Evidence
  <2> QED
    BY <1>2, <1>3, <2>1, AcceptanceWhen
<1>5. \A p \in request.policy : p = policy
  BY <1>2 DEF Request
<1>6. CASE result = Ok
  <2>1. \A p \in request.policy : Promise!Permits(p, standing)
    <3> HIDE DEF policy
    <3> QED
      BY <1>2, <1>5, <1>6, PolicyCheckIff
  <2> QED
    BY <1>1, <1>2, <1>4, <1>6, <2>1, AcceptRefines
<1>7. CASE result # Ok
  <2>1. policy \in request.policy
    BY <1>1, GateNames DEF Evidence
  <2>2. FaultIsReal(result, request)
    BY <1>2, <1>4, <2>1, PolicyFault
  <2> HIDE DEF policy, result
  <2>3. Gate("policy", result, "policy")
    BY <1>1, <1>7 DEF Gate
  <2> QED
    BY <1>2, <2>2, <2>3, GateNames, GateRefines
<1> QED
  BY <1>6, <1>7

(* What the evidence gives a gate of its rank. *)
LEMMA EvidenceAt ==
  ASSUME TypeInv, Evidence, NEW gate \in Gates, NEW n \in Nat, pc = gate, n < Rank[gate],
         Rank[gate] \in Nat
  PROVE  /\ request \in Request
         /\ \A i \in 1..n : Holds(request, i)
         /\ n >= 11 => Promise!PkiSound(request)
         /\ n >= 12 => Promise!TcbInfoGenuine(request)
         /\ n >= 16 => Promise!QeIdentityGenuine(request)
         /\ n >= 18 => Promise!Fresh(request.collateral.qeIdentity, request)
<1>1. request \in Request
  BY RequestThere, GateNames
<1>2. \A i \in 1..n : Holds(request, i)
  BY DEF Evidence
<1>3. n >= 11 => Promise!PkiSound(request)
  <2> SUFFICES ASSUME n >= 11 PROVE Promise!PkiSound(request)
    OBVIOUS
  <2>1. \A i \in 1..11 : Holds(request, i)
    BY <1>2
  <2> QED
    BY <1>1, <2>1, PkiSoundWhen
<1>4. ASSUME n >= 12 PROVE Promise!TcbInfoGenuine(request)
  <2>1. Holds(request, 12)
    BY <1>2, <1>4
  <2> QED
    BY <1>3, <1>4, <2>1, DocumentSignatureIff
       DEF Holds, TcbCerts, ErrorCategory, Promise!TcbInfoGenuine
<1>5. ASSUME n >= 16 PROVE Promise!QeIdentityGenuine(request)
  <2>1. Holds(request, 16)
    BY <1>2, <1>5
  <2> QED
    BY <1>3, <1>5, <2>1, DocumentSignatureIff
       DEF Holds, QeCerts, ErrorCategory, Promise!QeIdentityGenuine
<1>6. ASSUME n >= 18 PROVE Promise!Fresh(request.collateral.qeIdentity, request)
  <2>1. \A i \in 12..18 : Holds(request, i)
    BY <1>2, <1>6
  <2> QED
    BY <1>1, <1>3, <1>6, <2>1, DocumentsWhen
<1> QED
  BY <1>1, <1>2, <1>3, <1>4, <1>5, <1>6

(* The gates that read the call. *)
LEMMA ReadingGatesRefine ==
  ASSUME TypeInv, Evidence,
         QeVendorGate \/ MrenclaveGate \/ FormatsGate \/ FromPemGate \/ ParseGate
  PROVE  PromiseStep
<1> USE GateNames, Ranks
<1>0. k \in 1..4
  BY DEF TypeInv, TypeOK
<1>1. CASE QeVendorGate
  <2>1. request \in Request
    BY <1>1, EvidenceAt DEF QeVendorGate, PlainGate, Gate
  <2> QED
    BY <1>1, <2>1, DoorFaults, GateRefines DEF QeVendorGate, PlainGate
<1>2. CASE MrenclaveGate
  <2>1. request \in Request /\ \A i \in 1..1 : Holds(request, i)
    BY <1>2, EvidenceAt DEF MrenclaveGate, PlainGate, Gate
  <2> QED
    BY <1>2, <2>1, DoorFaults, GateRefines DEF MrenclaveGate, PlainGate
<1>3. CASE FormatsGate
  <2>1. request \in Request /\ \A i \in 1..2 : Holds(request, i)
    BY <1>3, EvidenceAt DEF FormatsGate, PlainGate, Gate
  <2> QED
    BY <1>3, <2>1, DoorFaults, GateRefines DEF FormatsGate, PlainGate
<1>4. CASE FromPemGate
  <2>1. request \in Request /\ \A i \in 1..3 : Holds(request, i)
    BY <1>4, EvidenceAt DEF FromPemGate, ChainGate, Gate
  <2>2. FaultIsReal(FromPem(ChainKind[k], ChainAt(request, k)), request)
    BY <1>0, <2>1, ReadingFault
  <2> QED
    BY <1>4, <2>2, GateRefines DEF FromPemGate, ChainGate
<1>5. CASE ParseGate
  <2>1. request \in Request /\ \A i \in 1..4 : Holds(request, i)
    BY <1>5, EvidenceAt DEF ParseGate, ChainGate, Gate
  <2>2. FaultIsReal(ParseChain(ChainKind[k], ChainAt(request, k)), request)
    BY <1>0, <2>1, ReadingFault
  <2> QED
    BY <1>5, <2>2, GateRefines DEF ParseGate, ChainGate
<1> QED
  BY <1>1, <1>2, <1>3, <1>4, <1>5

(* The gates that establish trust in the certificates. *)
LEMMA TrustGatesRefine ==
  ASSUME TypeInv, Evidence,
         \/ ValidateGate \/ SigningLeafGate \/ CrlIssuerGate \/ RootCrlGate \/ PckCrlGate
         \/ NoneRevokedGate
  PROVE  PromiseStep
<1> USE GateNames, Ranks
<1>0. k \in 1..4
  BY DEF TypeInv, TypeOK
<1>1. CASE ValidateGate
  <2>1. request \in Request /\ \A i \in 1..5 : Holds(request, i)
    BY <1>1, EvidenceAt DEF ValidateGate, ChainGate, Gate
  <2>2. FaultIsReal(Validate(ChainAt(request, k).ders, Now(request)), request)
    BY <1>0, <2>1, ValidateFault
  <2> QED
    BY <1>1, <2>2, GateRefines DEF ValidateGate, ChainGate
<1>2. CASE SigningLeafGate
  <2>1. request \in Request /\ \A i \in 1..6 : Holds(request, i)
    BY <1>2, EvidenceAt DEF SigningLeafGate, ChainGate, Gate
  <2>2. FaultIsReal(RequireTcbSigningLeaf(IF k = 1 THEN TcbCerts(request)
                                          ELSE QeCerts(request)), request)
    BY <2>1, SigningLeafFault
  <2> QED
    BY <1>2, <2>2, GateRefines DEF SigningLeafGate, ChainGate
<1>3. CASE CrlIssuerGate
  <2>1. request \in Request /\ \A i \in 1..7 : Holds(request, i)
    BY <1>3, EvidenceAt DEF CrlIssuerGate, PlainGate, Gate
  <2>2. FaultIsReal(CheckThat(Leaf(CrlCerts(request)).subject
                                = Leaf(PckCerts(request)).issuer, "CrlInvalid"), request)
    BY <2>1, RevocationFaults
  <2> QED
    BY <1>3, <2>2, GateRefines DEF CrlIssuerGate, PlainGate
<1>4. CASE RootCrlGate
  <2>1. request \in Request /\ \A i \in 1..7 : Holds(request, i)
    BY <1>4, EvidenceAt DEF RootCrlGate, CrlGate, Gate
  <2> QED
    BY <1>4, <2>1, RevocationFaults, GateRefines DEF RootCrlGate, CrlGate
<1>5. CASE PckCrlGate
  <2>1. request \in Request /\ \A i \in 1..7 : Holds(request, i)
    BY <1>5, EvidenceAt DEF PckCrlGate, CrlGate, Gate
  <2> QED
    BY <1>5, <2>1, RevocationFaults, GateRefines DEF PckCrlGate, CrlGate
<1>6. CASE NoneRevokedGate
  <2>1. request \in Request /\ \A i \in 1..7 : Holds(request, i)
    BY <1>6, EvidenceAt DEF NoneRevokedGate, PlainGate, Gate
  <2>2. revoked = RevokedEntries(request.collateral.rootCaCrl)
                    \cup RevokedEntries(request.collateral.pckCrl)
    BY <1>6 DEF NoneRevokedGate, PlainGate, Gate, Evidence, Collected
  <2> QED
    BY <1>6, <2>1, <2>2, RevocationFaults, GateRefines DEF NoneRevokedGate, PlainGate
<1> QED
  BY <1>1, <1>2, <1>3, <1>4, <1>5, <1>6

(* The gates of the two documents. *)
LEMMA DocumentGatesRefine ==
  ASSUME TypeInv, Evidence,
         \/ TcbSignatureGate \/ TcbIdGate \/ TcbWindowGate \/ TcbRoundGate
         \/ QeSignatureGate \/ QeWindowGate \/ QeRoundGate \/ QeIdentityGate
  PROVE  PromiseStep
<1> USE GateNames, Ranks
<1>1. CASE TcbSignatureGate
  <2>1. request \in Request /\ Promise!PkiSound(request)
    BY <1>1, EvidenceAt DEF TcbSignatureGate, PlainGate, Gate
  <2> QED
    BY <1>1, <2>1, DocumentSignatureFaults, GateRefines DEF TcbSignatureGate, PlainGate
<1>2. CASE TcbIdGate
  <2>1. request \in Request /\ Promise!PkiSound(request)
    BY <1>2, EvidenceAt DEF TcbIdGate, PlainGate, Gate
  <2> QED
    BY <1>2, <2>1, DocumentFaults, GateRefines DEF TcbIdGate, PlainGate
<1>3. CASE TcbWindowGate
  <2>1. request \in Request /\ Promise!PkiSound(request) /\ Promise!TcbInfoGenuine(request)
    BY <1>3, EvidenceAt DEF TcbWindowGate, PlainGate, Gate
  <2> QED
    BY <1>3, <2>1, DocumentFaults, GateRefines DEF TcbWindowGate, PlainGate
<1>4. CASE TcbRoundGate
  <2>1. request \in Request /\ Promise!PkiSound(request) /\ Promise!TcbInfoGenuine(request)
    BY <1>4, EvidenceAt DEF TcbRoundGate, PlainGate, Gate
  <2> QED
    BY <1>4, <2>1, DocumentFaults, GateRefines DEF TcbRoundGate, PlainGate
<1>5. CASE QeSignatureGate
  <2>1. request \in Request /\ Promise!PkiSound(request)
    BY <1>5, EvidenceAt DEF QeSignatureGate, PlainGate, Gate
  <2> QED
    BY <1>5, <2>1, DocumentSignatureFaults, GateRefines DEF QeSignatureGate, PlainGate
<1>6. CASE QeWindowGate
  <2>1. request \in Request /\ Promise!PkiSound(request) /\ Promise!QeIdentityGenuine(request)
    BY <1>6, EvidenceAt DEF QeWindowGate, PlainGate, Gate
  <2> QED
    BY <1>6, <2>1, DocumentFaults, GateRefines DEF QeWindowGate, PlainGate
<1>7. CASE QeRoundGate
  <2>1. request \in Request /\ Promise!PkiSound(request) /\ Promise!QeIdentityGenuine(request)
    BY <1>7, EvidenceAt DEF QeRoundGate, PlainGate, Gate
  <2> QED
    BY <1>7, <2>1, DocumentFaults, GateRefines DEF QeRoundGate, PlainGate
<1>8. CASE QeIdentityGate
  <2>1. /\ request \in Request /\ Promise!QeIdentityGenuine(request)
        /\ Promise!Fresh(request.collateral.qeIdentity, request)
    BY <1>8, EvidenceAt DEF QeIdentityGate, PlainGate, Gate
  <2> QED
    BY <1>8, <2>1, QeIdentityFault, GateRefines DEF QeIdentityGate, PlainGate
<1> QED
  BY <1>1, <1>2, <1>3, <1>4, <1>5, <1>6, <1>7, <1>8

(* The gates of the quote. *)
LEMMA QuoteGatesRefine ==
  ASSUME TypeInv, Evidence,
         \/ QeReportSignatureGate \/ QeBindingGate \/ QuoteSignatureGate
         \/ DebugGate \/ PlatformTcbGate
  PROVE  PromiseStep
<1> USE GateNames, Ranks
<1>1. CASE QeReportSignatureGate
  <2>1. request \in Request /\ Promise!PkiSound(request)
    BY <1>1, EvidenceAt DEF QeReportSignatureGate, PlainGate, Gate
  <2> QED
    BY <1>1, <2>1, QuoteFaults, GateRefines DEF QeReportSignatureGate, PlainGate
<1>2. CASE QeBindingGate
  <2>1. /\ request \in Request /\ Promise!PkiSound(request)
        /\ \A i \in 1..20 : Holds(request, i)
    BY <1>2, EvidenceAt DEF QeBindingGate, PlainGate, Gate
  <2>2. Holds(request, 20)
    BY <2>1
  <2>3. QeReportSignature(request) = Ok
    BY <2>2 DEF Holds
  <2> QED
    BY <1>2, <2>1, <2>3, QuoteFaults, GateRefines DEF QeBindingGate, PlainGate
<1>3. CASE QuoteSignatureGate
  <2>1. /\ request \in Request /\ Promise!PkiSound(request)
        /\ \A i \in 1..21 : Holds(request, i)
    BY <1>3, EvidenceAt DEF QuoteSignatureGate, PlainGate, Gate
  <2>2. Holds(request, 20) /\ Holds(request, 21)
    BY <2>1
  <2>3. QeReportSignature(request) = Ok /\ QeBinding(request.quote) = Ok
    BY <2>2 DEF Holds
  <2> QED
    BY <1>3, <2>1, <2>3, QuoteFaults, GateRefines DEF QuoteSignatureGate, PlainGate
<1>4. CASE DebugGate
  <2>1. request \in Request /\ \A i \in 1..22 : Holds(request, i)
    BY <1>4, EvidenceAt DEF DebugGate, PlainGate, Gate
  <2> QED
    BY <1>4, <2>1, EnclaveFaults, GateRefines DEF DebugGate, PlainGate
<1>5. CASE PlatformTcbGate
  <2>1. request \in Request /\ \A i \in 1..22 : Holds(request, i)
    BY <1>5, EvidenceAt DEF PlatformTcbGate, PlainGate, Gate
  <2> QED
    BY <1>5, <2>1, EnclaveFaults, GateRefines DEF PlatformTcbGate, PlainGate
<1> QED
  BY <1>1, <1>2, <1>3, <1>4, <1>5

(* Every step of the pipeline is a step of the promise or none. *)
LEMMA StepRefines == TypeInv /\ Evidence /\ [Next]_vars => PromiseStep
<1> SUFFICES ASSUME TypeInv, Evidence, [Next]_vars PROVE PromiseStep
  OBVIOUS
<1>1. CASE Step
  BY <1>1, ReadingGatesRefine, TrustGatesRefine, DocumentGatesRefine, QuoteGatesRefine,
     StandingGateRefines, PolicyGateRefines DEF Step
<1>2. CASE Call
  <2>1. Phase = "idle" /\ Phase' = "called"
    BY <1>2 DEF Call, CallWith, Phase
  <2>2. Promise!Call
    BY <1>2, <2>1 DEF Call, CallWith, Promise!Call
  <2> QED
    BY <2>2 DEF PromiseStep, Promise!Next
<1>3. CASE Return
  <2>1. Phase = "returned" /\ Phase' = "idle"
    BY <1>3 DEF Return, Phase
  <2>2. Promise!Return
    BY <1>3, <2>1 DEF Return, Promise!Return, Pending, Promise!Pending
  <2> QED
    BY <2>2 DEF PromiseStep, Promise!Next
<1>4. CASE UNCHANGED vars
  <2>1. Phase' = Phase /\ request' = request /\ verdict' = verdict
    BY <1>4 DEF vars, Phase
  <2> QED
    BY <2>1 DEF PromiseStep, Promise!vars
<1> QED
  BY <1>1, <1>2, <1>3, <1>4 DEF Next

(* The verifier answers as it promises, whatever it is called with: it     *)
(* accepts only with all the evidence, with the standing of the first      *)
(* level the platform reaches, and it rejects only for a fault the call    *)
(* has, after every stage that the category takes for granted.             *)
THEOREM PipelineKeepsItsPromise == Spec => ImplementsPromise
<1>1. Init => Promise!Init
  BY DEF Init, Phase, Promise!Init, Pending, Promise!Pending
<1>2. Init => TypeInv /\ Evidence
  BY TypeInit, AcceptanceInit
<1>3. TypeInv /\ Evidence /\ [Next]_vars => TypeInv' /\ Evidence'
  BY TypeStep, EvidenceStep
<1>4. TypeInv /\ Evidence /\ [Next]_vars => [Promise!Next]_(Promise!vars)
  BY StepRefines DEF PromiseStep
<1> QED
  BY <1>1, <1>2, <1>3, <1>4, PTL DEF Spec, ImplementsPromise, Promise!Spec

-----------------------------------------------------------------------------
(* No call that deserves acceptance is rejected. *)

(* Intel's document gives a platform one standing. *)
LEMMA StandingUnique ==
  ASSUME NEW r \in Request, NEW s, NEW t, Promise!HasStanding(r, s), Promise!HasStanding(r, t)
  PROVE  s = t
<1> DEFINE levels == r.collateral.tcbInfo.tcbLevels
<1>1. DOMAIN levels = 1..Len(levels) /\ Len(levels) \in Nat
  BY RequestParts, TcbLevels
<1>2. PICK i \in DOMAIN levels : Promise!Assigned(r, i) /\ s = Promise!StandingOf(levels[i])
  BY DEF Promise!HasStanding
<1>3. PICK j \in DOMAIN levels : Promise!Assigned(r, j) /\ t = Promise!StandingOf(levels[j])
  BY DEF Promise!HasStanding
<1>4. /\ Promise!Reaches(r, levels[i]) /\ \A l \in 1..(i - 1) : ~Promise!Reaches(r, levels[l])
      /\ Promise!Reaches(r, levels[j]) /\ \A l \in 1..(j - 1) : ~Promise!Reaches(r, levels[l])
  BY <1>2, <1>3 DEF Promise!Assigned
<1> HIDE DEF levels
<1>5. ~(i < j) /\ ~(j < i)
  BY <1>1, <1>4
<1>6. i = j
  BY <1>1, <1>5
<1> QED
  BY <1>2, <1>3, <1>6

(* What is acceptable has no fault in its certificates. *)
LEMMA AcceptableCertificates ==
  ASSUME NEW r \in Request, Promise!Acceptable(r)
  PROVE  /\ Promise!Legible(r) /\ Promise!AllTrusted(r) /\ Promise!SignersPinned(r)
         /\ Promise!PkiSound(r) /\ Promise!RightCrls(r) /\ Promise!NoneListed(r)
         /\ Promise!CrlsCurrent(r)
         /\ \A chain \in Promise!Chains(r) : Promise!LeafOf(chain).key \notin UnusableKey
<1>1. /\ Promise!PkiSound(r) /\ Promise!TcbInfoGenuine(r) /\ Promise!QeIdentityGenuine(r)
      /\ Promise!QeReportGenuine(r)
  BY DEF Promise!Acceptable, Promise!TcbInfoGenuine, Promise!QuoteGenuine,
         Promise!AttestationKeyBound
<1>2. /\ Promise!AllTrusted(r) /\ Promise!SignersPinned(r) /\ Promise!RightCrls(r)
      /\ Promise!NoneListed(r) /\ Promise!CrlsCurrent(r)
      /\ Promise!PckCa(r).key \notin UnusableKey
  BY <1>1 DEF Promise!PkiSound, Promise!NoneRevoked
<1>3. Promise!Legible(r)
  BY <1>2 DEF Promise!AllTrusted
<1>4. /\ Promise!LeafOf(r.collateral.tcbInfoIssuerChain).key \notin UnusableKey
      /\ Promise!LeafOf(r.collateral.qeIdentityIssuerChain).key \notin UnusableKey
      /\ Promise!LeafOf(r.quote.certData).key \notin UnusableKey
      /\ Promise!LeafOf(r.collateral.pckCrlIssuerChain).key \notin UnusableKey
  BY <1>1, <1>2 DEF Promise!TcbInfoGenuine, Promise!QeIdentityGenuine, Promise!QeReportGenuine,
                    Promise!SignedByLeaf, Promise!PckCa, Promise!PckLeaf
<1> QED
  BY <1>1, <1>2, <1>3, <1>4 DEF Promise!Chains, Promise!CollateralChains

(* A call that deserves acceptance has no fault of any category. *)
LEMMA NothingAtFault ==
  ASSUME NEW r \in Request, Deserved(r), NEW category \in Promise!ErrorCategory
  PROVE  ~Promise!Justified(category, r)
<1>1. Promise!Acceptable(r)
  BY DEF Deserved
<1>2. /\ Promise!Legible(r) /\ Promise!AllTrusted(r) /\ Promise!SignersPinned(r)
      /\ Promise!PkiSound(r) /\ Promise!RightCrls(r) /\ Promise!NoneListed(r)
      /\ Promise!CrlsCurrent(r)
      /\ \A chain \in Promise!Chains(r) : Promise!LeafOf(chain).key \notin UnusableKey
  BY <1>1, AcceptableCertificates
<1>3. /\ Promise!Measured(r) /\ Promise!FormatsKnown(r.collateral)
      /\ \A chain \in Promise!Chains(r) : Promise!Readable(chain)
      /\ r.quote.qeVendorId = IntelQeVendorId
      /\ r.quote.reportBody.mrenclave = r.expectedMrenclave
  BY <1>2 DEF Promise!Legible, Promise!Measured
<1>4. \A chain \in Promise!Chains(r) : \A i \in DOMAIN chain.ders :
        Promise!Current(chain.ders[i], Promise!NowOf(r))
  BY <1>2 DEF Promise!AllTrusted, Promise!Trusted
<1>5. /\ CommonName[Promise!LeafOf(r.collateral.tcbInfoIssuerChain).subject] # NoCn
      /\ CommonName[Promise!LeafOf(r.collateral.qeIdentityIssuerChain).subject] # NoCn
  BY <1>2, SignerAssumption DEF Promise!SignersPinned, Promise!SignsTcb
<1>6. /\ Promise!HexReadable(r.collateral) /\ r.collateral.tcbInfo.id = "SGX"
      /\ Promise!TcbInfoGenuine(r) /\ Promise!Fresh(r.collateral.tcbInfo, r)
      /\ Promise!QeIdentityGenuine(r) /\ Promise!Fresh(r.collateral.qeIdentity, r)
      /\ Promise!QeRecognised(r.collateral.qeIdentity, r.quote.qeReport)
      /\ Promise!QuoteGenuine(r) /\ ~Promise!IsDebug(r.quote.reportBody)
      /\ Promise!ExtensionReadable(r)
  BY <1>1 DEF Promise!Acceptable
<1>7. Promise!AttestationKeyBound(r) /\ Promise!QeReportGenuine(r)
  BY <1>6 DEF Promise!QuoteGenuine, Promise!AttestationKeyBound
<1>8. /\ r.quote.certData \in Promise!Chains(r)
      /\ \A chain \in Promise!CollateralChains(r) : chain \in Promise!Chains(r)
  BY DEF Promise!Chains
<1>9. PICK i \in DOMAIN r.collateral.tcbInfo.tcbLevels :
        /\ Promise!HasStanding(r, Promise!StandingOf(r.collateral.tcbInfo.tcbLevels[i]))
        /\ \A p \in r.policy :
             Promise!Permits(p, Promise!StandingOf(r.collateral.tcbInfo.tcbLevels[i]))
  BY DEF Deserved
<1>10. CASE category \in {"QeVendorInvalid", "MrenclaveMismatch", "CollateralParse", "QuoteParse"}
  BY <1>10, <1>3, <1>5, <1>6, <1>8 DEF Promise!Justified
<1>11. CASE category \in {"RootCaUntrusted", "CertOrCrlTimeInvalid", "CrlInvalid"}
  BY <1>11, <1>2, <1>4 DEF Promise!Justified
<1>12. CASE category \in {"TcbInfoSignatureInvalid", "TcbInfoStale", "QeIdentitySignatureInvalid",
                          "QeIdentityStale", "QeIdentityMismatch"}
  BY <1>12, <1>6 DEF Promise!Justified
<1>13. CASE category \in {"QeReportSignatureInvalid", "QeBindingInvalid",
                          "QuoteSignatureInvalid", "DebugEnclaveRejected"}
  BY <1>13, <1>6, <1>7 DEF Promise!Justified
<1>14. CASE category = "TcbLevelUnsupported"
  BY <1>14, <1>9 DEF Promise!Justified
<1>15. CASE category = "TcbStandingRejected"
  <2>1. SUFFICES ASSUME Promise!Justified(category, r) PROVE FALSE
    OBVIOUS
  <2>2. PICK j \in DOMAIN r.collateral.tcbInfo.tcbLevels :
          /\ Promise!HasStanding(r, Promise!StandingOf(r.collateral.tcbInfo.tcbLevels[j]))
          /\ \E p \in r.policy :
               ~Promise!Permits(p, Promise!StandingOf(r.collateral.tcbInfo.tcbLevels[j]))
    BY <1>15, <2>1 DEF Promise!Justified
  <2> QED
    BY <1>9, <2>2, StandingUnique
<1> QED
  BY <1>10, <1>11, <1>12, <1>13, <1>14, <1>15 DEF Promise!ErrorCategory

(* A call that has returned is accepted, or rejected for a fault it has. *)
Answer ==
  pc = "returned" =>
    \/ verdict.kind = "accepted"
    \/ \E category \in Promise!ErrorCategory : Promise!Justified(category, request)

(* Only the steps that answer a call bring it to its return. *)
LEMMA AnswerStep == TypeInv /\ Evidence /\ Answer /\ [Next]_vars => Answer'
<1> SUFFICES ASSUME TypeInv, Evidence, Answer, [Next]_vars, pc' = "returned" PROVE Answer'
  BY DEF Answer
<1>1. Phase' = "returned"
  BY DEF Phase
<1>2. PromiseStep
  BY StepRefines
<1>3. CASE Promise!Accept
  BY <1>3 DEF Promise!Accept, Promise!Accepted, Answer
<1>4. CASE \E category \in Promise!ErrorCategory : Promise!Reject(category)
  BY <1>4 DEF Promise!Reject, Answer
<1>5. CASE Promise!Call \/ Promise!Return
  BY <1>1, <1>5 DEF Promise!Call, Promise!Return
<1>6. CASE UNCHANGED Promise!vars
  <2>1. Phase = "returned" /\ request' = request /\ verdict' = verdict
    BY <1>1, <1>6 DEF Promise!vars
  <2>2. pc = "returned"
    BY <2>1 DEF Phase
  <2> QED
    BY <2>1, <2>2 DEF Answer
<1> QED
  BY <1>2, <1>3, <1>4, <1>5, <1>6 DEF PromiseStep, Promise!Next

(* Acceptance is complete: a call with all the evidence, whose platform    *)
(* has a standing its policy permits, is accepted.  Together with          *)
(* AcceptanceIsSound: it is accepted exactly then.                         *)
THEOREM AcceptanceIsComplete == Spec => []AcceptanceComplete
<1>1. Init => TypeInv /\ Evidence /\ Answer
  BY TypeInit, AcceptanceInit DEF Init, Answer
<1>2. TypeInv /\ Evidence /\ Answer /\ [Next]_vars => TypeInv' /\ Evidence' /\ Answer'
  BY TypeStep, EvidenceStep, AnswerStep
<1>3. TypeInv /\ Answer => AcceptanceComplete
  <2>1. SUFFICES ASSUME TypeInv, Answer, pc = "returned", Deserved(request)
                 PROVE  verdict.kind = "accepted"
    BY DEF AcceptanceComplete
  <2>2. request \in Request
    BY <2>1, RequestThere
  <2> QED
    BY <2>1, <2>2, NothingAtFault DEF Answer
<1> QED
  BY <1>1, <1>2, <1>3, PTL DEF Spec

-----------------------------------------------------------------------------
(* At most this many steps are left of a call until it returns: a gate     *)
(* that loops takes one for each of the four chains.                       *)
StepsLeft ==
  IF pc \in {"idle", "returned"} THEN 0 ELSE 5 * (27 - Rank[pc]) - k

(* A gate goes on to a later one, or to the next chain, or returns.        *)
Onward ==
  \/ pc' = "returned"
  \/ pc' \in Gates /\ Rank[pc'] > Rank[pc] /\ k' \in 1..4
  \/ pc' = pc /\ k' = k + 1 /\ k < 4

(* A gate that is passed leads on. *)
LEMMA PlainGateOnward ==
  ASSUME k \in 1..4, NEW gate \in Gates, NEW result, NEW next \in Gates, Rank[next] > Rank[gate],
         Gate(gate, result, next), k' = k
  PROVE  pc \in Gates /\ Onward
  BY DEF Gate, Onward

(* A gate of several chains leads on from the last one. *)
LEMMA ChainGateOnward ==
  ASSUME k \in 1..4, NEW gate \in Gates, NEW n \in {2, 4}, NEW result, NEW next \in Gates,
         Rank[next] > Rank[gate], ChainGate(gate, n, result, next)
  PROVE  pc \in Gates /\ Onward
<1>1. pc = gate /\ (pc' = "returned" \/ (result = Ok /\ pc' = (IF k < n THEN gate ELSE next)))
  BY DEF ChainGate, Gate
<1>2. k' = IF k < n /\ result = Ok THEN k + 1 ELSE 1
  BY DEF ChainGate
<1> QED
  BY <1>1, <1>2 DEF Onward

(* Every step of a call takes it further. *)
LEMMA EveryGateOnward == k \in 1..4 /\ Step => pc \in Gates /\ Onward
<1> SUFFICES ASSUME k \in 1..4, Step PROVE pc \in Gates /\ Onward
  OBVIOUS
<1> USE GateNames, Ranks
<1>1. CASE QeVendorGate \/ MrenclaveGate \/ FormatsGate
  BY <1>1, PlainGateOnward DEF QeVendorGate, MrenclaveGate, FormatsGate, PlainGate
<1>2. CASE FromPemGate
  <2>1. PICK result : ChainGate("from_pem", 4, result, "parse")
    BY <1>2 DEF FromPemGate
  <2>2. "from_pem" \in Gates /\ "parse" \in Gates /\ Rank["parse"] > Rank["from_pem"]
    OBVIOUS
  <2> QED
    BY <2>1, <2>2, ChainGateOnward
<1>3. CASE ParseGate
  <2>1. PICK result : ChainGate("parse", 4, result, "validate")
    BY <1>3 DEF ParseGate
  <2>2. "parse" \in Gates /\ "validate" \in Gates /\ Rank["validate"] > Rank["parse"]
    OBVIOUS
  <2> QED
    BY <2>1, <2>2, ChainGateOnward
<1>4. CASE ValidateGate
  <2>1. PICK result : ChainGate("validate", 4, result, "signing_leaf")
    BY <1>4 DEF ValidateGate
  <2>2. "validate" \in Gates /\ "signing_leaf" \in Gates /\ Rank["signing_leaf"] > Rank["validate"]
    OBVIOUS
  <2> QED
    BY <2>1, <2>2, ChainGateOnward
<1>5. CASE SigningLeafGate
  <2>1. PICK result : ChainGate("signing_leaf", 2, result, "crl_issuer")
    BY <1>5 DEF SigningLeafGate
  <2>2. /\ "signing_leaf" \in Gates /\ "crl_issuer" \in Gates
        /\ Rank["crl_issuer"] > Rank["signing_leaf"]
    OBVIOUS
  <2> QED
    BY <2>1, <2>2, ChainGateOnward
<1>6. CASE CrlIssuerGate \/ NoneRevokedGate
  BY <1>6, PlainGateOnward DEF CrlIssuerGate, NoneRevokedGate, PlainGate
<1>7. CASE RootCrlGate \/ PckCrlGate
  BY <1>7, PlainGateOnward DEF RootCrlGate, PckCrlGate, CrlGate
<1>8. CASE TcbSignatureGate \/ TcbIdGate \/ TcbWindowGate \/ TcbRoundGate
  BY <1>8, PlainGateOnward DEF TcbSignatureGate, TcbIdGate, TcbWindowGate, TcbRoundGate, PlainGate
<1>9. CASE QeSignatureGate \/ QeWindowGate \/ QeRoundGate \/ QeIdentityGate
  BY <1>9, PlainGateOnward DEF QeSignatureGate, QeWindowGate, QeRoundGate, QeIdentityGate, PlainGate
<1>10. CASE QeReportSignatureGate \/ QeBindingGate \/ QuoteSignatureGate
  BY <1>10, PlainGateOnward DEF QeReportSignatureGate, QeBindingGate, QuoteSignatureGate, PlainGate
<1>11. CASE DebugGate \/ PlatformTcbGate
  BY <1>11, PlainGateOnward DEF DebugGate, PlatformTcbGate, PlainGate
<1>12. CASE PlatformStandingGate
  <2>1. pc = "platform_standing" /\ k' = k /\ pc' \in {"returned", "policy"}
    BY <1>12 DEF PlatformStandingGate
  <2> QED
    BY <2>1 DEF Onward
<1>13. CASE PolicyGate
  BY <1>13 DEF PolicyGate, Onward
<1> QED
  BY <1>1, <1>2, <1>3, <1>4, <1>5, <1>6, <1>7, <1>8, <1>9, <1>10, <1>11, <1>12, <1>13 DEF Step

(* Every step of a call leaves fewer of it, down to none when it returns:  *)
(* no gate waits or goes back, and the loops over the chains end.  What    *)
(* CallAnswered needs beside it is that a step is taken at all.            *)
THEOREM CallsRunOut ==
  Spec => /\ [](StepsLeft \in 0..130)
          /\ [][Step => StepsLeft' < StepsLeft]_vars
<1>1. \A g \in Gates : Rank[g] \in 1..26
  BY GateNames, Ranks
<1>2. TypeInv => pc \in Gates \cup {"idle", "returned"} /\ k \in 1..4
  BY GateNames DEF TypeInv, TypeOK
<1>3. TypeInv => StepsLeft \in 0..130
  <2> SUFFICES ASSUME TypeInv, pc \in Gates PROVE StepsLeft \in 0..130
    BY <1>2 DEF StepsLeft
  <2>1. Rank[pc] \in 1..26 /\ k \in 1..4 /\ StepsLeft = 5 * (27 - Rank[pc]) - k
    BY <1>1, <1>2, GateNames DEF StepsLeft
  <2> QED
    BY <2>1
<1>4. TypeInv /\ [Next]_vars => [Step => StepsLeft' < StepsLeft]_vars
  <2> SUFFICES ASSUME TypeInv, Step PROVE StepsLeft' < StepsLeft
    OBVIOUS
  <2>1. pc \in Gates /\ k \in 1..4 /\ Onward
    BY <1>2, EveryGateOnward
  <2>2. Rank[pc] \in 1..26 /\ StepsLeft = 5 * (27 - Rank[pc]) - k
    BY <1>1, <2>1, GateNames DEF StepsLeft
  <2>3. CASE pc' = "returned"
    <3>1. StepsLeft' = 0
      BY <2>3 DEF StepsLeft
    <3> QED
      BY <2>1, <2>2, <3>1
  <2>4. CASE pc' \in Gates /\ Rank[pc'] > Rank[pc] /\ k' \in 1..4
    <3>1. Rank[pc'] \in 1..26 /\ StepsLeft' = 5 * (27 - Rank[pc']) - k'
      BY <1>1, <2>4, GateNames DEF StepsLeft
    <3> QED
      BY <2>1, <2>2, <2>4, <3>1
  <2>5. CASE pc' = pc /\ k' = k + 1 /\ k < 4
    <3>1. StepsLeft' = 5 * (27 - Rank[pc]) - (k + 1)
      BY <2>1, <2>5, GateNames DEF StepsLeft
    <3> QED
      BY <2>1, <2>2, <3>1
  <2> QED
    BY <2>1, <2>3, <2>4, <2>5 DEF Onward
<1> QED
  BY <1>3, <1>4, TypeInit, TypeStep, PTL DEF Spec

-----------------------------------------------------------------------------
(* The verdict as a function of the call.                                  *)

(* A call that was accepted deserved to be. *)
LEMMA AcceptedIsDeserved ==
  ASSUME AcceptanceSound, verdict.kind = "accepted"
  PROVE  Deserved(request)
<1>1. /\ Promise!Acceptable(request)
      /\ Promise!HasStanding(request, verdict.standing)
      /\ \A p \in request.policy : Promise!Permits(p, verdict.standing)
  BY DEF AcceptanceSound
<1>2. PICK i \in DOMAIN request.collateral.tcbInfo.tcbLevels :
             verdict.standing = Promise!StandingOf(request.collateral.tcbInfo.tcbLevels[i])
  BY <1>1 DEF Promise!HasStanding
<1> QED
  BY <1>1, <1>2 DEF Deserved

(* A call is accepted exactly when it deserves to be: nothing but the call *)
(* itself decides, whichever entry point of the crate was used, and no     *)
(* order of the gates favours one call over another.                       *)
THEOREM AcceptedExactly ==
  Spec => [](pc = "returned" => (verdict.kind = "accepted" <=> Deserved(request)))
<1>1. AcceptanceSound /\ AcceptanceComplete
        => (pc = "returned" => (verdict.kind = "accepted" <=> Deserved(request)))
  BY AcceptedIsDeserved DEF AcceptanceComplete
<1> QED
  BY <1>1, AcceptanceIsSound, AcceptanceIsComplete, PTL

(* r is the call s under a floor that is no higher and a policy that takes *)
(* whatever that of s takes.                                               *)
LaxerCall(r, s) ==
  /\ r.quote = s.quote /\ r.collateral = s.collateral
  /\ r.currentTime = s.currentTime /\ r.expectedMrenclave = s.expectedMrenclave
  /\ Promise!Floor(r) <= Promise!Floor(s)
  /\ \A p \in r.policy : \E q \in s.policy :
       /\ q.acceptSwHardeningNeeded => p.acceptSwHardeningNeeded
       /\ q.acceptConfigurationAndSwHardeningNeeded
            => p.acceptConfigurationAndSwHardeningNeeded

(* What does not depend on floor and policy is the same for both. *)
LEMMA LaxerSame ==
  ASSUME NEW r, NEW s, LaxerCall(r, s)
  PROVE  /\ Promise!PkiSound(s) => Promise!PkiSound(r)
         /\ Promise!QuoteGenuine(s) => Promise!QuoteGenuine(r)
         /\ Promise!NowOf(r) = Promise!NowOf(s)
<1>1. /\ r.quote = s.quote /\ r.collateral = s.collateral
      /\ r.currentTime = s.currentTime /\ r.expectedMrenclave = s.expectedMrenclave
  BY DEF LaxerCall
<1>2. Promise!NowOf(r) = Promise!NowOf(s)
  BY <1>1 DEF Promise!NowOf
<1>3. Promise!Chains(r) = Promise!Chains(s)
  BY <1>1 DEF Promise!Chains, Promise!CollateralChains
<1>4. Promise!PckCa(r) = Promise!PckCa(s) /\ Promise!PckLeaf(r) = Promise!PckLeaf(s)
  BY <1>1 DEF Promise!PckCa, Promise!PckLeaf
<1>5. Promise!AllTrusted(s) => Promise!AllTrusted(r)
  <2>1. Promise!Legible(s) => Promise!Legible(r)
    BY <1>1, <1>3 DEF Promise!Legible, Promise!Measured
  <2> QED
    BY <1>2, <1>3, <2>1 DEF Promise!AllTrusted
<1>6. Promise!SignersPinned(s) => Promise!SignersPinned(r)
  BY <1>1 DEF Promise!SignersPinned
<1>7. Promise!NoneRevoked(s) => Promise!NoneRevoked(r)
  <2>1. Promise!RightCrls(s) => Promise!RightCrls(r)
    BY <1>1, <1>4 DEF Promise!RightCrls
  <2>2. Promise!CrlsCurrent(s) => Promise!CrlsCurrent(r)
    BY <1>1, <1>2 DEF Promise!CrlsCurrent
  <2>3. Promise!NoneListed(s) => Promise!NoneListed(r)
    BY <1>1, <1>3 DEF Promise!NoneListed
  <2> QED
    BY <2>1, <2>2, <2>3 DEF Promise!NoneRevoked
<1>8. Promise!PkiSound(s) => Promise!PkiSound(r)
  BY <1>4, <1>5, <1>6, <1>7 DEF Promise!PkiSound
<1>9. Promise!QuoteGenuine(s) => Promise!QuoteGenuine(r)
  BY <1>1, <1>4, <1>8
     DEF Promise!QuoteGenuine, Promise!AttestationKeyBound, Promise!QeReportGenuine
<1> QED
  BY <1>2, <1>8, <1>9

(* The documents of the stricter call are fresh for the laxer one. *)
LEMMA LaxerFresh ==
  ASSUME NEW r \in Request, NEW s \in Request, LaxerCall(r, s), NEW doc,
         doc.tcbEvaluationDataNumber \in Nat, Promise!Fresh(doc, s)
  PROVE  Promise!Fresh(doc, r)
<1>1. Promise!Floor(r) \in Nat /\ Promise!Floor(s) \in Nat
  BY FloorType
<1>2. Promise!Floor(r) <= Promise!Floor(s) /\ Promise!NowOf(r) = Promise!NowOf(s)
  BY LaxerSame DEF LaxerCall
<1>3. doc.tcbEvaluationDataNumber >= Promise!Floor(s)
  BY DEF Promise!Fresh
<1>4. doc.tcbEvaluationDataNumber >= Promise!Floor(r)
  BY <1>1, <1>2, <1>3
<1> QED
  BY <1>2, <1>4 DEF Promise!Fresh

(* And the standing is the same, and permitted. *)
LEMMA LaxerStanding ==
  ASSUME NEW r, NEW s, LaxerCall(r, s), NEW earned, Promise!HasStanding(s, earned),
         \A q \in s.policy : Promise!Permits(q, earned)
  PROVE  /\ Promise!HasStanding(r, earned)
         /\ \A p \in r.policy : Promise!Permits(p, earned)
<1>1. r.quote = s.quote /\ r.collateral = s.collateral
  BY DEF LaxerCall
<1>2. Promise!PckLeaf(r) = Promise!PckLeaf(s)
  BY <1>1 DEF Promise!PckLeaf
<1>3. Promise!SamePlatform(s) => Promise!SamePlatform(r)
  BY <1>1, <1>2 DEF Promise!SamePlatform, Promise!Has, Promise!IsLast, Promise!Entry
<1>4. \A level : Promise!Reaches(r, level) <=> Promise!Reaches(s, level)
  BY <1>2 DEF Promise!Reaches, Promise!SvnAtLeast, Promise!IsLast, Promise!Entry
<1>5. \A i : Promise!Assigned(s, i) => Promise!Assigned(r, i)
  BY <1>1, <1>4 DEF Promise!Assigned
<1>6. Promise!HasStanding(r, earned)
  BY <1>1, <1>3, <1>5 DEF Promise!HasStanding
<1>7. ASSUME NEW p \in r.policy PROVE Promise!Permits(p, earned)
  <2>1. PICK q \in s.policy :
               /\ q.acceptSwHardeningNeeded => p.acceptSwHardeningNeeded
               /\ q.acceptConfigurationAndSwHardeningNeeded
                    => p.acceptConfigurationAndSwHardeningNeeded
    BY DEF LaxerCall
  <2>2. Promise!Permits(q, earned)
    OBVIOUS
  <2> QED
    BY <2>1, <2>2 DEF Promise!Permits
<1> QED
  BY <1>6, <1>7

(* So the laxer call deserves what the stricter one does. *)
LEMMA LaxerDeserves ==
  ASSUME NEW r \in Request, NEW s \in Request, LaxerCall(r, s), Deserved(s)
  PROVE  Deserved(r)
<1>1. r.quote = s.quote /\ r.collateral = s.collateral
  BY DEF LaxerCall
<1>2. Promise!Acceptable(s)
  BY DEF Deserved
<1>3. Promise!TcbInfoGenuine(r) /\ Promise!QeIdentityGenuine(r) /\ Promise!QuoteGenuine(r)
  <2>1. Promise!TcbInfoGenuine(s) /\ Promise!QeIdentityGenuine(s) /\ Promise!QuoteGenuine(s)
    BY <1>2 DEF Promise!Acceptable
  <2> QED
    BY <1>1, <2>1, LaxerSame DEF Promise!TcbInfoGenuine, Promise!QeIdentityGenuine
<1>4. Promise!Fresh(r.collateral.tcbInfo, r) /\ Promise!Fresh(r.collateral.qeIdentity, r)
  <2>1. Promise!Fresh(s.collateral.tcbInfo, s) /\ Promise!Fresh(s.collateral.qeIdentity, s)
    BY <1>2 DEF Promise!Acceptable
  <2>2. /\ s.collateral.tcbInfo.tcbEvaluationDataNumber \in Nat
        /\ s.collateral.qeIdentity.tcbEvaluationDataNumber \in Nat
    BY RequestParts DEF TcbInfo, QeIdentity
  <2> QED
    BY <1>1, <2>1, <2>2, LaxerFresh
<1>5. Promise!ExtensionReadable(r)
  <2>1. Promise!PckLeaf(r) = Promise!PckLeaf(s)
    BY <1>1 DEF Promise!PckLeaf
  <2> QED
    BY <1>2, <2>1 DEF Promise!Acceptable, Promise!ExtensionReadable
<1>6. Promise!Acceptable(r)
  BY <1>1, <1>2, <1>3, <1>4, <1>5 DEF Promise!Acceptable
<1>7. PICK i \in DOMAIN s.collateral.tcbInfo.tcbLevels :
             LET earned == Promise!StandingOf(s.collateral.tcbInfo.tcbLevels[i])
             IN /\ Promise!HasStanding(s, earned)
                /\ \A p \in s.policy : Promise!Permits(p, earned)
  BY DEF Deserved
<1>8. PICK earned : earned = Promise!StandingOf(s.collateral.tcbInfo.tcbLevels[i])
  OBVIOUS
<1>9. Promise!HasStanding(r, earned) /\ \A p \in r.policy : Promise!Permits(p, earned)
  BY <1>7, <1>8, LaxerStanding
<1> QED
  BY <1>1, <1>6, <1>7, <1>8, <1>9 DEF Deserved

(* A call that is accepted would also be under a lower floor and under a   *)
(* policy that tolerates more, and without a policy: the floor and the     *)
(* switches of TcbPolicy only ever take acceptances away (policy.rs).      *)
THEOREM PolicyOnlyRestricts ==
  Spec => [](verdict.kind = "accepted" =>
               \A r \in Request : LaxerCall(r, request) => Deserved(r))
<1>1. TypeInv /\ AcceptanceSound
        => (verdict.kind = "accepted" =>
              \A r \in Request : LaxerCall(r, request) => Deserved(r))
  <2>1. SUFFICES ASSUME TypeInv, AcceptanceSound, verdict.kind = "accepted",
                        NEW r \in Request, LaxerCall(r, request)
                 PROVE  Deserved(r)
    OBVIOUS
  <2>2. Deserved(request)
    BY <2>1, AcceptedIsDeserved
  <2>3. request \in Request
    <3>1. verdict # Pending
      BY <2>1 DEF Pending
    <3>2. pc = "returned"
      BY <2>1, <3>1 DEF TypeInv, TypeOK
    <3> QED
      BY <2>1, <3>2, RequestThere
  <2> QED
    BY <2>1, <2>2, <2>3, LaxerDeserves
<1>2. Init => TypeInv
  BY TypeInit
<1>3. TypeInv /\ [Next]_vars => TypeInv'
  BY TypeStep
<1>4. Spec => []TypeInv
  BY <1>2, <1>3, PTL DEF Spec
<1> QED
  BY <1>1, <1>4, AcceptanceIsSound, PTL

-----------------------------------------------------------------------------
(* Quotients of the same divisor keep the order of the dividends. *)
LEMMA QuotientsInOrder ==
  ASSUME NEW n \in Nat \ {0}, NEW a \in Nat, NEW b \in Nat, a <= b
  PROVE  a \div n <= b \div n /\ a \div n \in Nat /\ b \div n \in Nat
<1>1. /\ a \div n \in Int /\ b \div n \in Int
      /\ n * (a \div n) <= a /\ a < n * (a \div n) + n
      /\ n * (b \div n) <= b /\ b < n * (b \div n) + n
  OBVIOUS
<1>2. PICK p \in Int : p = a \div n
  BY <1>1
<1>3. PICK q \in Int : q = b \div n
  BY <1>1
<1>4. ASSUME NEW i \in Int, NEW j \in Int, i < j PROVE n * i + n <= n * j
  <2>1. PICK d \in Nat : j = i + 1 + d
    <3>1. j - i - 1 \in Nat /\ j = i + 1 + (j - i - 1)
      BY <1>4
    <3> QED
      BY <3>1
  <2>2. n * j = n * i + n + n * d /\ n * d \in Nat
    BY <2>1
  <2> QED
    BY <2>2
<1>5. n * p <= a /\ a < n * p + n /\ n * q <= b /\ b < n * q + n
  BY <1>1, <1>2, <1>3
<1>6. p <= q
  <2>1. SUFFICES ASSUME q < p PROVE FALSE
    BY <1>2, <1>3
  <2>2. n * q + n <= n * p
    BY <1>4, <2>1
  <2>3. n * p \in Int /\ n * q \in Int
    OBVIOUS
  <2> QED
    BY <1>5, <2>2, <2>3
<1>7. \A i \in Int : i < 0 => n * i + n <= 0
  <2>1. n * 0 = 0
    OBVIOUS
  <2> QED
    BY <1>4, <2>1
<1>8. p >= 0 /\ q >= 0
  <2>1. n * p \in Int /\ n * q \in Int
    OBVIOUS
  <2>2. ~(p < 0) /\ ~(q < 0)
    BY <1>5, <1>7, <2>1
  <2> QED
    BY <2>2
<1> QED
  BY <1>2, <1>3, <1>6, <1>8

(* A later time is never taken for an earlier second: truncation toward    *)
(* the epoch and saturation keep the order, also across the epoch.         *)
LEMMA SecondsInOrder ==
  ASSUME NEW t \in Int, NEW u \in Int, t <= u
  PROVE  UnixSeconds(t) <= UnixSeconds(u) /\ UnixSeconds(t) \in Int /\ UnixSeconds(u) \in Int
<1>1. TicksPerSecond \in Nat \ {0} /\ MaxSeconds \in Nat
  BY ClockAssumption
<1>2. \A a \in Nat : a \div TicksPerSecond \in Nat
  BY <1>1, QuotientsInOrder
<1>3. \A a, b \in Nat : a <= b => a \div TicksPerSecond <= b \div TicksPerSecond
  BY <1>1, QuotientsInOrder
<1>4. \A i \in Nat : AtMost(i, MaxSeconds) \in Nat
  BY <1>1 DEF AtMost
<1>5. \A i, j \in Nat : i <= j => AtMost(i, MaxSeconds) <= AtMost(j, MaxSeconds)
  BY <1>1 DEF AtMost
<1>6. CASE t >= 0
  <2>1. t \in Nat /\ u \in Nat /\ u >= 0
    BY <1>6
  <2>2. /\ t \div TicksPerSecond \in Nat /\ u \div TicksPerSecond \in Nat
        /\ t \div TicksPerSecond <= u \div TicksPerSecond
    BY <1>2, <1>3, <2>1
  <2>3. /\ UnixSeconds(t) = AtMost(t \div TicksPerSecond, MaxSeconds)
        /\ UnixSeconds(u) = AtMost(u \div TicksPerSecond, MaxSeconds)
    BY <1>6, <2>1 DEF UnixSeconds
  <2> QED
    BY <1>4, <1>5, <2>2, <2>3
<1>7. CASE t < 0 /\ u >= 0
  <2>1. u \in Nat /\ -t \in Nat
    BY <1>7
  <2>2. u \div TicksPerSecond \in Nat /\ (-t) \div TicksPerSecond \in Nat
    BY <1>2, <2>1
  <2>3. /\ UnixSeconds(t) = -AtMost((-t) \div TicksPerSecond, MaxSeconds)
        /\ UnixSeconds(u) = AtMost(u \div TicksPerSecond, MaxSeconds)
    BY <1>7 DEF UnixSeconds
  <2>4. /\ AtMost((-t) \div TicksPerSecond, MaxSeconds) \in Nat
        /\ AtMost(u \div TicksPerSecond, MaxSeconds) \in Nat
    BY <1>4, <2>2
  <2> QED
    BY <2>3, <2>4
<1>8. CASE t < 0 /\ u < 0
  <2>1. -u \in Nat /\ -t \in Nat /\ -u <= -t
    BY <1>8
  <2>2. /\ (-u) \div TicksPerSecond \in Nat /\ (-t) \div TicksPerSecond \in Nat
        /\ (-u) \div TicksPerSecond <= (-t) \div TicksPerSecond
    BY <1>2, <1>3, <2>1
  <2>3. /\ UnixSeconds(t) = -AtMost((-t) \div TicksPerSecond, MaxSeconds)
        /\ UnixSeconds(u) = -AtMost((-u) \div TicksPerSecond, MaxSeconds)
    BY <1>8 DEF UnixSeconds
  <2>4. /\ AtMost((-t) \div TicksPerSecond, MaxSeconds) \in Nat
        /\ AtMost((-u) \div TicksPerSecond, MaxSeconds) \in Nat
        /\ AtMost((-u) \div TicksPerSecond, MaxSeconds)
             <= AtMost((-t) \div TicksPerSecond, MaxSeconds)
    BY <1>4, <1>5, <2>2
  <2> QED
    BY <2>3, <2>4
<1> QED
  BY <1>6, <1>7, <1>8

(* b is the call a at another time. *)
SameButTime(a, b) ==
  /\ a.quote = b.quote /\ a.collateral = b.collateral
  /\ a.expectedMrenclave = b.expectedMrenclave
  /\ a.minRound = b.minRound /\ a.policy = b.policy

(* What holds of a window at two times holds at every time between. *)
LEMMA BetweenTimes ==
  ASSUME NEW a \in Int, NEW b \in Int, NEW c \in Int, a <= b, b <= c
  PROVE  /\ \A chain \in PemChain :
              Promise!Readable(chain) /\ Promise!Trusted(chain, a) /\ Promise!Trusted(chain, c)
                => Promise!Trusted(chain, b)
         /\ \A crl \in Crl : Promise!CrlCurrent(crl, a) /\ Promise!CrlCurrent(crl, c)
                => Promise!CrlCurrent(crl, b)
<1>1. ASSUME NEW chain \in PemChain, Promise!Readable(chain),
             Promise!Trusted(chain, a), Promise!Trusted(chain, c)
      PROVE  Promise!Trusted(chain, b)
  <2>1. ASSUME NEW i \in DOMAIN chain.ders PROVE Promise!Current(chain.ders[i], b)
    <3>1. chain.ders \in Seq(Cert \cup {BadDer}) /\ chain.ders[i] # BadDer
      BY <1>1 DEF PemChain, Promise!Readable
    <3>2. chain.ders[i] \in Cert
      BY <3>1
    <3>3. chain.ders[i].notBefore \in Int /\ chain.ders[i].notAfter \in Int
      BY <3>2 DEF Cert
    <3>4. Promise!Current(chain.ders[i], a) /\ Promise!Current(chain.ders[i], c)
      BY <1>1 DEF Promise!Trusted
    <3> QED
      BY <3>3, <3>4 DEF Promise!Current
  <2> QED
    BY <1>1, <2>1 DEF Promise!Trusted
<1>2. ASSUME NEW crl \in Crl, Promise!CrlCurrent(crl, a), Promise!CrlCurrent(crl, c)
      PROVE  Promise!CrlCurrent(crl, b)
  <2>1. crl.thisUpdate \in Int /\ crl.nextUpdate \in SUBSET Int
    BY DEF Crl
  <2>2. crl.thisUpdate <= a /\ \A t \in crl.nextUpdate : c < t
    BY <1>2 DEF Promise!CrlCurrent
  <2>3. crl.thisUpdate <= b /\ \A t \in crl.nextUpdate : b < t
    BY <2>1, <2>2
  <2> QED
    BY <2>3 DEF Promise!CrlCurrent
<1> QED
  BY <1>1, <1>2

(* The certificates that may be relied on at two times may be between. *)
LEMMA PkiBetween ==
  ASSUME NEW a \in Request, NEW b \in Request, NEW c \in Request,
         SameButTime(a, b), SameButTime(c, b),
         a.currentTime <= b.currentTime, b.currentTime <= c.currentTime,
         Promise!PkiSound(a), Promise!PkiSound(c)
  PROVE  /\ Promise!PkiSound(b)
         /\ Promise!NowOf(a) <= Promise!NowOf(b) /\ Promise!NowOf(b) <= Promise!NowOf(c)
<1>1. a.currentTime \in Int /\ b.currentTime \in Int /\ c.currentTime \in Int
  BY RequestParts
<1>2. /\ Promise!NowOf(a) = UnixSeconds(a.currentTime)
      /\ Promise!NowOf(b) = UnixSeconds(b.currentTime)
      /\ Promise!NowOf(c) = UnixSeconds(c.currentTime)
  BY NowType DEF Now
<1>3. /\ Promise!NowOf(a) \in Int /\ Promise!NowOf(b) \in Int /\ Promise!NowOf(c) \in Int
      /\ Promise!NowOf(a) <= Promise!NowOf(b) /\ Promise!NowOf(b) <= Promise!NowOf(c)
  BY <1>1, <1>2, SecondsInOrder
<1>4. /\ a.quote = b.quote /\ a.collateral = b.collateral
      /\ a.expectedMrenclave = b.expectedMrenclave
      /\ c.quote = b.quote /\ c.collateral = b.collateral
  BY DEF SameButTime
<1>5. Promise!Chains(a) = Promise!Chains(b) /\ Promise!Chains(c) = Promise!Chains(b)
  BY <1>4 DEF Promise!Chains, Promise!CollateralChains
<1>6. Promise!PckCa(a) = Promise!PckCa(b) /\ Promise!PckLeaf(a) = Promise!PckLeaf(b)
  BY <1>4 DEF Promise!PckCa, Promise!PckLeaf
<1>7. /\ Promise!Legible(a) /\ Promise!SignersPinned(a) /\ Promise!RightCrls(a)
      /\ Promise!CrlsCurrent(a) /\ Promise!CrlsCurrent(c) /\ Promise!NoneListed(a)
      /\ Promise!PckCa(a).key \notin UnusableKey
      /\ \A chain \in Promise!Chains(a) : Promise!Trusted(chain, Promise!NowOf(a))
      /\ \A chain \in Promise!Chains(c) : Promise!Trusted(chain, Promise!NowOf(c))
  BY DEF Promise!PkiSound, Promise!AllTrusted, Promise!NoneRevoked
<1>8. Promise!Legible(b)
  BY <1>4, <1>5, <1>7 DEF Promise!Legible, Promise!Measured
<1>9. \A chain \in Promise!Chains(b) : chain \in PemChain /\ Promise!Readable(chain)
  <2>1. /\ b.collateral.tcbInfoIssuerChain \in PemChain
        /\ b.collateral.pckCrlIssuerChain \in PemChain
        /\ b.collateral.qeIdentityIssuerChain \in PemChain
    BY RequestParts DEF SgxCollateral
  <2>2. b.quote.certData \in PemChain
    BY RequestParts DEF SgxQuote
  <2>3. \A chain \in Promise!Chains(b) : chain \in PemChain
    BY <2>1, <2>2 DEF Promise!Chains, Promise!CollateralChains
  <2> QED
    BY <1>8, <2>3 DEF Promise!Legible
<1>10. \A chain \in Promise!Chains(b) : Promise!Trusted(chain, Promise!NowOf(b))
  BY <1>3, <1>5, <1>7, <1>9, BetweenTimes
<1>11. Promise!CrlsCurrent(b)
  <2>1. b.collateral.rootCaCrl \in Crl /\ b.collateral.pckCrl \in Crl
    BY RequestParts
  <2> QED
    BY <1>3, <1>4, <1>7, <2>1, BetweenTimes DEF Promise!CrlsCurrent
<1>12. Promise!SignersPinned(b) /\ Promise!RightCrls(b) /\ Promise!NoneListed(b)
  BY <1>4, <1>5, <1>6, <1>7 DEF Promise!SignersPinned, Promise!RightCrls, Promise!NoneListed
<1>13. Promise!PkiSound(b)
  BY <1>6, <1>7, <1>8, <1>10, <1>11, <1>12
     DEF Promise!PkiSound, Promise!AllTrusted, Promise!NoneRevoked
<1> QED
  BY <1>3, <1>13

(* The times at which a call is accepted have no gap: evidence that is     *)
(* good now and good later is good at every moment between, for all the    *)
(* windows it has to lie in and whatever the rounding of the clock.        *)
THEOREM AcceptedWithoutGap ==
  ASSUME NEW a \in Request, NEW b \in Request, NEW c \in Request,
         SameButTime(a, b), SameButTime(c, b),
         a.currentTime <= b.currentTime, b.currentTime <= c.currentTime,
         Deserved(a), Deserved(c)
  PROVE  Deserved(b)
<1>1. Promise!Acceptable(a) /\ Promise!Acceptable(c)
  BY DEF Deserved
<1>2. Promise!PkiSound(a) /\ Promise!PkiSound(c)
  BY <1>1 DEF Promise!Acceptable, Promise!TcbInfoGenuine
<1>3. /\ Promise!PkiSound(b)
      /\ Promise!NowOf(a) <= Promise!NowOf(b) /\ Promise!NowOf(b) <= Promise!NowOf(c)
  BY <1>2, PkiBetween
<1>4. /\ a.quote = b.quote /\ a.collateral = b.collateral
      /\ c.quote = b.quote /\ c.collateral = b.collateral
      /\ a.minRound = b.minRound /\ a.policy = b.policy
  BY DEF SameButTime
<1>5. Promise!PckLeaf(a) = Promise!PckLeaf(b)
  BY <1>4 DEF Promise!PckLeaf
<1>6. Promise!TcbInfoGenuine(b) /\ Promise!QeIdentityGenuine(b)
  BY <1>1, <1>3, <1>4
     DEF Promise!Acceptable, Promise!TcbInfoGenuine, Promise!QeIdentityGenuine
<1>7. Promise!QuoteGenuine(b)
  <2>1. Promise!QuoteGenuine(a)
    BY <1>1 DEF Promise!Acceptable
  <2> QED
    BY <1>3, <1>4, <1>5, <2>1
       DEF Promise!QuoteGenuine, Promise!AttestationKeyBound, Promise!QeReportGenuine
<1>8. Promise!Fresh(b.collateral.tcbInfo, b) /\ Promise!Fresh(b.collateral.qeIdentity, b)
  <2>1. Promise!Floor(a) = Promise!Floor(b)
    BY <1>4 DEF Promise!Floor
  <2>2. Promise!NowOf(a) \in Int /\ Promise!NowOf(b) \in Int /\ Promise!NowOf(c) \in Int
    BY NowType
  <2>3. ASSUME NEW doc, doc.issueDate \in Int, doc.nextUpdate \in Int,
               Promise!Fresh(doc, a), Promise!Fresh(doc, c)
        PROVE  Promise!Fresh(doc, b)
    BY <1>3, <2>1, <2>2, <2>3 DEF Promise!Fresh
  <2>4. /\ b.collateral.tcbInfo.issueDate \in Int /\ b.collateral.tcbInfo.nextUpdate \in Int
        /\ b.collateral.qeIdentity.issueDate \in Int /\ b.collateral.qeIdentity.nextUpdate \in Int
    BY RequestParts DEF TcbInfo, QeIdentity
  <2>5. /\ Promise!Fresh(b.collateral.tcbInfo, a) /\ Promise!Fresh(b.collateral.qeIdentity, a)
        /\ Promise!Fresh(b.collateral.tcbInfo, c) /\ Promise!Fresh(b.collateral.qeIdentity, c)
    BY <1>1, <1>4 DEF Promise!Acceptable
  <2> QED
    BY <2>3, <2>4, <2>5
<1>9. Promise!ExtensionReadable(b)
  BY <1>1, <1>5 DEF Promise!Acceptable, Promise!ExtensionReadable
<1>10. Promise!Acceptable(b)
  BY <1>1, <1>4, <1>6, <1>7, <1>8, <1>9 DEF Promise!Acceptable
<1>11. PICK i \in DOMAIN a.collateral.tcbInfo.tcbLevels :
              LET earned == Promise!StandingOf(a.collateral.tcbInfo.tcbLevels[i])
              IN /\ Promise!HasStanding(a, earned)
                 /\ \A p \in a.policy : Promise!Permits(p, earned)
  BY DEF Deserved
<1>12. PICK earned : earned = Promise!StandingOf(a.collateral.tcbInfo.tcbLevels[i])
  OBVIOUS
<1>13. Promise!HasStanding(b, earned)
  <2>1. Promise!HasStanding(a, earned)
    BY <1>11, <1>12
  <2>2. Promise!SamePlatform(a) => Promise!SamePlatform(b)
    BY <1>4, <1>5 DEF Promise!SamePlatform, Promise!Has, Promise!IsLast, Promise!Entry
  <2>3. \A level : Promise!Reaches(b, level) <=> Promise!Reaches(a, level)
    BY <1>5 DEF Promise!Reaches, Promise!SvnAtLeast, Promise!IsLast, Promise!Entry
  <2>4. \A j : Promise!Assigned(a, j) => Promise!Assigned(b, j)
    BY <1>4, <2>3 DEF Promise!Assigned
  <2> QED
    BY <1>4, <2>1, <2>2, <2>4 DEF Promise!HasStanding
<1> QED
  BY <1>4, <1>10, <1>11, <1>12, <1>13 DEF Deserved
=============================================================================
