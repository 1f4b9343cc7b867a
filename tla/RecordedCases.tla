---------------------------- MODULE RecordedCases ----------------------------
(***************************************************************************)
(* The cases the repository keeps verdicts for - the captured and derived  *)
(* fixtures, and the recombinations of genuine documents - each with the   *)
(* verdict its generator records, as calls the two harnesses make: the     *)
(* fixture test with the pins of meta.json (tests/fixtures.rs), and the    *)
(* differ with the quote's own measurement and no floor (run_dcap).        *)
(* Boundary cases have no recorded verdict, and a case that does not parse *)
(* is rejected before there is a call.                                     *)
(***************************************************************************)
EXTENDS DcapVerify

CONSTANTS
  Prod, Debug,        \* the captured bases: quote, collateral, time
  ProdStanding,       \* the standing recorded for prod-1
  FarPast, FarFuture, \* outside every certificate's validity
  Eval,               \* evaluation rounds and tracks fetched afresh
  BaseEval,           \* the round of the captured collateral
  FreshTcb, FreshQe,  \* by Eval: the document and its issuer chain
  Early,              \* a track whose tcbInfo is of a later round
  ForeignTcb,         \* genuine tcbInfo responses of other families
  QveIdentity,
  LiveRootCrl,
  LivePckCrl, LivePckCrlChain    \* by CA

-----------------------------------------------------------------------------
(* A case pins nothing but the quote's own measurement unless it says so.  *)
(* unpinned is the verdict without the pins.                               *)
Case(base, expected) ==
  [quote |-> base.quote, collateral |-> base.collateral, time |-> base.time,
   mrenclave |-> base.quote.reportBody.mrenclave, minRound |-> 0,
   expected |-> expected, unpinned |-> expected]

OnProd == Case(Prod, Ok)
OnDebug == Case(Debug, "DebugEnclaveRejected")
Reject(c, category) == [c EXCEPT !.expected = category, !.unpinned = category]
PinReject(c, category) == [c EXCEPT !.expected = category]

(* A document whose signature does not cover it any more. *)
Tampered(doc) == [doc EXCEPT !.issueDate = @ + 1, !.signedBy = NoKey]

(* derive_fixtures.py *)
DerivedCases ==
  {OnProd, OnDebug,
   Reject([OnDebug EXCEPT !.quote.qeVendorId = "other"], "QeVendorInvalid"),
   Reject([OnDebug EXCEPT !.quote.isvSignedBy = NoKey], "QuoteSignatureInvalid"),
   Reject([OnDebug EXCEPT !.quote.attestationPubKey = CHOOSE k2 \in UnusableKey : TRUE],
          "QeBindingInvalid"),
   Reject([OnDebug EXCEPT !.quote.qeReportSignedBy = NoKey], "QeReportSignatureInvalid"),
   Reject([OnDebug EXCEPT !.quote.qeAuthData = "other"], "QeBindingInvalid"),
   Reject([OnDebug EXCEPT !.quote.reportBody.attributes = @ \ {DebugFlag},
                          !.quote.isvSignedBy = NoKey], "QuoteSignatureInvalid"),
   Reject([OnDebug EXCEPT !.collateral.tcbInfo = Tampered(@)], "TcbInfoSignatureInvalid"),
   Reject([OnDebug EXCEPT !.collateral.qeIdentity = Tampered(@)],
          "QeIdentitySignatureInvalid"),
   PinReject([OnDebug EXCEPT !.mrenclave = "other"], "MrenclaveMismatch"),
   Reject([OnDebug EXCEPT !.time = FarFuture], "CertOrCrlTimeInvalid"),
   Reject([OnDebug EXCEPT !.time = FarPast], "CertOrCrlTimeInvalid"),
   PinReject([OnProd EXCEPT !.mrenclave = "other"], "MrenclaveMismatch"),
   Reject([OnProd EXCEPT !.time = FarFuture], "CertOrCrlTimeInvalid"),
   PinReject([OnProd EXCEPT !.minRound =
                Prod.collateral.tcbInfo.tcbEvaluationDataNumber + 1], "TcbInfoStale")}

(* capture_wrong_fmspc.py and capture_stale_qe_evaluation.py splice a      *)
(* fetched tcbInfo over the captured one, under its chain.                 *)
Spliced(doc) == [OnProd EXCEPT !.collateral.tcbInfo = doc, !.time = doc.issueDate + 1]

WrongFmspcCases == {Reject(Spliced(t.doc), "TcbLevelUnsupported") : t \in ForeignTcb}

StaleQeCase ==
  PinReject([Spliced(FreshTcb[Early].doc) EXCEPT
    !.minRound = Prod.collateral.qeIdentity.tcbEvaluationDataNumber + 1], "QeIdentityStale")

-----------------------------------------------------------------------------
(* build_recombination_corpus.py splices documents fetched at once into    *)
(* the captured collateral; the CRLs are the live ones throughout.         *)
Later(s, t) == IF s > t THEN s ELSE t

Live(c) ==
  [c EXCEPT !.collateral.rootCaCrl = LiveRootCrl,
            !.collateral.pckCrl = LivePckCrl["processor"],
            !.collateral.pckCrlIssuerChain = LivePckCrlChain["processor"]]

WithTcb(c, t) ==
  [c EXCEPT !.collateral.tcbInfo = t.doc, !.collateral.tcbInfoIssuerChain = t.chain,
            !.time = t.doc.issueDate + 1]
WithQe(c, q) ==
  [c EXCEPT !.collateral.qeIdentity = q.doc, !.collateral.qeIdentityIssuerChain = q.chain,
            !.time = q.doc.issueDate + 1]
WithBoth(c, t, q) ==
  [WithQe(WithTcb(c, t), q) EXCEPT !.time = Later(t.doc.issueDate, q.doc.issueDate) + 1]

(* The rounds asked for by number rather than by track. *)
Numbered == Eval \ {Early}

FamilyA ==
  {WithTcb(Live(OnProd), FreshTcb[v]) : v \in Eval}
  \cup {WithQe(Live(OnProd), FreshQe[v]) : v \in Eval}
  \cup {WithBoth(Live(OnProd), FreshTcb[v], FreshQe[v]) : v \in Eval}
  \cup {WithTcb(Live(OnDebug), FreshTcb[v]) : v \in Numbered}

FamilyB ==
  {Reject(WithTcb(Live(OnProd), t), "TcbLevelUnsupported") : t \in ForeignTcb}
  \cup {WithTcb(Live(OnDebug), t) : t \in ForeignTcb}

(* The families below are verified when the fresh base round is an hour old. *)
TimeNow == FreshTcb[BaseEval].doc.issueDate + 1
LiveNow == [Live(OnProd) EXCEPT !.time = TimeNow]

(* The CRL of the sibling CA, its issuer chain, or both. *)
FamilyC ==
  {Reject([LiveNow EXCEPT !.collateral.pckCrl = LivePckCrl[ca],
                          !.collateral.pckCrlIssuerChain = LivePckCrlChain[chain]],
          "CrlInvalid") :
     <<ca, chain>> \in (PckCa \X PckCa) \ {<<"processor", "processor">>}}

(* Genuine documents in each other's slots. *)
FamilyD ==
  {Reject([LiveNow EXCEPT !.collateral.qeIdentity = QveIdentity.doc,
                          !.collateral.qeIdentityIssuerChain = QveIdentity.chain],
          "QeIdentityMismatch"),
   Reject([LiveNow EXCEPT !.collateral.rootCaCrl = Prod.collateral.pckCrl,
                          !.collateral.pckCrl = Prod.collateral.rootCaCrl], "CrlInvalid")}

(* Issuer chains exchanged, cut, reversed, and with the root repeated. *)
LeafOnly(chain) == [chain EXCEPT !.ders = <<@[1]>>]
RootTwice(chain) == [chain EXCEPT !.ders = Append(@, @[Len(@)])]
Reversed(chain) == [chain EXCEPT !.ders = <<@[2], @[1]>>]

FamilyE ==
  {Reject([LiveNow EXCEPT !.collateral.tcbInfoIssuerChain =
             Prod.collateral.pckCrlIssuerChain], "RootCaUntrusted"),
   Reject([LiveNow EXCEPT !.collateral.tcbInfoIssuerChain = LeafOnly(@)], "RootCaUntrusted"),
   [LiveNow EXCEPT !.collateral.tcbInfoIssuerChain = RootTwice(@)],
   Reject([LiveNow EXCEPT !.collateral.tcbInfoIssuerChain = Reversed(@)], "RootCaUntrusted"),
   Reject([LiveNow EXCEPT !.collateral.qeIdentityIssuerChain = LeafOnly(@)],
          "RootCaUntrusted"),
   [LiveNow EXCEPT !.collateral.pckCrlIssuerChain = RootTwice(@)]}

(* Every round's tcbInfo at one time, with the captured QE identity. *)
FamilyG ==
  LET t == CHOOSE s \in {FreshTcb[v].doc.issueDate : v \in Numbered} :
             \A v \in Numbered : FreshTcb[v].doc.issueDate <= s
  IN {[WithTcb(Live(OnProd), FreshTcb[v]) EXCEPT !.time = t + 1] : v \in Numbered}

Recorded ==
  DerivedCases \cup WrongFmspcCases \cup {StaleQeCase}
  \cup FamilyA \cup FamilyB \cup FamilyC \cup FamilyD \cup FamilyE \cup FamilyG

-----------------------------------------------------------------------------
Harness == {"test", "differ"}

RequestOf(c, harness) ==
  [currentTime |-> c.time * TicksPerSecond, collateral |-> c.collateral, quote |-> c.quote,
   expectedMrenclave |->
     IF harness = "test" THEN c.mrenclave ELSE c.quote.reportBody.mrenclave,
   minRound |-> IF harness = "test" THEN c.minRound ELSE 0, policy |-> {}]

RecordedRequests == {RequestOf(c, h) : c \in Recorded, h \in Harness}

(* Every recorded case gets the verdict its generator wrote down: the      *)
(* category of the first gate the mutation hits and no other, although     *)
(* most cases are derived from a base that is itself rejected later; and   *)
(* a recombination of genuine documents is accepted only with the standing *)
(* of the base.  The differ, which pins nothing, gets the same verdict but *)
(* for the cases that are about a pin.                                     *)
VerdictAsRecorded ==
  pc = "returned" =>
    \A c \in Recorded, h \in Harness :
      RequestOf(c, h) = request =>
        LET recorded == IF h = "test" THEN c.expected ELSE c.unpinned
        IN verdict = IF recorded = Ok THEN Accepted(ProdStanding, c.quote.reportBody)
                     ELSE Rejected(recorded)
=============================================================================
