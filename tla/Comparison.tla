----------------------------- MODULE Comparison -----------------------------
(***************************************************************************)
(* dcap-differ/src/pipeline.rs: one case judged by dcap-verify and by      *)
(* Intel's QVL, the bucket the pair of outcomes falls into, and the exit   *)
(* code the buckets of a run add up to.  dcap-verify, QVL and the bytes of *)
(* the case are abstracted to the outcomes.                                *)
(***************************************************************************)
EXTENDS Integers

Standing == {"UpToDate", "SWHardeningNeeded", "ConfigurationAndSWHardeningNeeded"}

(* The categories classify looks at; the others are one. *)
Category ==
  {"DebugEnclaveRejected", "CollateralParse", "TcbInfoStale", "QeIdentityStale",
   "CertOrCrlTimeInvalid", "other"}
StalenessCategories == {"TcbInfoStale", "QeIdentityStale", "CertOrCrlTimeInvalid"}

(* formatGate: the detail names a document format the crate gates on. *)
DcapOutcome ==
  [kind : {"accept"}, standing : Standing]
  \cup [kind : {"reject"}, category : Category, formatGate : BOOLEAN]
  \cup [kind : {"panic"}]

QvlResult == {"OK", "SW_HARDENING_NEEDED", "CONFIG_AND_SW_HARDENING_NEEDED", "other"}

(* expired: the expiration status is not zero.  An abort ends the harness: *)
(* a file of the case cannot be read, or QVL takes the process down.       *)
QvlOutcome ==
  [kind : {"notRun", "error", "abort"}]
  \cup [kind : {"verdict"}, expired : BOOLEAN, result : QvlResult]

-----------------------------------------------------------------------------
ResultOf ==
  [UpToDate |-> "OK", SWHardeningNeeded |-> "SW_HARDENING_NEEDED",
   ConfigurationAndSWHardeningNeeded |-> "CONFIG_AND_SW_HARDENING_NEEDED"]

QvlAccepts(qvl) == qvl.kind = "verdict" /\ qvl.result # "other"
Expired(qvl) == qvl.kind = "verdict" /\ qvl.expired

StandingMatches(qvl, standing) == qvl.result = ResultOf[standing]

(* A rejection of what QVL accepts that is a matter of policy. *)
IsKnownDelta(dcap, qvl) ==
  \/ dcap.category = "DebugEnclaveRejected"
  \/ dcap.category = "CollateralParse" /\ dcap.formatGate
  \/ dcap.category \in StalenessCategories /\ Expired(qvl)

Bucket ==
  {"agreeAccept", "agreeReject", "standingMismatch", "dangerous", "knownDelta",
   "unexplainedSafe", "dcapPanic"}

(* A variant that forgets QVL's expiration status. *)
ClassifyIgnoringExpiry(dcap, qvl) ==
  IF dcap.kind = "panic" THEN "dcapPanic"
  ELSE IF dcap.kind = "accept"
  THEN IF ~QvlAccepts(qvl) THEN "dangerous"
       ELSE IF StandingMatches(qvl, dcap.standing) THEN "agreeAccept" ELSE "standingMismatch"
  ELSE IF ~QvlAccepts(qvl) THEN "agreeReject"
  ELSE IF IsKnownDelta(dcap, qvl) THEN "knownDelta" ELSE "unexplainedSafe"

Classify(dcap, qvl) ==
  IF dcap.kind = "panic" THEN "dcapPanic"
  ELSE IF dcap.kind = "accept"
  THEN IF ~QvlAccepts(qvl) \/ Expired(qvl) THEN "dangerous"
       ELSE IF StandingMatches(qvl, dcap.standing) THEN "agreeAccept" ELSE "standingMismatch"
  ELSE IF ~QvlAccepts(qvl) THEN "agreeReject"
  ELSE IF IsKnownDelta(dcap, qvl) THEN "knownDelta" ELSE "unexplainedSafe"

-----------------------------------------------------------------------------
Counter == Bucket \cup {"dangerousKnown", "vanished"}
Tally == [Counter -> Nat]
EmptyTally == [c \in Counter |-> 0]

ExitClean == 0
ExitReview == 10
ExitFail == 20

ExitCode(tally) ==
  IF tally["dcapPanic"] > 0 \/ tally["standingMismatch"] > 0 THEN ExitFail
  ELSE IF tally["dangerous"] > 0 \/ tally["vanished"] > 0 THEN ExitReview
  ELSE ExitClean
=============================================================================
