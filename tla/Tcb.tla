--------------------------------- MODULE Tcb ---------------------------------
(***************************************************************************)
(* dcap-verify/src/tcb.rs and policy.rs: the platform's TCB standing, the  *)
(* identity of the quoting enclave, and the caller's acceptance policy.    *)
(***************************************************************************)
EXTENDS DcapTypes

(* A level has exactly one requirement per component; each component SVN   *)
(* and the PCESVN of the platform must reach the level's.                  *)
LevelSatisfied(level, pck) ==
  /\ Len(level.sgxtcbcomponents) = NComps
  /\ \A i \in 1..NComps : pck.compSvns[i] >= level.sgxtcbcomponents[i]
  /\ pck.pcesvn >= level.pcesvn

SatisfiedLevels(info, pck) ==
  {i \in DOMAIN info.tcbLevels : LevelSatisfied(info.tcbLevels[i], pck)}

(* Intel lists levels most recent first: the first satisfied one counts.   *)
SelectedLevel(info, pck) ==
  info.tcbLevels[CHOOSE i \in SatisfiedLevels(info, pck) :
                   \A j \in SatisfiedLevels(info, pck) : i <= j]

StandingError(info, pck) ==
  IF info.fmspc = BadHex THEN "CollateralParse"
  ELSE IF info.fmspc # pck.fmspc THEN "TcbLevelUnsupported"
  ELSE IF info.pceId = BadHex THEN "CollateralParse"
  ELSE IF \/ info.pceId # pck.pceId
          \/ SatisfiedLevels(info, pck) = {}
          \/ SelectedLevel(info, pck).tcbStatus \notin AcceptableStatus
  THEN "TcbLevelUnsupported" ELSE Ok

(* The standing carries the advisories of a degraded level only. *)
PlatformStanding(info, pck) ==
  LET level == SelectedLevel(info, pck)
  IN [status |-> level.tcbStatus,
      advisoryIds |-> IF level.tcbStatus = "UpToDate" THEN <<>> ELSE level.advisoryIds]

-----------------------------------------------------------------------------
MaskedEq(actual, expected, mask) == actual \cap mask = expected \cap mask

ReachedQeLevels(identity, report) ==
  {i \in DOMAIN identity.tcbLevels : identity.tcbLevels[i].isvsvn <= report.isvSvn}

(* A variant that takes the first level reached, as the platform's does.  *)
QeLevelFirst(identity, report) ==
  identity.tcbLevels[CHOOSE i \in ReachedQeLevels(identity, report) :
                       \A j \in ReachedQeLevels(identity, report) : i <= j]

(* max_by_key: the highest isvsvn reached, the last listed of equal ones.  *)
QeLevel(identity, report) ==
  LET reached == ReachedQeLevels(identity, report)
  IN identity.tcbLevels[CHOOSE i \in reached : \A j \in reached :
       \/ identity.tcbLevels[j].isvsvn < identity.tcbLevels[i].isvsvn
       \/ identity.tcbLevels[j].isvsvn = identity.tcbLevels[i].isvsvn /\ j <= i]

CheckQeIdentity(identity, report) ==
  IF identity.id # "QE" THEN "QeIdentityMismatch"
  ELSE IF identity.mrsigner = BadHex THEN "CollateralParse"
  ELSE IF \/ identity.mrsigner # report.mrsigner
          \/ identity.isvprodid # report.isvProdId
  THEN "QeIdentityMismatch"
  ELSE IF BadHex \in {identity.miscselect, identity.miscselectMask}
  THEN "CollateralParse"
  ELSE IF ~MaskedEq(report.miscSelect, identity.miscselect, identity.miscselectMask)
  THEN "QeIdentityMismatch"
  ELSE IF BadHex \in {identity.attributes, identity.attributesMask}
  THEN "CollateralParse"
  ELSE IF \/ ~MaskedEq(report.attributes, identity.attributes, identity.attributesMask)
          \/ ReachedQeLevels(identity, report) = {}
          \/ QeLevel(identity, report).tcbStatus # "UpToDate"
  THEN "QeIdentityMismatch" ELSE Ok

-----------------------------------------------------------------------------
(* TcbPolicy::check. *)
PolicyCheck(policy, standing) ==
  IF \/ standing.status = "UpToDate"
     \/ standing.status = "SWHardeningNeeded" /\ policy.acceptSwHardeningNeeded
     \/ /\ standing.status = "ConfigurationAndSWHardeningNeeded"
        /\ policy.acceptConfigurationAndSwHardeningNeeded
  THEN Ok ELSE "TcbStandingRejected"
=============================================================================
