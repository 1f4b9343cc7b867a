--------------------------- MODULE MCDifferTask ---------------------------
(***************************************************************************)
(* The task over a suite of two fixture corpora, a regenerated one that    *)
(* may be there, and two seeds.  One case of the committed corpus and two  *)
(* iterations are recorded, one of them beyond the sweep and one of        *)
(* another seed.  Outcomes differ from the recorded expectation in up to   *)
(* two places.  Beside the task, the differ is run by hand, as the README  *)
(* of the repository says: over one case with every pair of outcomes, and  *)
(* over three cases with typical ones, in any order, with a repetition,    *)
(* and with any of them recorded.                                          *)
(***************************************************************************)
EXTENDS DifferTask

HandId == {<<"corpus", "1">>, <<"corpus", "2">>, <<"corpus", "3">>}

MCCaseId ==
  HandId \cup
  {<<"oracle", "prod">>, <<"committed", "tE">>, <<"full", "tE">>, <<"A", "i0">>, <<"A", "i7">>, <<"B", "i5">>}

Prod == <<"oracle", "prod">>

MCSuite(recordedCases, full) ==
  [oracle |-> <<Prod>>, committed |-> <<<<"committed", "tE">>>>,
   full |-> <<<<"full", "tE">>>>, fullPresent |-> full,
   seed |-> "A", sweep |-> <<<<"A", "i0">>>>,
   recordedCases |-> recordedCases, recordedSweeps |-> <<<<"A", "i7">>, <<"B", "i5">>>>]

(* In the second suite a recorded case has no directory. *)
MCSuites == {MCSuite({"tE"}, FALSE), MCSuite({"tE"}, TRUE), MCSuite({"tE", "tG"}, FALSE)}

Pair(d, q) == [dcap |-> d, qvl |-> q]
Accepted == [kind |-> "accept", standing |-> "ConfigurationAndSWHardeningNeeded"]
Refused == [kind |-> "reject", category |-> "other", formatGate |-> FALSE]
Verdict(expired, result) == [kind |-> "verdict", expired |-> expired, result |-> result]

Matching == "CONFIG_AND_SW_HARDENING_NEEDED"
Agree == Pair(Accepted, Verdict(FALSE, Matching))
Dangerous == Pair(Accepted, [kind |-> "error"])

Expected ==
  [id \in MCCaseId |-> IF id \in {<<"committed", "tE">>, <<"full", "tE">>, <<"A", "i7">>, <<"B", "i5">>}
                       THEN Dangerous ELSE Agree]

Others ==
  {Agree, Dangerous, Pair(Accepted, Verdict(TRUE, Matching)),
   Pair(Accepted, Verdict(FALSE, "SW_HARDENING_NEEDED")), Pair(Refused, [kind |-> "abort"]),
   Pair(Refused, [kind |-> "notRun"])}

TaskOutcomes ==
  {[Expected EXCEPT ![i] = x, ![j] = y] : i, j \in MCCaseId \ HandId, x, y \in Others}

-----------------------------------------------------------------------------
C(n) == <<"corpus", n>>

Typical ==
  {Agree, Dangerous, Pair(Accepted, Verdict(TRUE, Matching)),
   Pair(Accepted, Verdict(FALSE, "SW_HARDENING_NEEDED")),
   Pair(Refused, Verdict(FALSE, "other")),
   Pair([Refused EXCEPT !.category = "TcbInfoStale"], Verdict(TRUE, Matching)),
   Pair([kind |-> "panic"], [kind |-> "notRun"]), Pair(Refused, [kind |-> "abort"])}

HandOutcomes ==
  {[Expected EXCEPT ![C("1")] = Pair(d, q)] : d \in DcapOutcome, q \in QvlOutcome}
  \cup {[id \in MCCaseId |-> IF id \in HandId THEN f[id] ELSE Agree] : f \in [HandId -> Typical]}

MCOutcomes == TaskOutcomes \cup HandOutcomes

MCInvocations ==
  [cases : {<<>>, <<C("1")>>, <<C("1"), C("2"), C("3")>>, <<C("3"), C("1"), C("3")>>},
   allow : SUBSET {C("1"), C("2")}]

MCInit ==
  \/ outcome \in TaskOutcomes /\ Init
  \/ /\ outcome \in HandOutcomes /\ RunInit
     /\ suite = MCSuite({"tE"}, FALSE)
     /\ calibration = [c \in Cell \ {DefaultMarshal} |-> [kind |-> "error"]]
     /\ step = "none" /\ task = "byHand" /\ legs = <<>> /\ deviations = {} /\ taskExit = NoExit

MCNext ==
  \/ task # "byHand" /\ TaskNext
  \/ task = "byHand" /\ Next /\ UNCHANGED taskVars

MCSpec == MCInit /\ [][MCNext]_vars
=============================================================================
