--------------------------- MODULE MCRecordedCases ---------------------------
(***************************************************************************)
(* Bases captured at second 10; documents of the rounds 6, 7 and 8 fetched *)
(* between seconds 11 and 13.  The recorded cases are called beside the    *)
(* calls of MCDcapVerify.                                                  *)
(***************************************************************************)
EXTENDS RecordedCases, MCDcapVerify

Advisories == <<"INTEL-SA-00289", "INTEL-SA-00615">>
MCProdStanding == [status |-> "ConfigurationAndSWHardeningNeeded", advisoryIds |-> Advisories]

Captured ==
  [MCRequest.collateral EXCEPT
    !.tcbInfo.tcbLevels[2] = MCLevel(<<2, 2>>, 4, MCProdStanding.status, Advisories)]

MCProd == [quote |-> MCRequest.quote, collateral |-> Captured, time |-> 10]
MCDebug == [MCProd EXCEPT !.quote.reportBody.attributes = {0, DebugFlag},
                          !.quote.reportBody.mrenclave = "debug"]

MCFarPast == -3

MCEval == {"19", "20", "early"}
IssuedAt == [v \in MCEval |-> CASE v = "19" -> 11 [] v = "20" -> 12 [] OTHER -> 13]
Fetched(doc, v) ==
  [doc |-> [doc EXCEPT !.issueDate = IssuedAt[v], !.nextUpdate = IssuedAt[v] + 5,
              !.tcbEvaluationDataNumber = IssuedAt[v] - 5],
   chain |-> MCChain(<<TcbCert, RootCert>>)]
MCFreshTcb == [v \in MCEval |-> Fetched(Captured.tcbInfo, v)]
MCFreshQe == [v \in MCEval |-> Fetched(Captured.qeIdentity, v)]
MCForeignTcb ==
  {[Fetched(Captured.tcbInfo, "20") EXCEPT !.doc.fmspc = f] : f \in {8, 9}}
MCQveIdentity == [Fetched(Captured.qeIdentity, "19") EXCEPT !.doc.id = "QVE"]

MCLiveRootCrl == [MCCrl("Root", "kRoot") EXCEPT !.thisUpdate = 9]
MCLivePckCrl ==
  [ca \in PckCa |-> [IF ca = "processor" THEN MCCrl("ProcessorCA", "kProcessor")
                     ELSE MCCrl("PlatformCA", "kPlatform") EXCEPT !.thisUpdate = 9]]
MCLivePckCrlChain ==
  [ca \in PckCa |->
     MCChain(<<IF ca = "processor" THEN ProcessorCert ELSE PlatformCert, RootCert>>)]

MCAllRequests == MCRequests \cup RecordedRequests
=============================================================================
