-------------------------- MODULE MCAttestationWorld --------------------------
(***************************************************************************)
(* A processor platform of family 7 and a platform one of family 8, and a  *)
(* quote of the first with the certificates of the second.  In round 2     *)
(* family 7 is out of date, and so is the quoting enclave of family 8.     *)
(***************************************************************************)
EXTENDS AttestationWorld, MCDcapVerify

Pck(ca, serial, key, family, svn) ==
  [PckCert EXCEPT
    !.issuer = ca, !.serial = serial, !.key = key,
    !.signedBy = IF ca = "ProcessorCA" THEN "kProcessor" ELSE "kPlatform",
    !.sgxExtension.entries =
      <<MCEntry("fmspc", 0, family), MCEntry("pceId", 0, 0),
        MCEntry("tcb", 1, svn), MCEntry("tcb", 2, svn), MCEntry("tcb", 3, svn)>>]

PckOf7 == Pck("ProcessorCA", <<0, 5>>, "kPck", 7, 1)
PckOf8 == Pck("PlatformCA", <<5>>, "kOther", 8, 2)

QuoteBy(pck, ca, qeSvn) ==
  [MCRequest.quote EXCEPT
    !.certData = MCChain(<<pck, ca, RootCert>>),
    !.qeReport.isvSvn = qeSvn, !.qeReportSignedBy = pck.key]

QuoteOf7 == QuoteBy(PckOf7, ProcessorCert, 7)
QuoteOf8 == QuoteBy(PckOf8, PlatformCert, 6)
Misassembled == [QuoteOf7 EXCEPT !.certData = QuoteOf8.certData]

MCGenuine == {QuoteOf7, QuoteOf8}
MCQuotes == MCGenuine \cup {Misassembled}
MCFmspc == {7, 8}

MCTcbInfoOf ==
  [f \in MCFmspc |-> [n \in Round |->
    [MCTcbInfo EXCEPT !.fmspc = f, !.tcbEvaluationDataNumber = n,
      !.tcbLevels = <<MCLevel(<<n, n>>, n, "UpToDate", <<>>),
                      MCLevel(<<0, 0>>, 0, "OutOfDate", <<"SA-1">>)>>]]]

MCQeIdentityOf ==
  [n \in Round |->
    [MCQeIdentity EXCEPT !.tcbEvaluationDataNumber = n,
      !.tcbLevels = <<[isvsvn |-> 5 + n, tcbStatus |-> "UpToDate"],
                      [isvsvn |-> 5, tcbStatus |-> "OutOfDate"]>>]]

MCTcbSigningChain == MCChain(<<TcbCert, RootCert>>)
MCPckCaChain ==
  [ca \in PckCa |->
    MCChain(<<IF ca = "processor" THEN ProcessorCert ELSE PlatformCert,
                   RootCert>>)]

MCRevocable == {PckOf7, TcbCert}

(* A revocation and a TCB recovery are explored apart, the first for one   *)
(* second less; calls follow one of the two, by a clock that is right or   *)
(* behind, and ask for round 2 only when there is one, for a quote of a    *)
(* platform.                                                               *)
Explored ==
  LET revocation == \E c \in Revocable : revokedAt[c] # Never
      recovery == published["early"] > 1
  IN /\ ~(revocation /\ recovery) /\ (revocation => now < MaxNow)
     /\ pc # "idle" => /\ revocation \/ recovery
                       /\ request.currentTime <= now
                       /\ request.minRound > 1 => recovery
                       /\ recovery => request.quote # Misassembled

MCWorldSpec == WorldInit /\ [][WorldNext /\ Explored']_allVars
=============================================================================
