------------------------------- MODULE Readers -------------------------------
(***************************************************************************)
(* The readers of the repository, each over inputs of its own: the quote   *)
(* parser, the visitor of signed documents, the bracket scans of the tools *)
(* and the scan for the change record.  They share nothing, so a behaviour *)
(* is one of them reading one input.                                       *)
(***************************************************************************)
EXTENDS QuoteParse

CONSTANTS
  Body, String, Envelopes,          \* of SignedEnvelope
  Docs,                             \* of RawScan
  Sha, Url, Note, Lines, MaxLines   \* of RecordScan

VARIABLES
  reader,
  envelope, next, body_raw, signature_hex, result,
  doc, text, scanner, stage, scanAt, open, depth, inString, escaped,
  body, scan

visitorVars == <<envelope, next, body_raw, signature_hex, result>>
scanVars == <<doc, text, scanner, stage, scanAt, open, depth, inString, escaped>>
recordVars == <<body, scan>>

Visitor == INSTANCE SignedEnvelope
Scan == INSTANCE RawScan WITH at <- scanAt
Record == INSTANCE RecordScan

(* The members of an object are a body, a signature or something else, and *)
(* what a member holds is never taken for a member that is missing.        *)
ASSUME EnvelopesAssumption ==
  /\ Envelopes \subseteq
       Seq([key : {"body", "signature", "other"}, value : STRING \ {Visitor!Absent}])
  /\ Visitor!Absent \notin Body

ASSUME LinesAssumption == Lines \subseteq Record!Line

(* The levels of the two documents are JSON, and neither they nor the      *)
(* chain before them contain the name of a member that comes after.        *)
ASSUME DocsAssumption ==
  /\ Docs \subseteq [chain : Seq(STRING), tcbLevels : Seq(STRING), qeLevels : Seq(STRING)]
  /\ \A d \in Docs :
       /\ Scan!Closed(d.tcbLevels) /\ Scan!Closed(d.qeLevels)
       /\ \A by \in Scan!Scanner : Scan!Needles(Scan!Str(d.chain), Scan!Name[by]) = {}
       /\ Scan!Needles(d.tcbLevels, "Q") = {}

-----------------------------------------------------------------------------
(* A reader that is not looked at stands before one of its inputs.         *)
QuoteParked == buffer = (CHOOSE b \in Buffers : TRUE) /\ Init
VisitorParked == envelope = (CHOOSE e \in Envelopes : TRUE) /\ Visitor!Init
ScanParked ==
  /\ doc = (CHOOSE d \in Docs : TRUE)
  /\ scanner = "tcb_info" /\ Scan!Init

ReadersInit ==
  \/ reader = "quote" /\ Init /\ VisitorParked /\ ScanParked /\ Record!Init
  \/ reader = "visitor" /\ QuoteParked /\ Visitor!Init /\ ScanParked /\ Record!Init
  \/ reader = "scan" /\ QuoteParked /\ VisitorParked /\ Scan!Init /\ Record!Init
  \/ reader = "record" /\ QuoteParked /\ VisitorParked /\ ScanParked /\ Record!Init

ReadersNext ==
  /\ UNCHANGED reader
  /\ \/ reader = "quote" /\ Next /\ UNCHANGED <<visitorVars, scanVars, recordVars>>
     \/ reader = "visitor" /\ Visitor!Next /\ UNCHANGED <<vars, scanVars, recordVars>>
     \/ reader = "scan" /\ Scan!Next /\ UNCHANGED <<vars, visitorVars, recordVars>>
     \/ reader = "record" /\ Record!Next /\ UNCHANGED <<vars, visitorVars, scanVars>>

ReadersSpec == ReadersInit /\ [][ReadersNext]_<<reader, vars, visitorVars, scanVars, recordVars>>

-----------------------------------------------------------------------------
(* The body a document is decided on is the one body it has (collateral.rs). *)
SignedIsRead == reader = "visitor" => Visitor!SignedIsRead

(* A bracket scan finds exactly the value it is for (sweep.rs and the      *)
(* corpus build).                                                          *)
ScanExact == reader = "scan" => Scan!ScanExact

(* The value of a field is what one pass over the description finds, and a *)
(* blank template above a record does not hide it (branch_flow_guard.py).  *)
ScanAgrees == reader = "record" => Record!ScanAgrees
TemplateIsHarmless == reader = "record" => Record!TemplateIsHarmless
=============================================================================
