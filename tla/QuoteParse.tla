------------------------------ MODULE QuoteParse ------------------------------
(***************************************************************************)
(* dcap-verify/src/types/quote.rs: SgxQuote::read over a ByteReader, field *)
(* by field, and the two helpers that peek at fixed offsets.  A field is   *)
(* abstracted to where it lies; only the bytes of the fields the parser    *)
(* decides on are looked at.  Positions count from 0.                      *)
(***************************************************************************)
EXTENDS Integers, Sequences

CONSTANT Buffers  \* what a caller may hold: one quote, several, or anything else

Byte == {n \in Nat : n < 256}

ASSUME BuffersAssumption == Buffers \subseteq Seq(Byte)

(* The fields in the order they are read, with the widths that are fixed.  *)
(* The signature section is a reader of its own.                           *)
Width ==
  [version |-> 2, att_key_type |-> 2, reserved |-> 4, qe_svn |-> 2, pce_svn |-> 2,
   qe_vendor_id |-> 16, user_data |-> 20, report_body |-> 384, sig_len |-> 4,
   isv_signature |-> 64, attestation_pub_key |-> 64, qe_report |-> 384,
   qe_report_signature |-> 64, auth_len |-> 2, cert_data_type |-> 2, cert_len |-> 4]

Following ==
  [version |-> "att_key_type", att_key_type |-> "reserved", reserved |-> "qe_svn",
   qe_svn |-> "pce_svn", pce_svn |-> "qe_vendor_id", qe_vendor_id |-> "user_data",
   user_data |-> "report_body", report_body |-> "sig_len", sig_len |-> "signature",
   isv_signature |-> "attestation_pub_key", attestation_pub_key |-> "qe_report",
   qe_report |-> "qe_report_signature", qe_report_signature |-> "auth_len",
   auth_len |-> "qe_auth_data", qe_auth_data |-> "cert_data_type",
   cert_data_type |-> "cert_len", cert_len |-> "cert_data", cert_data |-> "end"]

FixedField == DOMAIN Width
Field == FixedField \cup {"signature", "qe_auth_data", "cert_data"}

VARIABLES
  buffer,    \* what the caller holds
  cursor,    \* the caller's slice starts here
  start,     \* where it started when the call began
  pc,        \* the field to be read
  pos, end,  \* the current reader: what is left of it
  at,        \* where the fields read so far lie
  outcome

vars == <<buffer, cursor, start, pc, pos, end, at, outcome>>

U16(b, p) == b[p + 1] + 256 * b[p + 2]
U32(b, p) == U16(b, p) + 65536 * U16(b, p + 2)

(* How long the field is the parser is at. *)
Length(f) ==
  CASE f = "signature" -> U32(buffer, at["sig_len"])
    [] f = "qe_auth_data" -> U16(buffer, at["auth_len"])
    [] f = "cert_data" -> U32(buffer, at["cert_len"])
    [] OTHER -> Width[f]

(* Three fields must have the one value the parser supports. *)
Supported(f) ==
  /\ f = "version" => U16(buffer, pos) = 3
  /\ f = "att_key_type" => U16(buffer, pos) = 2
  /\ f = "cert_data_type" => U16(buffer, pos) = 5

-----------------------------------------------------------------------------
Init ==
  /\ buffer \in Buffers
  /\ cursor = 0 /\ start = 0 /\ pc = "idle" /\ pos = 0 /\ end = 0
  /\ at = [f \in Field |-> 0] /\ outcome = "none"

Call ==
  /\ pc = "idle" /\ pc' = "version"
  /\ start' = cursor /\ pos' = cursor /\ end' = Len(buffer)
  /\ at' = [f \in Field |-> 0]
  /\ UNCHANGED <<buffer, cursor, outcome>>

(* An error leaves the caller's slice alone. *)
Fail ==
  /\ pc' = "returned" /\ outcome' = "rejected"
  /\ UNCHANGED <<buffer, cursor, start, pos, end, at>>

Read ==
  /\ pc \in DOMAIN Following
  /\ \/ /\ Length(pc) <= end - pos /\ Supported(pc)
        /\ at' = [at EXCEPT ![pc] = pos]
        /\ pos' = pos + Length(pc) /\ pc' = Following[pc]
        /\ UNCHANGED <<buffer, cursor, start, end, outcome>>
     \/ ~(Length(pc) <= end - pos /\ Supported(pc)) /\ Fail

(* A variant that believes the declared length. *)
EnterSignatureUnchecked ==
  /\ pc = "signature"
  /\ at' = [at EXCEPT ![pc] = pos]
  /\ end' = pos + Length(pc) /\ pc' = "isv_signature"
  /\ UNCHANGED <<buffer, cursor, start, pos, outcome>>

(* The signature section is read by a reader that ends where it does. *)
EnterSignature ==
  /\ pc = "signature"
  /\ \/ /\ Length(pc) <= end - pos
        /\ at' = [at EXCEPT ![pc] = pos]
        /\ end' = pos + Length(pc) /\ pc' = "isv_signature"
        /\ UNCHANGED <<buffer, cursor, start, pos, outcome>>
     \/ ~(Length(pc) <= end - pos) /\ Fail

(* A variant that does not look for bytes the section declares in vain. *)
FinishAnyway ==
  /\ pc = "end"
  /\ pc' = "returned" /\ outcome' = "parsed" /\ cursor' = end
  /\ UNCHANGED <<buffer, start, pos, end, at>>

(* Nothing may be left of the section; the caller's slice moves past it. *)
Finish ==
  /\ pc = "end"
  /\ \/ /\ pos = end
        /\ pc' = "returned" /\ outcome' = "parsed" /\ cursor' = end
        /\ UNCHANGED <<buffer, start, pos, end, at>>
     \/ pos # end /\ Fail

(* The caller may go on with what is left, or try again. *)
Return ==
  /\ pc = "returned" /\ pc' = "idle" /\ outcome' = "none"
  /\ UNCHANGED <<buffer, cursor, start, pos, end, at>>

Next == Call \/ Read \/ EnterSignature \/ Finish \/ Return

Spec == Init /\ [][Next]_vars

-----------------------------------------------------------------------------
(* A variant that forgets a reserved field. *)
BodyMrenclavePacked == 16 + 4 + 16 + 16

(* SgxReportBody::parse walks the report body. *)
BodyMrenclave == 16 + 4 + 12 + 16 + 16
BodyReportData == BodyMrenclave + 32 + 32 + 32 + 32 + 64 + 2 + 2 + 2 + 42 + 16

(* The peek helpers add fixed offsets, and need only the bytes up to there. *)
Nothing == -1
PeekMrenclave(b, s) == IF s + 48 + 64 + 32 <= Len(b) THEN s + 48 + 64 ELSE Nothing
PeekReportData(b, s) == IF s + 48 + 320 + 64 <= Len(b) THEN s + 48 + 320 ELSE Nothing

-----------------------------------------------------------------------------
TypeOK ==
  /\ buffer \in Buffers
  /\ pc \in Field \cup {"idle", "end", "returned"}
  /\ start \in 0..Len(buffer) /\ cursor \in start..Len(buffer)
  /\ pos \in 0..end /\ end \in 0..Len(buffer)
  /\ at \in [Field -> 0..Len(buffer)]
  /\ outcome \in {"none", "parsed", "rejected"}
  /\ (outcome = "none") = (pc # "returned")

(* The layout of a version 3 quote with an embedded PCK chain. *)
SectionLen(b, s) == U32(b, s + 432)
AuthLen(b, s) == U16(b, s + 1012)
CertType(b, s) == U16(b, s + 1014 + AuthLen(b, s))
CertLen(b, s) == U32(b, s + 1016 + AuthLen(b, s))

WellFormed(b, s) ==
  /\ s + 436 <= Len(b)
  /\ U16(b, s) = 3 /\ U16(b, s + 2) = 2
  /\ SectionLen(b, s) \in 584..(Len(b) - s - 436)
  /\ 584 + AuthLen(b, s) <= SectionLen(b, s)
  /\ CertType(b, s) = 5
  /\ CertLen(b, s) = SectionLen(b, s) - 584 - AuthLen(b, s)

(* A read succeeds exactly when a whole quote lies at the cursor, whatever *)
(* lengths its fields declare; then the caller's slice starts right after  *)
(* it and the fields that verification uses are where the layout has them. *)
(* A read that fails does not move the slice.                              *)
ReadExact ==
  pc = "returned" =>
    IF outcome = "parsed"
    THEN /\ WellFormed(buffer, start)
         /\ cursor = start + 436 + SectionLen(buffer, start)
         /\ at["isv_signature"] = start + 436 /\ at["attestation_pub_key"] = start + 500
         /\ at["qe_report"] = start + 564 /\ at["qe_report_signature"] = start + 948
         /\ at["qe_auth_data"] = start + 1014
         /\ at["cert_data"] = cursor - CertLen(buffer, start)
    ELSE ~WellFormed(buffer, start) /\ cursor = start

(* What the peek helpers borrow before anything is parsed is what the      *)
(* parser finds, for every quote that parses.                              *)
PeekAgrees ==
  pc = "returned" /\ outcome = "parsed" =>
    /\ PeekMrenclave(buffer, start) = at["report_body"] + BodyMrenclave
    /\ PeekReportData(buffer, start) = at["report_body"] + BodyReportData
=============================================================================
