---------------------------- MODULE SignedEnvelope ----------------------------
(***************************************************************************)
(* dcap-verify/src/types/collateral.rs: the visitor that reads a signed    *)
(* document, {"tcbInfo" or "enclaveIdentity": body, "signature": hex}, key *)
(* after key.  What the signature is checked over is the text of the body; *)
(* what the verifier decides on is the body parsed from it.                *)
(***************************************************************************)
EXTENDS Integers, Sequences

CONSTANTS
  Body,       \* the texts that are a body of the type expected
  String,     \* the texts that are a string
  Envelopes   \* objects: sequences of members - a key and a text - as they come

Absent == "absent"

VARIABLES
  envelope, next,             \* the object, and the member to be read
  body_raw, signature_hex,    \* what has been found
  result

vars == <<envelope, next, body_raw, signature_hex, result>>

Init ==
  /\ envelope \in Envelopes /\ next = 1
  /\ body_raw = Absent /\ signature_hex = Absent /\ result = "reading"

Error ==
  /\ result' = "error"
  /\ UNCHANGED <<envelope, next, body_raw, signature_hex>>

Member == envelope[next]

Reading(key) ==
  result = "reading" /\ next <= Len(envelope) /\ Member.key = key

(* A variant that lets the last body win. *)
BodyKeyLast ==
  /\ Reading("body") /\ body_raw' = Member.value /\ next' = next + 1
  /\ UNCHANGED <<envelope, signature_hex, result>>

(* The body is kept as it is written; what it holds is looked at last.     *)
BodyKey ==
  /\ Reading("body")
  /\ \/ /\ body_raw = Absent /\ body_raw' = Member.value /\ next' = next + 1
        /\ UNCHANGED <<envelope, signature_hex, result>>
     \/ body_raw # Absent /\ Error

SignatureKey ==
  /\ Reading("signature")
  /\ \/ /\ signature_hex = Absent /\ Member.value \in String
        /\ signature_hex' = Member.value /\ next' = next + 1
        /\ UNCHANGED <<envelope, body_raw, result>>
     \/ ~(signature_hex = Absent /\ Member.value \in String) /\ Error

OtherKey ==
  /\ Reading("other") /\ next' = next + 1
  /\ UNCHANGED <<envelope, body_raw, signature_hex, result>>

End ==
  /\ result = "reading" /\ next > Len(envelope)
  /\ \/ /\ body_raw \in Body /\ signature_hex # Absent /\ result' = "signed"
        /\ UNCHANGED <<envelope, next, body_raw, signature_hex>>
     \/ ~(body_raw \in Body /\ signature_hex # Absent) /\ Error

Next == BodyKey \/ SignatureKey \/ OtherKey \/ End

Spec == Init /\ [][Next]_vars

-----------------------------------------------------------------------------
Members(key) == {i \in DOMAIN envelope : envelope[i].key = key}

Sole(key, text) == \E i \in Members(key) : Members(key) = {i} /\ envelope[i].value = text

(* A document is accepted exactly when it has one body of the right type   *)
(* and one signature, in any order, whatever else it has; and the body the *)
(* signature will be checked over is the only one there is, so nothing the *)
(* verifier reads can come from a member that is not signed.               *)
SignedIsRead ==
  /\ result = "signed" => Sole("body", body_raw) /\ Sole("signature", signature_hex)
                          /\ body_raw \in Body
  /\ result = "error" => ~\E b \in Body, s \in String : Sole("body", b) /\ Sole("signature", s)
=============================================================================
