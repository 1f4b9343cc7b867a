--------------------------------- MODULE Pki ---------------------------------
(***************************************************************************)
(* dcap-verify/src/pki.rs: chains of certificates up to the pinned root,   *)
(* certificate revocation lists, and the platform TCB read from the PCK    *)
(* certificate.  Each operator returns Ok or the category of the error     *)
(* the function returns.                                                   *)
(***************************************************************************)
EXTENDS DcapTypes

ChainKind == <<"TcbInfoIssuer", "PckCrlIssuer", "QeIdentityIssuer", "QuotePck">>

(* The four chains of a call, in the order the verifier handles them. *)
ChainsOf(r) ==
  <<r.collateral.tcbInfoIssuerChain, r.collateral.pckCrlIssuerChain,
    r.collateral.qeIdentityIssuerChain, r.quote.certData>>

ParseError(kind) ==
  IF kind = "QuotePck" THEN "QuoteParse" ELSE "CollateralParse"

FromPem(kind, chain) ==
  IF \/ chain.bytes > MaxChainPemLen
     \/ ~chain.decodable
     \/ Len(chain.ders) \notin 1..MaxChainLen
  THEN ParseError(kind) ELSE Ok

ParseChain(kind, chain) ==
  IF \E i \in DOMAIN chain.ders : chain.ders[i] = BadDer
  THEN ParseError(kind) ELSE Ok

Leaf(certs) == certs[1]
Root(certs) == certs[Len(certs)]

(* The issuing certificate of certs[i]; the last one is its own issuer. *)
Parent(certs, i) == IF i < Len(certs) THEN certs[i + 1] ELSE certs[i]

InValidity(cert, now) == ~(now < cert.notBefore \/ now >= cert.notAfter)

P256Sha256(cert) ==
  /\ cert.outerAlg = cert.innerAlg
  /\ cert.outerAlg = "ecdsa-with-SHA256"
  /\ cert.keyType = "id-ecPublicKey"
  /\ cert.curve = "prime256v1"

(* require_ca: keyUsage is enforced only where present. *)
MayIssue(cert) ==
  /\ cert.basicConstraints = "ca"
  /\ cert.keyUsage \in {"absent", "certSign"}

Usable(key) == key \notin UnusableKey

(* p256 verification of an object's signature under a decoded key. *)
Verifies(object, key) == object.signedBy = key

LinkHolds(certs, i) ==
  LET child == certs[i]
      parent == Parent(certs, i)
  IN /\ child.issuer = parent.subject
     /\ Usable(parent.key)
     /\ Verifies(child, parent.key)

(* The first certificate, leaf first, that fails its own checks decides    *)
(* the category; its validity period is looked at before its algorithms.   *)
FirstBadCert(certs, now) ==
  CHOOSE i \in DOMAIN certs :
    /\ ~(InValidity(certs[i], now) /\ P256Sha256(certs[i]))
    /\ \A j \in 1..(i - 1) : InValidity(certs[j], now) /\ P256Sha256(certs[j])

Validate(certs, now) ==
  IF Root(certs).key # RootKey THEN "RootCaUntrusted"
  ELSE IF \E i \in DOMAIN certs : ~(InValidity(certs[i], now) /\ P256Sha256(certs[i]))
  THEN IF InValidity(certs[FirstBadCert(certs, now)], now)
       THEN "RootCaUntrusted" ELSE "CertOrCrlTimeInvalid"
  ELSE IF /\ \A i \in 2..Len(certs) : MayIssue(certs[i])
          /\ \A i \in DOMAIN certs : LinkHolds(certs, i)
  THEN Ok ELSE "RootCaUntrusted"

-----------------------------------------------------------------------------
(* Revocation. *)

(* Leading zero bytes do not count; an all-zero serial is the one byte 0. *)
NormalizedSerial(raw) ==
  LET lead == CHOOSE n \in 0..Len(raw) :
                /\ \A i \in 1..n : raw[i] = 0
                /\ n < Len(raw) => raw[n + 1] # 0
  IN IF lead = Len(raw) THEN <<0>> ELSE SubSeq(raw, lead + 1, Len(raw))

(* A variant that reads an expired CRL like a current one. *)
CheckCrlUndated(crl, expectedIssuer, key, now) ==
  CASE ~crl.decodable \/ crl.issuer # expectedIssuer -> "CrlInvalid"
    [] crl.decodable /\ crl.issuer = expectedIssuer /\ now < crl.thisUpdate ->
         "CertOrCrlTimeInvalid"
    [] OTHER -> IF Verifies(crl, key) THEN Ok ELSE "CrlInvalid"

CheckCrl(crl, expectedIssuer, key, now) ==
  IF \/ ~crl.decodable
     \/ crl.outerAlg # crl.innerAlg
     \/ crl.outerAlg # "ecdsa-with-SHA256"
     \/ crl.issuer # expectedIssuer
  THEN "CrlInvalid"
  ELSE IF now < crl.thisUpdate \/ \E t \in crl.nextUpdate : now >= t
  THEN "CertOrCrlTimeInvalid"
  ELSE IF ~Verifies(crl, key) THEN "CrlInvalid"
  ELSE Ok

RevokedEntries(crl) ==
  {[issuer |-> crl.issuer, serial |-> NormalizedSerial(s)] : s \in crl.revoked}

(* A variant that looks for the serial number alone, whoever gave it. *)
EnsureNoneRevokedBySerial(chains, revoked) ==
  IF \E k \in DOMAIN chains : \E i \in DOMAIN chains[k].ders :
       \E r \in revoked : r.serial = NormalizedSerial(chains[k].ders[i].serial)
  THEN "CrlInvalid" ELSE Ok

EnsureNoneRevoked(chains, revoked) ==
  IF \E k \in DOMAIN chains : \E i \in DOMAIN chains[k].ders :
       LET cert == chains[k].ders[i]
       IN [issuer |-> cert.issuer, serial |-> NormalizedSerial(cert.serial)] \in revoked
  THEN "CrlInvalid" ELSE Ok

-----------------------------------------------------------------------------
(* The SGX extension of the PCK leaf.  Entries of the nested TCB sequence  *)
(* are listed in place with their component number; number NComps + 1 is   *)
(* the PCESVN and higher numbers are ignored.                              *)

PcesvnIndex == NComps + 1

FieldsRead ==
  {<<"fmspc", 0>>, <<"pceId", 0>>} \cup {<<"tcb", i>> : i \in 1..PcesvnIndex}

EntriesOf(ext, f) ==
  {k \in DOMAIN ext.entries : <<ext.entries[k].field, ext.entries[k].index>> = f}

(* A repeated field takes the value of its last entry. *)
LastValue(ext, f) ==
  ext.entries[CHOOSE k \in EntriesOf(ext, f) : \A j \in EntriesOf(ext, f) : j <= k].value

ExtensionError(leaf) ==
  LET ext == leaf.sgxExtension
  IN IF /\ ext.decodable
        /\ \A f \in FieldsRead :
             /\ EntriesOf(ext, f) # {}
             /\ \A k \in EntriesOf(ext, f) : ext.entries[k].value # BadValue
     THEN Ok ELSE "QuoteParse"

ExtractPckPlatformTcb(leaf) ==
  LET ext == leaf.sgxExtension
  IN [fmspc |-> LastValue(ext, <<"fmspc", 0>>),
      pceId |-> LastValue(ext, <<"pceId", 0>>),
      compSvns |-> [i \in 1..NComps |-> LastValue(ext, <<"tcb", i>>)],
      pcesvn |-> LastValue(ext, <<"tcb", PcesvnIndex>>)]

-----------------------------------------------------------------------------
(* pck_collateral_params: what a client asks Intel for, read from a quote  *)
(* nothing of which has been verified.                                     *)

PckCa == {"processor", "platform"}

PckCaCn ==
  [processor |-> "Intel SGX PCK Processor CA", platform |-> "Intel SGX PCK Platform CA"]

NamedBy(cn) == {ca \in PckCa : PckCaCn[ca] = cn}

PckParamsError(quote) ==
  LET chain == quote.certData
  IN IF \/ FromPem("QuotePck", chain) # Ok
        \/ ParseChain("QuotePck", chain) # Ok
        \/ ExtensionError(Leaf(chain.ders)) # Ok
        \/ NamedBy(CommonName[Leaf(chain.ders).issuer]) = {}
     THEN "QuoteParse" ELSE Ok

(* A variant that asks for the sibling CA's CRL. *)
PckCollateralParamsSibling(quote) ==
  LET leaf == Leaf(quote.certData.ders)
  IN [fmspc |-> ExtractPckPlatformTcb(leaf).fmspc,
      ca |-> CHOOSE ca \in PckCa : PckCaCn[ca] # CommonName[leaf.issuer]]

PckCollateralParams(quote) ==
  LET leaf == Leaf(quote.certData.ders)
  IN [fmspc |-> ExtractPckPlatformTcb(leaf).fmspc,
      ca |-> CHOOSE ca \in NamedBy(CommonName[leaf.issuer]) : TRUE]
=============================================================================
