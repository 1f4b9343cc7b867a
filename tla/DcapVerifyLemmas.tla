-------------------------- MODULE DcapVerifyLemmas --------------------------
(***************************************************************************)
(* Each check of the pipeline succeeds exactly when the fact it stands for *)
(* in the promise (module Attestation) holds.                              *)
(***************************************************************************)
EXTENDS DcapVerify, SequenceTheorems, WellFoundedInduction, TLAPS

(* A non-empty set of naturals has a least element: what FirstBadCert,     *)
(* SelectedLevel and NormalizedSerial choose exists.                       *)
LEMMA LeastNat ==
  ASSUME NEW S \in SUBSET Nat, S # {}
  PROVE  \E m \in S : \A n \in S : m <= n
<1> DEFINE Less == {p \in Nat \X Nat : p[1] < p[2]}
<1>1. IsWellFoundedOn(Less, Nat)
  BY NatLessThanWellFounded, Zenon DEF OpToRel
<1>2. PICK m \in S : \A n \in S : ~(<<n, m>> \in Less)
  <2> HIDE DEF Less
  <2> QED BY <1>1, WFMin
<1>3. \A n \in S : ~(n < m)
  BY <1>2
<1> QED
  BY <1>3

(* A non-empty set of naturals up to a bound has a greatest element: what  *)
(* LastValue and QeLevel choose exists.                                    *)
LEMMA GreatestNat ==
  ASSUME NEW bound \in Nat, NEW S \in SUBSET (0..bound), S # {}
  PROVE  \E m \in S : \A n \in S : n <= m
<1> DEFINE T == {x \in 0..bound : bound - x \in S}
<1>1. T \in SUBSET Nat /\ T # {}
  <2>1. PICK n \in S : TRUE
    OBVIOUS
  <2>2. bound - n \in T
    BY <2>1
  <2> QED
    BY <2>2
<1>2. PICK t \in T : \A u \in T : t <= u
  BY <1>1, LeastNat
<1>3. bound - t \in S
  BY <1>2
<1>4. \A n \in S : n <= bound - t
  <2> TAKE n \in S
  <2>1. bound - n \in T
    OBVIOUS
  <2>2. t <= bound - n /\ t \in 0..bound
    BY <1>2, <2>1
  <2> QED
    BY <2>2
<1> QED
  BY <1>3, <1>4

-----------------------------------------------------------------------------
(* The serial number kept of a raw one is a byte string again. *)

LeadingZeros(raw, n) ==
  /\ n \in 0..Len(raw)
  /\ \A i \in 1..n : raw[i] = 0
  /\ n < Len(raw) => raw[n + 1] # 0

(* The number of leading zero bytes that NormalizedSerial strips exists.   *)
LEMMA LeadingZerosExist ==
  ASSUME NEW raw \in Seq(Byte)
  PROVE  \E n : LeadingZeros(raw, n)
<1> DEFINE Significant == {i \in 1..Len(raw) : raw[i] # 0}
<1>1. CASE Significant = {}
  <2>1. LeadingZeros(raw, Len(raw))
    BY <1>1 DEF LeadingZeros
  <2> QED
    BY <2>1
<1>2. CASE Significant # {}
  <2>1. Significant \in SUBSET Nat
    OBVIOUS
  <2>2. PICK m \in Significant : \A n \in Significant : m <= n
    BY <1>2, <2>1, LeastNat
  <2>3. m - 1 \in 0..Len(raw) /\ (m - 1) + 1 = m /\ raw[m] # 0
    BY <2>2
  <2>4. \A i \in 1..(m - 1) : raw[i] = 0
    BY <2>2
  <2>5. LeadingZeros(raw, m - 1)
    BY <2>3, <2>4 DEF LeadingZeros
  <2> QED
    BY <2>5
<1> QED
  BY <1>1, <1>2

(* What NormalizedSerial returns, with the count of stripped bytes named.  *)
LEMMA NormalizedSerialIs ==
  ASSUME NEW raw \in Seq(Byte)
  PROVE  \E n : /\ LeadingZeros(raw, n)
                /\ NormalizedSerial(raw) =
                     IF n = Len(raw) THEN <<0>> ELSE SubSeq(raw, n + 1, Len(raw))
<1> DEFINE lead == CHOOSE n \in 0..Len(raw) :
                     /\ \A i \in 1..n : raw[i] = 0
                     /\ n < Len(raw) => raw[n + 1] # 0
<1>1. LeadingZeros(raw, lead)
  BY LeadingZerosExist DEF LeadingZeros
<1>2. NormalizedSerial(raw) =
        IF lead = Len(raw) THEN <<0>> ELSE SubSeq(raw, lead + 1, Len(raw))
  BY DEF NormalizedSerial
<1> QED
  BY <1>1, <1>2

(* Normalisation keeps byte strings byte strings. *)
LEMMA NormalizedSerialType ==
  ASSUME NEW raw \in Seq(Byte)
  PROVE  NormalizedSerial(raw) \in Seq(Byte)
<1>1. PICK n : /\ LeadingZeros(raw, n)
               /\ NormalizedSerial(raw) =
                    IF n = Len(raw) THEN <<0>> ELSE SubSeq(raw, n + 1, Len(raw))
  BY NormalizedSerialIs
<1>2. <<0>> \in Seq(Byte)
  BY DEF Byte
<1>3. SubSeq(raw, n + 1, Len(raw)) \in Seq(Byte)
  BY <1>1 DEF LeadingZeros
<1> QED
  BY <1>1, <1>2, <1>3

-----------------------------------------------------------------------------
(* Outcomes. *)

(* An error category is never mistaken for success. *)
LEMMA CategoryIsNotOk == Ok \notin ErrorCategory
  BY DEF Ok, ErrorCategory

-----------------------------------------------------------------------------
(* Serial numbers. *)

(* The digit of a raw serial at position i, counted from its end, in terms *)
(* of its n leading zeros.                                                 *)
LEMMA DigitValue ==
  ASSUME NEW raw \in Seq(Byte), NEW n, LeadingZeros(raw, n), NEW i \in Nat
  PROVE  Promise!Digit(raw, i) = IF i < Len(raw) - n THEN raw[Len(raw) - i] ELSE 0
<1>1. CASE i < Len(raw) /\ ~(i < Len(raw) - n)
  <2>1. Len(raw) - i \in 1..n
    BY <1>1 DEF LeadingZeros
  <2>2. raw[Len(raw) - i] = 0
    BY <2>1 DEF LeadingZeros
  <2> QED
    BY <1>1, <2>2 DEF Promise!Digit
<1>2. CASE ~(i < Len(raw))
  BY <1>2 DEF Promise!Digit, LeadingZeros
<1>3. CASE i < Len(raw) - n
  BY <1>3 DEF Promise!Digit, LeadingZeros
<1> QED
  BY <1>1, <1>2, <1>3

(* Two raw serials of the same number have equally many significant bytes. *)
LEMMA SameSerialSignificant ==
  ASSUME NEW a \in Seq(Byte), NEW b \in Seq(Byte), NEW m, NEW n,
         LeadingZeros(a, m), LeadingZeros(b, n), Promise!SameSerial(a, b)
  PROVE  Len(a) - m <= Len(b) - n
<1> SUFFICES ASSUME Len(b) - n < Len(a) - m PROVE FALSE
  BY DEF LeadingZeros
<1> DEFINE i == Len(a) - m - 1
<1>1. i \in 0..(Len(a) + Len(b)) /\ i < Len(a) - m /\ ~(i < Len(b) - n)
  BY DEF LeadingZeros
<1>2. Promise!Digit(a, i) = a[m + 1] /\ Promise!Digit(b, i) = 0
  <2>1. i \in Nat /\ Len(a) - i = m + 1
    BY <1>1 DEF LeadingZeros
  <2> HIDE DEF i
  <2> QED
    BY <1>1, <2>1, DigitValue
<1>3. a[m + 1] # 0
  BY <1>1 DEF LeadingZeros
<1> QED
  BY <1>1, <1>2, <1>3 DEF Promise!SameSerial

(* normalized_serial identifies exactly the raw serials of one number.     *)
THEOREM NormalizedSerialCorrect ==
  ASSUME NEW a \in Seq(Byte), NEW b \in Seq(Byte)
  PROVE  Promise!SameSerial(a, b) <=> NormalizedSerial(a) = NormalizedSerial(b)
<1>a. PICK m : /\ LeadingZeros(a, m)
               /\ NormalizedSerial(a) =
                    IF m = Len(a) THEN <<0>> ELSE SubSeq(a, m + 1, Len(a))
  BY NormalizedSerialIs
<1>b. PICK n : /\ LeadingZeros(b, n)
               /\ NormalizedSerial(b) =
                    IF n = Len(b) THEN <<0>> ELSE SubSeq(b, n + 1, Len(b))
  BY NormalizedSerialIs
<1> DEFINE sa == SubSeq(a, m + 1, Len(a))
           sb == SubSeq(b, n + 1, Len(b))
<1>c. /\ m \in 0..Len(a) /\ n \in 0..Len(b)
      /\ Len(a) \in Nat /\ Len(b) \in Nat
  BY <1>a, <1>b DEF LeadingZeros
<1>d. /\ Len(sa) = Len(a) - m /\ \A j \in 1..(Len(a) - m) : sa[j] = a[m + j]
      /\ Len(sb) = Len(b) - n /\ \A j \in 1..(Len(b) - n) : sb[j] = b[n + j]
  BY <1>c
<1>f. /\ NormalizedSerial(a) = IF m = Len(a) THEN <<0>> ELSE sa
      /\ NormalizedSerial(b) = IF n = Len(b) THEN <<0>> ELSE sb
      /\ sa \in Seq(Byte) /\ sb \in Seq(Byte)
  BY <1>a, <1>b, <1>c
<1>g. (m < Len(a) => a[m + 1] # 0) /\ (n < Len(b) => b[n + 1] # 0)
  BY <1>a, <1>b DEF LeadingZeros
<1> HIDE DEF sa, sb
<1>e. \A i \in Nat :
        /\ Promise!Digit(a, i) = IF i < Len(a) - m THEN a[Len(a) - i] ELSE 0
        /\ Promise!Digit(b, i) = IF i < Len(b) - n THEN b[Len(b) - i] ELSE 0
  BY <1>a, <1>b, DigitValue
<1>1. ASSUME Promise!SameSerial(a, b)
      PROVE  NormalizedSerial(a) = NormalizedSerial(b)
  <2>1. Promise!SameSerial(b, a)
    BY <1>1, <1>c DEF Promise!SameSerial
  <2>2. Len(a) - m = Len(b) - n
    <3>1. Len(a) - m <= Len(b) - n
      BY <1>1, <1>a, <1>b, SameSerialSignificant
    <3>2. Len(b) - n <= Len(a) - m
      BY <2>1, <1>a, <1>b, SameSerialSignificant
    <3> QED
      BY <3>1, <3>2, <1>c
  <2>3. \A j \in 1..(Len(a) - m) : sa[j] = sb[j]
    <3> TAKE j \in 1..(Len(a) - m)
    <3> DEFINE i == Len(a) - m - j
    <3>1. i \in 0..(Len(a) + Len(b)) /\ i < Len(a) - m /\ i < Len(b) - n
      BY <1>c, <2>2
    <3>2. Len(a) - i = m + j /\ Len(b) - i = n + j
      BY <1>c, <2>2
    <3>3. Promise!Digit(a, i) = Promise!Digit(b, i)
      BY <1>1, <3>1 DEF Promise!SameSerial
    <3>4. sa[j] = a[m + j] /\ sb[j] = b[n + j]
      BY <1>d, <2>2
    <3> HIDE DEF i
    <3> QED
      BY <3>1, <3>2, <3>3, <3>4, <1>e
  <2>5. sa = sb
    BY <1>d, <1>f, <2>2, <2>3, SeqEqual
  <2>6. m = Len(a) <=> n = Len(b)
    BY <1>c, <2>2
  <2> QED
    BY <1>f, <2>5, <2>6
<1>2. ASSUME NormalizedSerial(a) = NormalizedSerial(b)
      PROVE  Promise!SameSerial(a, b)
  <2>1. CASE m = Len(a) /\ n = Len(b)
    BY <2>1, <1>c, <1>e DEF Promise!SameSerial
  <2>2. CASE m # Len(a) /\ n # Len(b)
    <3>1. sa = sb
      BY <2>2, <1>2, <1>f
    <3>2. Len(a) - m = Len(b) - n
      BY <3>1, <1>d
    <3>3. \A j \in 1..(Len(a) - m) : a[m + j] = b[n + j]
      BY <3>1, <3>2, <1>d
    <3>4. ASSUME NEW i \in Nat, i < Len(a) - m
          PROVE  a[Len(a) - i] = b[Len(b) - i]
      <4>1. Len(a) - m - i \in 1..(Len(a) - m)
        BY <3>4, <1>c
      <4>2. m + (Len(a) - m - i) = Len(a) - i /\ n + (Len(a) - m - i) = Len(b) - i
        BY <3>2, <1>c
      <4> QED
        BY <4>1, <4>2, <3>3
    <3>5. \A i \in Nat : Promise!Digit(a, i) = Promise!Digit(b, i)
      BY <3>2, <3>4, <1>e
    <3> QED
      BY <3>5, <1>c DEF Promise!SameSerial
  <2>3. CASE m = Len(a) /\ n # Len(b)
    <3>a. sb = <<0>>
      BY <2>3, <1>2, <1>f
    <3>b. n < Len(b) /\ 1 \in 1..(Len(b) - n)
      BY <2>3, <1>c
    <3>c. b[n + 1] # 0
      BY <3>b, <1>g
    <3>d. sb[1] = b[n + 1]
      BY <3>b, <1>d
    <3> QED
      BY <3>a, <3>c, <3>d
  <2>4. CASE m # Len(a) /\ n = Len(b)
    <3>a. sa = <<0>>
      BY <2>4, <1>2, <1>f
    <3>b. m < Len(a) /\ 1 \in 1..(Len(a) - m)
      BY <2>4, <1>c
    <3>c. a[m + 1] # 0
      BY <3>b, <1>g
    <3>d. sa[1] = a[m + 1]
      BY <3>b, <1>d
    <3> QED
      BY <3>a, <3>c, <3>d
  <2> QED
    BY <2>1, <2>2, <2>3, <2>4
<1> QED
  BY <1>1, <1>2

-----------------------------------------------------------------------------
(* Certificate chains. *)

(* from_pem and parse succeed on exactly the readable chains. *)
LEMMA ReadableIff ==
  ASSUME NEW kind, NEW chain \in PemChain
  PROVE  FromPem(kind, chain) = Ok /\ ParseChain(kind, chain) = Ok
           <=> Promise!Readable(chain)
<1>1. ParseError(kind) # Ok
  BY DEF ParseError, Ok
<1>2. FromPem(kind, chain) = Ok
        <=> chain.bytes <= MaxChainPemLen /\ chain.decodable
              /\ Len(chain.ders) \in 1..MaxChainLen
  BY <1>1, SizeAssumption DEF FromPem, PemChain
<1>3. ParseChain(kind, chain) = Ok <=> \A i \in DOMAIN chain.ders : chain.ders[i] # BadDer
  BY <1>1 DEF ParseChain
<1> QED
  BY <1>2, <1>3 DEF Promise!Readable

(* The certificates of a readable chain. *)
LEMMA ReadableCerts ==
  ASSUME NEW chain \in PemChain, Promise!Readable(chain)
  PROVE  /\ Len(chain.ders) \in Nat \ {0}
         /\ DOMAIN chain.ders = 1..Len(chain.ders)
         /\ \A i \in 1..Len(chain.ders) : chain.ders[i] \in Cert
  BY SizeAssumption DEF PemChain, Promise!Readable

(* A chain that has a certificate failing its own checks has a first one.  *)
LEMMA FirstBadCertExists ==
  ASSUME NEW chain \in PemChain, Promise!Readable(chain), NEW now \in Int,
         \E i \in DOMAIN chain.ders :
            ~(InValidity(chain.ders[i], now) /\ P256Sha256(chain.ders[i]))
  PROVE  LET i == FirstBadCert(chain.ders, now)
         IN /\ i \in DOMAIN chain.ders
            /\ ~(InValidity(chain.ders[i], now) /\ P256Sha256(chain.ders[i]))
            /\ \A j \in 1..(i - 1) :
                 InValidity(chain.ders[j], now) /\ P256Sha256(chain.ders[j])
<1> DEFINE Good(i) == InValidity(chain.ders[i], now) /\ P256Sha256(chain.ders[i])
           Bad == {i \in 1..Len(chain.ders) : ~Good(i)}
<1>1. Bad \in SUBSET Nat /\ Bad # {}
  BY ReadableCerts
<1>2. PICK m \in Bad : \A n \in Bad : m <= n
  BY <1>1, LeastNat
<1>3. \A j \in 1..(m - 1) : Good(j)
  <2> TAKE j \in 1..(m - 1)
  <2>1. j \in 1..Len(chain.ders) /\ ~(m <= j)
    BY <1>2, ReadableCerts
  <2> QED
    BY <1>2, <2>1
<1>4. m \in DOMAIN chain.ders /\ ~Good(m)
  BY <1>2, ReadableCerts
<1> HIDE DEF Bad
<1> QED
  BY <1>3, <1>4 DEF FirstBadCert

(* The certificate checks of validate are those of the promise. *)
LEMMA CertChecks ==
  ASSUME NEW cert \in Cert, NEW now \in Int
  PROVE  /\ InValidity(cert, now) <=> Promise!Current(cert, now)
         /\ P256Sha256(cert) <=> Promise!StrongAlgorithms(cert)
         /\ MayIssue(cert) <=> Promise!CaCapable(cert)
  BY DEF Cert, InValidity, P256Sha256, MayIssue, Promise!Current,
         Promise!StrongAlgorithms, Promise!CaCapable

(* validate succeeds on exactly the trusted chains. *)
LEMMA ValidateIff ==
  ASSUME NEW chain \in PemChain, Promise!Readable(chain), NEW now \in Int
  PROVE  Validate(chain.ders, now) = Ok <=> Promise!Trusted(chain, now)
<1> DEFINE n == Len(chain.ders)
<1>0. /\ n \in Nat \ {0} /\ DOMAIN chain.ders = 1..n
      /\ \A i \in 1..n : chain.ders[i] \in Cert
  BY ReadableCerts
<1>1. \A i \in 1..n :
        LinkHolds(chain.ders, i) <=>
          Promise!IssuedBy(chain.ders[i], IF i < n THEN chain.ders[i + 1] ELSE chain.ders[i])
  BY DEF LinkHolds, Promise!IssuedBy, Parent, Usable, Verifies
<1>2. (\A i \in DOMAIN chain.ders : LinkHolds(chain.ders, i)) <=>
        /\ Promise!IssuedBy(chain.ders[n], chain.ders[n])
        /\ \A i \in 1..(n - 1) : Promise!IssuedBy(chain.ders[i], chain.ders[i + 1])
  <2> HIDE DEF n
  <2> QED BY <1>0, <1>1
<1>3. (\A i \in 2..n : MayIssue(chain.ders[i])) <=>
        \A i \in 1..(n - 1) : Promise!CaCapable(chain.ders[i + 1])
  <2>1. \A i \in 2..n : i - 1 \in 1..(n - 1) /\ (i - 1) + 1 = i /\ i \in 1..n
    BY <1>0
  <2>2. \A i \in 1..(n - 1) : i + 1 \in 2..n /\ i + 1 \in 1..n
    BY <1>0
  <2>3. \A i \in 1..n : MayIssue(chain.ders[i]) <=> Promise!CaCapable(chain.ders[i])
    BY <1>0, CertChecks
  <2> HIDE DEF n
  <2> QED BY <2>1, <2>2, <2>3
<1>4. (\A i \in DOMAIN chain.ders :
         InValidity(chain.ders[i], now) /\ P256Sha256(chain.ders[i])) <=>
        \A i \in DOMAIN chain.ders :
          Promise!Current(chain.ders[i], now) /\ Promise!StrongAlgorithms(chain.ders[i])
  BY <1>0, CertChecks
<1>5. Validate(chain.ders, now) = Ok <=>
        /\ chain.ders[n].key = RootKey
        /\ \A i \in DOMAIN chain.ders :
             InValidity(chain.ders[i], now) /\ P256Sha256(chain.ders[i])
        /\ \A i \in 2..n : MayIssue(chain.ders[i])
        /\ \A i \in DOMAIN chain.ders : LinkHolds(chain.ders, i)
  BY DEF Validate, Root, Ok
<1> QED
  BY <1>2, <1>3, <1>4, <1>5 DEF Promise!Trusted, Promise!RootOf

-----------------------------------------------------------------------------
(* Revocation lists. *)

(* check_crl accepts exactly the current CRL of the expected authority,    *)
(* signed by the expected key.                                             *)
LEMMA CheckCrlIff ==
  ASSUME NEW crl \in Crl, NEW authority, NEW key, NEW now \in Int
  PROVE  CheckCrl(crl, authority, key, now) = Ok <=>
           Promise!CrlOf(crl, authority, key) /\ Promise!CrlCurrent(crl, now)
<1>1. /\ crl.thisUpdate \in Int /\ crl.nextUpdate \in SUBSET Int
  BY DEF Crl
<1>2. Promise!CrlCurrent(crl, now) <=>
        ~(now < crl.thisUpdate \/ \E t \in crl.nextUpdate : now >= t)
  BY <1>1 DEF Promise!CrlCurrent
<1>3. CheckCrl(crl, authority, key, now) = Ok <=>
        /\ crl.decodable /\ crl.outerAlg = crl.innerAlg
        /\ crl.outerAlg = "ecdsa-with-SHA256" /\ crl.issuer = authority
        /\ ~(now < crl.thisUpdate \/ \E t \in crl.nextUpdate : now >= t)
        /\ Verifies(crl, key)
  BY DEF CheckCrl, Ok
<1> QED
  BY <1>2, <1>3 DEF Promise!CrlOf, Verifies

(* A certificate is matched against the entries of a CRL by issuer and     *)
(* number.                                                                 *)
LEMMA RevokedEntryIff ==
  ASSUME NEW crl \in Crl, NEW cert \in Cert
  PROVE  [issuer |-> cert.issuer, serial |-> NormalizedSerial(cert.serial)]
           \in RevokedEntries(crl) <=> Promise!Listed(cert, crl)
<1>1. cert.serial \in Seq(Byte) /\ \A s \in crl.revoked : s \in Seq(Byte)
  BY DEF Cert, Crl
<1>2. \A s \in crl.revoked : Promise!SameSerial(s, cert.serial) <=>
        NormalizedSerial(s) = NormalizedSerial(cert.serial)
  BY <1>1, NormalizedSerialCorrect
<1>3. \A s \in crl.revoked :
        [issuer |-> cert.issuer, serial |-> NormalizedSerial(cert.serial)]
          = [issuer |-> crl.issuer, serial |-> NormalizedSerial(s)]
        <=> crl.issuer = cert.issuer /\ NormalizedSerial(s) = NormalizedSerial(cert.serial)
  OBVIOUS
<1>4. [issuer |-> cert.issuer, serial |-> NormalizedSerial(cert.serial)]
           \in RevokedEntries(crl) <=>
        \E s \in crl.revoked :
          [issuer |-> cert.issuer, serial |-> NormalizedSerial(cert.serial)]
            = [issuer |-> crl.issuer, serial |-> NormalizedSerial(s)]
  BY DEF RevokedEntries
<1> QED
  BY <1>2, <1>3, <1>4 DEF Promise!Listed

(* The four chains of a call are those the promise speaks of. *)
LEMMA ChainsAre ==
  ASSUME NEW r
  PROVE  /\ DOMAIN ChainsOf(r) = 1..4
         /\ Promise!Chains(r) = {ChainAt(r, i) : i \in 1..4}
<1>1. DOMAIN ChainsOf(r) = 1..4
  BY DEF ChainsOf
<1>2. /\ ChainAt(r, 1) = r.collateral.tcbInfoIssuerChain
      /\ ChainAt(r, 2) = r.collateral.pckCrlIssuerChain
      /\ ChainAt(r, 3) = r.collateral.qeIdentityIssuerChain
      /\ ChainAt(r, 4) = r.quote.certData
  BY DEF ChainAt, ChainsOf
<1>3. 1..4 = {1, 2, 3, 4}
  OBVIOUS
<1> HIDE DEF ChainAt
<1> QED
  BY <1>1, <1>2, <1>3 DEF Promise!Chains, Promise!CollateralChains

(* The parts of a call have their types. *)
LEMMA RequestParts ==
  ASSUME NEW r \in Request
  PROVE  /\ r.collateral \in SgxCollateral /\ r.quote \in SgxQuote
         /\ r.collateral.rootCaCrl \in Crl /\ r.collateral.pckCrl \in Crl
         /\ r.collateral.tcbInfo \in TcbInfo
         /\ r.collateral.qeIdentity \in QeIdentity
         /\ r.quote.reportBody \in ReportBody /\ r.quote.qeReport \in ReportBody
         /\ \A i \in 1..4 : ChainAt(r, i) \in PemChain
         /\ r.minRound \in Nat /\ r.policy \in SUBSET TcbPolicy
         /\ r.currentTime \in Int
<1>1. /\ r.collateral \in SgxCollateral /\ r.quote \in SgxQuote
      /\ r.minRound \in Nat /\ r.policy \in SUBSET TcbPolicy /\ r.currentTime \in Int
  BY DEF Request
<1>2. /\ r.collateral.rootCaCrl \in Crl /\ r.collateral.pckCrl \in Crl
      /\ r.collateral.tcbInfo \in TcbInfo /\ r.collateral.qeIdentity \in QeIdentity
      /\ r.collateral.tcbInfoIssuerChain \in PemChain
      /\ r.collateral.pckCrlIssuerChain \in PemChain
      /\ r.collateral.qeIdentityIssuerChain \in PemChain
  BY <1>1 DEF SgxCollateral
<1>3. /\ r.quote.reportBody \in ReportBody /\ r.quote.qeReport \in ReportBody
      /\ r.quote.certData \in PemChain
  BY <1>1 DEF SgxQuote
<1>4. \A i \in 1..4 : ChainAt(r, i) \in PemChain
  BY <1>2, <1>3 DEF ChainAt, ChainsOf
<1> QED
  BY <1>1, <1>2, <1>3, <1>4

(* The time of a call, in whole seconds. *)
LEMMA NowType ==
  ASSUME NEW r \in Request
  PROVE  Now(r) \in Int /\ Now(r) = Promise!NowOf(r)
<1>1. r.currentTime \in Int
  BY RequestParts
<1>2. TicksPerSecond \in Nat \ {0} /\ MaxSeconds \in Nat \ {0}
  BY ClockAssumption
<1>3. \A t \in Int : t \div TicksPerSecond \in Int
  BY <1>2
<1>4. UnixSeconds(r.currentTime) \in Int
  BY <1>1, <1>2, <1>3 DEF UnixSeconds, AtMost
<1>5. Promise!UnixSeconds(r.currentTime) = UnixSeconds(r.currentTime)
  BY DEF UnixSeconds, Promise!UnixSeconds, AtMost, Promise!AtMost
<1> QED
  BY <1>4, <1>5 DEF Now, Promise!NowOf

(* ensure_none_revoked over the entries of both CRLs covers every          *)
(* certificate of every chain.                                             *)
LEMMA NoneRevokedIff ==
  ASSUME NEW r \in Request, \A i \in 1..4 : Promise!Readable(ChainAt(r, i))
  PROVE  EnsureNoneRevoked(ChainsOf(r), RevokedEntries(r.collateral.rootCaCrl)
                                          \cup RevokedEntries(r.collateral.pckCrl)) = Ok
           <=> Promise!NoneListed(r)
<1> DEFINE entries == RevokedEntries(r.collateral.rootCaCrl)
                        \cup RevokedEntries(r.collateral.pckCrl)
           Entry(cert) == [issuer |-> cert.issuer, serial |-> NormalizedSerial(cert.serial)]
<1>1. \A k1 \in 1..4 : \A i \in DOMAIN ChainAt(r, k1).ders :
        ChainAt(r, k1).ders[i] \in Cert
  BY RequestParts, ReadableCerts
<1>2. \A cert \in Cert : Entry(cert) \in entries <=>
        \/ Promise!Listed(cert, r.collateral.rootCaCrl)
        \/ Promise!Listed(cert, r.collateral.pckCrl)
  BY RequestParts, RevokedEntryIff
<1>3. EnsureNoneRevoked(ChainsOf(r), entries) = Ok <=>
        \A k1 \in 1..4 : \A i \in DOMAIN ChainAt(r, k1).ders :
          Entry(ChainAt(r, k1).ders[i]) \notin entries
  <2> HIDE DEF entries
  <2> QED BY ChainsAre DEF EnsureNoneRevoked, Ok, ChainAt
<1>4. Promise!NoneListed(r) <=>
        \A k1 \in 1..4 : \A i \in DOMAIN ChainAt(r, k1).ders :
          /\ ~Promise!Listed(ChainAt(r, k1).ders[i], r.collateral.rootCaCrl)
          /\ ~Promise!Listed(ChainAt(r, k1).ders[i], r.collateral.pckCrl)
  BY ChainsAre DEF Promise!NoneListed
<1> HIDE DEF entries, Entry
<1>5. EnsureNoneRevoked(ChainsOf(r), entries) = Ok <=> Promise!NoneListed(r)
  BY <1>1, <1>2, <1>3, <1>4
<1> QED
  BY <1>5 DEF entries

-----------------------------------------------------------------------------
(* The quoting enclave. *)

(* Among the QE levels reached there is one max_by_key selects. *)
LEMMA QeLevelExists ==
  ASSUME NEW id \in QeIdentity, NEW qe \in ReportBody, ReachedQeLevels(id, qe) # {}
  PROVE  \E i \in ReachedQeLevels(id, qe) :
           /\ Promise!TopQeLevel(id, qe, i)
           /\ QeLevel(id, qe) = id.tcbLevels[i]
<1> DEFINE reached == ReachedQeLevels(id, qe)
           svn(i) == id.tcbLevels[i].isvsvn
<1>1. /\ DOMAIN id.tcbLevels = 1..Len(id.tcbLevels) /\ Len(id.tcbLevels) \in Nat
      /\ \A i \in 1..Len(id.tcbLevels) : svn(i) \in Nat
      /\ qe.isvSvn \in Nat
  <2>1. id.tcbLevels \in Seq([isvsvn : Nat, tcbStatus : STRING]) /\ qe.isvSvn \in Nat
    BY DEF QeIdentity, ReportBody
  <2>2. /\ DOMAIN id.tcbLevels = 1..Len(id.tcbLevels) /\ Len(id.tcbLevels) \in Nat
        /\ \A i \in 1..Len(id.tcbLevels) :
             id.tcbLevels[i] \in [isvsvn : Nat, tcbStatus : STRING]
    BY <2>1, LenProperties, ElementOfSeq
  <2> QED
    BY <2>1, <2>2
<1>2. reached = {i \in 1..Len(id.tcbLevels) : svn(i) <= qe.isvSvn}
  BY <1>1 DEF ReachedQeLevels
<1> HIDE DEF reached
<1>3. PICK top \in {n \in 0..qe.isvSvn : \E i \in reached : svn(i) = n} :
        \A n \in {n \in 0..qe.isvSvn : \E i \in reached : svn(i) = n} : n <= top
  <2> DEFINE Svns == {n \in 0..qe.isvSvn : \E i \in reached : svn(i) = n}
  <2>1. PICK i \in reached : TRUE
    BY DEF reached
  <2>2. svn(i) \in Svns
    BY <1>1, <1>2
  <2>3. Svns \in SUBSET (0..qe.isvSvn) /\ Svns # {}
    BY <2>2
  <2> HIDE DEF Svns
  <2>4. \E m \in Svns : \A n \in Svns : n <= m
    BY <2>3, <1>1, GreatestNat
  <2> QED
    BY <2>4 DEF Svns
<1>4. \A j \in reached : svn(j) <= top
  BY <1>1, <1>2, <1>3
<1>5. PICK last \in {i \in reached : svn(i) = top} :
        \A i \in {i \in reached : svn(i) = top} : i <= last
  <2> DEFINE Tops == {i \in reached : svn(i) = top}
  <2>1. Tops # {}
    BY <1>3
  <2>2. Tops \in SUBSET (0..Len(id.tcbLevels))
    BY <1>1, <1>2
  <2> HIDE DEF Tops
  <2>3. \E m \in Tops : \A n \in Tops : n <= m
    BY <2>1, <2>2, <1>1, GreatestNat
  <2> QED
    BY <2>3 DEF Tops
<1> DEFINE Best(i) == \A j \in reached : svn(j) < svn(i) \/ (svn(j) = svn(i) /\ j <= i)
<1>6. last \in reached /\ Best(last)
  <2>1. last \in reached /\ svn(last) = top /\ top \in Nat
    BY <1>1, <1>5
  <2>2. \A j \in reached : svn(j) < top \/ (svn(j) = top /\ j <= last)
    BY <1>1, <1>2, <1>4, <1>5, <2>1
  <2> QED
    BY <2>1, <2>2
<1>7. PICK i \in reached : Best(i) /\ QeLevel(id, qe) = id.tcbLevels[i]
  <2>1. QeLevel(id, qe) = id.tcbLevels[CHOOSE i \in reached : Best(i)]
    BY DEF QeLevel, reached
  <2> HIDE DEF Best
  <2> QED
    BY <1>6, <2>1
<1>8. Promise!TopQeLevel(id, qe, i)
  BY <1>1, <1>2, <1>7 DEF Promise!TopQeLevel
<1> QED
  BY <1>7, <1>8 DEF reached

(* The level max_by_key selects is the only one of its kind. *)
LEMMA TopQeLevelUnique ==
  ASSUME NEW id \in QeIdentity, NEW qe \in ReportBody,
         NEW i \in DOMAIN id.tcbLevels, NEW j \in DOMAIN id.tcbLevels,
         Promise!TopQeLevel(id, qe, i), Promise!TopQeLevel(id, qe, j)
  PROVE  i = j
<1>1. /\ DOMAIN id.tcbLevels = 1..Len(id.tcbLevels) /\ Len(id.tcbLevels) \in Nat
      /\ id.tcbLevels[i].isvsvn \in Nat /\ id.tcbLevels[j].isvsvn \in Nat
  <2>1. id.tcbLevels \in Seq([isvsvn : Nat, tcbStatus : STRING])
    BY DEF QeIdentity
  <2>2. DOMAIN id.tcbLevels = 1..Len(id.tcbLevels) /\ Len(id.tcbLevels) \in Nat
    BY <2>1, LenProperties
  <2>3. /\ id.tcbLevels[i] \in [isvsvn : Nat, tcbStatus : STRING]
        /\ id.tcbLevels[j] \in [isvsvn : Nat, tcbStatus : STRING]
    BY <2>1, <2>2, ElementOfSeq
  <2> QED
    BY <2>2, <2>3
<1>2. id.tcbLevels[i].isvsvn = id.tcbLevels[j].isvsvn
  BY <1>1 DEF Promise!TopQeLevel
<1>3. i <= j /\ j <= i
  BY <1>2 DEF Promise!TopQeLevel
<1> QED
  BY <1>1, <1>3

(* check_qe_identity accepts exactly the recognised quoting enclaves, when *)
(* every hex field of the identity can be decoded.                         *)
LEMMA CheckQeIdentityIff ==
  ASSUME NEW id \in QeIdentity, NEW qe \in ReportBody
  PROVE  CheckQeIdentity(id, qe) = Ok <=>
           /\ Promise!QeRecognised(id, qe)
           /\ BadHex \notin {id.mrsigner, id.miscselect, id.miscselectMask,
                             id.attributes, id.attributesMask}
<1>1. \A a, e, m : MaskedEq(a, e, m) <=> Promise!AgreeUnder(a, e, m)
  BY DEF MaskedEq, Promise!AgreeUnder
<1>2. ReachedQeLevels(id, qe) # {} /\ QeLevel(id, qe).tcbStatus = "UpToDate" <=>
        \E i \in DOMAIN id.tcbLevels :
          Promise!TopQeLevel(id, qe, i) /\ id.tcbLevels[i].tcbStatus = "UpToDate"
  <2>1. ASSUME ReachedQeLevels(id, qe) # {}, QeLevel(id, qe).tcbStatus = "UpToDate"
        PROVE  \E i \in DOMAIN id.tcbLevels :
                 Promise!TopQeLevel(id, qe, i) /\ id.tcbLevels[i].tcbStatus = "UpToDate"
    BY <2>1, QeLevelExists DEF ReachedQeLevels
  <2>2. ASSUME NEW i \in DOMAIN id.tcbLevels,
               Promise!TopQeLevel(id, qe, i), id.tcbLevels[i].tcbStatus = "UpToDate"
        PROVE  ReachedQeLevels(id, qe) # {} /\ QeLevel(id, qe).tcbStatus = "UpToDate"
    <3>1. i \in ReachedQeLevels(id, qe)
      BY <2>2 DEF ReachedQeLevels, Promise!TopQeLevel
    <3>2. PICK j \in ReachedQeLevels(id, qe) :
            Promise!TopQeLevel(id, qe, j) /\ QeLevel(id, qe) = id.tcbLevels[j]
      BY <3>1, QeLevelExists
    <3>3. i = j
      BY <2>2, <3>2, TopQeLevelUnique DEF ReachedQeLevels
    <3> QED
      BY <2>2, <3>1, <3>2, <3>3
  <2> QED
    BY <2>1, <2>2
<1>3. CheckQeIdentity(id, qe) = Ok <=>
        /\ id.id = "QE" /\ id.mrsigner = qe.mrsigner /\ id.isvprodid = qe.isvProdId
        /\ MaskedEq(qe.miscSelect, id.miscselect, id.miscselectMask)
        /\ MaskedEq(qe.attributes, id.attributes, id.attributesMask)
        /\ ReachedQeLevels(id, qe) # {} /\ QeLevel(id, qe).tcbStatus = "UpToDate"
        /\ BadHex \notin {id.mrsigner, id.miscselect, id.miscselectMask,
                          id.attributes, id.attributesMask}
  BY DEF CheckQeIdentity, Ok
<1> QED
  BY <1>1, <1>2, <1>3 DEF Promise!QeRecognised

-----------------------------------------------------------------------------
(* The platform TCB. *)

(* A field with an entry has a last one, and its value is what is read.    *)
LEMMA LastValueIs ==
  ASSUME NEW cert \in Cert, NEW f, EntriesOf(cert.sgxExtension, f) # {}
  PROVE  \E n \in EntriesOf(cert.sgxExtension, f) :
           /\ \A m \in EntriesOf(cert.sgxExtension, f) : m <= n
           /\ LastValue(cert.sgxExtension, f) = cert.sgxExtension.entries[n].value
<1> DEFINE ext == cert.sgxExtension
           S == EntriesOf(ext, f)
           EntryType == [field : {"fmspc", "pceId", "tcb", "other"}, index : Nat,
                         value : Nat \cup {BadValue}]
<1>1. ext.entries \in Seq(EntryType)
  <2>1. ext \in [decodable : BOOLEAN, entries : Seq(EntryType)]
    BY DEF Cert
  <2> HIDE DEF EntryType, ext
  <2> QED BY <2>1
<1> HIDE DEF EntryType
<1>2. DOMAIN ext.entries = 1..Len(ext.entries) /\ Len(ext.entries) \in Nat
  BY <1>1, LenProperties
<1>3. S \in SUBSET (0..Len(ext.entries)) /\ S # {}
  BY <1>2 DEF EntriesOf
<1> HIDE DEF S
<1>4. \E n \in S : \A m \in S : m <= n
  BY <1>2, <1>3, GreatestNat
<1>5. LastValue(ext, f) = ext.entries[CHOOSE n \in S : \A m \in S : m <= n].value
  BY DEF LastValue, S
<1>6. \E n \in S : (\A m \in S : m <= n) /\ LastValue(ext, f) = ext.entries[n].value
  BY <1>4, <1>5
<1> QED
  BY <1>6 DEF S

(* The extension is read without error exactly when every field is there   *)
(* and well formed.                                                        *)
LEMMA ExtensionIff ==
  ASSUME NEW r
  PROVE  ExtensionError(Leaf(PckCerts(r))) = Ok <=> Promise!ExtensionReadable(r)
<1> DEFINE ext == Leaf(PckCerts(r)).sgxExtension
<1>1. Promise!PckLeaf(r).sgxExtension = ext
  BY DEF Promise!PckLeaf, Promise!LeafOf, Leaf, PckCerts
<1> HIDE DEF ext
<1>2. ExtensionError(Leaf(PckCerts(r))) = Ok <=>
        /\ ext.decodable
        /\ \A f \in FieldsRead : /\ EntriesOf(ext, f) # {}
                                 /\ \A n \in EntriesOf(ext, f) : ext.entries[n].value # BadValue
  BY DEF ExtensionError, Ok, ext
<1>3. \A f, i : EntriesOf(ext, <<f, i>>) # {} <=>
        \E n \in DOMAIN ext.entries : ext.entries[n].field = f /\ ext.entries[n].index = i
  BY DEF EntriesOf
<1>4. \A n \in DOMAIN ext.entries :
        <<ext.entries[n].field, ext.entries[n].index>> \in FieldsRead <=>
          Promise!ReadField(ext.entries[n].field, ext.entries[n].index)
  BY DEF FieldsRead, PcesvnIndex, Promise!ReadField
<1>5. (\A f \in FieldsRead : \A n \in EntriesOf(ext, f) : ext.entries[n].value # BadValue) <=>
        \A n \in DOMAIN ext.entries :
          Promise!ReadField(ext.entries[n].field, ext.entries[n].index)
            => ext.entries[n].value # BadValue
  BY <1>4 DEF EntriesOf
<1>6. (\A f \in FieldsRead : EntriesOf(ext, f) # {}) <=>
        /\ EntriesOf(ext, <<"fmspc", 0>>) # {} /\ EntriesOf(ext, <<"pceId", 0>>) # {}
        /\ \A i \in 1..(NComps + 1) : EntriesOf(ext, <<"tcb", i>>) # {}
  BY DEF FieldsRead, PcesvnIndex
<1>7. ExtensionError(Leaf(PckCerts(r))) = Ok <=>
        /\ ext.decodable
        /\ EntriesOf(ext, <<"fmspc", 0>>) # {} /\ EntriesOf(ext, <<"pceId", 0>>) # {}
        /\ \A i \in 1..(NComps + 1) : EntriesOf(ext, <<"tcb", i>>) # {}
        /\ \A n \in DOMAIN ext.entries :
             Promise!ReadField(ext.entries[n].field, ext.entries[n].index)
               => ext.entries[n].value # BadValue
  BY <1>2, <1>5, <1>6
<1> DEFINE Present(f, i) ==
             \E n \in DOMAIN ext.entries : ext.entries[n].field = f /\ ext.entries[n].index = i
<1>8. Promise!ExtensionReadable(r) <=>
        /\ ext.decodable
        /\ Present("fmspc", 0) /\ Present("pceId", 0)
        /\ \A i \in 1..(NComps + 1) : Present("tcb", i)
        /\ \A n \in DOMAIN ext.entries :
             Promise!ReadField(ext.entries[n].field, ext.entries[n].index)
               => ext.entries[n].value # BadValue
  BY <1>1 DEF Promise!ExtensionReadable
<1>9. \A f, i : Present(f, i) <=> EntriesOf(ext, <<f, i>>) # {}
  BY <1>3
<1> HIDE DEF Present
<1> QED
  BY <1>7, <1>8, <1>9

(* What extract_pck_platform_tcb reads is what the platform has. *)
LEMMA ExtractIs ==
  ASSUME NEW r, Leaf(PckCerts(r)) \in Cert, Promise!ExtensionReadable(r)
  PROVE  LET pck == ExtractPckPlatformTcb(Leaf(PckCerts(r)))
         IN /\ Promise!Has(r, "fmspc", 0, pck.fmspc)
            /\ Promise!Has(r, "pceId", 0, pck.pceId)
            /\ \A i \in 1..NComps : \A svn :
                 Promise!SvnAtLeast(r, i, svn) <=> pck.compSvns[i] >= svn
            /\ \A svn : Promise!SvnAtLeast(r, NComps + 1, svn) <=> pck.pcesvn >= svn
<1> DEFINE ext == Leaf(PckCerts(r)).sgxExtension
           pck == ExtractPckPlatformTcb(Leaf(PckCerts(r)))
<1>1. Promise!PckLeaf(r).sgxExtension = ext
  BY DEF Promise!PckLeaf, Promise!LeafOf, Leaf, PckCerts
<1>2. \A f \in FieldsRead : EntriesOf(ext, f) # {}
  BY ExtensionIff DEF ExtensionError, Ok
<1>3. /\ <<"fmspc", 0>> \in FieldsRead /\ <<"pceId", 0>> \in FieldsRead
      /\ \A i \in 1..(NComps + 1) : <<"tcb", i>> \in FieldsRead
  BY DEF FieldsRead, PcesvnIndex
<1>4. ASSUME NEW f, NEW i, <<f, i>> \in FieldsRead
      PROVE  \E n \in DOMAIN ext.entries :
               /\ Promise!IsLast(r, f, i, n)
               /\ LastValue(ext, <<f, i>>) = Promise!Entry(r, n).value
               /\ \A m \in DOMAIN ext.entries : Promise!IsLast(r, f, i, m) => m = n
  <2>1. PICK n \in EntriesOf(ext, <<f, i>>) :
          /\ \A m \in EntriesOf(ext, <<f, i>>) : m <= n
          /\ LastValue(ext, <<f, i>>) = ext.entries[n].value
    BY <1>2, <1>4, LastValueIs
  <2>2. DOMAIN ext.entries \subseteq Nat
    <3> DEFINE EntryType == [field : {"fmspc", "pceId", "tcb", "other"}, index : Nat,
                             value : Nat \cup {BadValue}]
    <3>1. ext \in [decodable : BOOLEAN, entries : Seq(EntryType)]
      BY DEF Cert
    <3> HIDE DEF EntryType, ext
    <3>2. DOMAIN ext.entries = 1..Len(ext.entries) /\ Len(ext.entries) \in Nat
      BY <3>1, LenProperties
    <3> QED
      BY <3>2
  <2>3. \A m : m \in EntriesOf(ext, <<f, i>>) <=>
          /\ m \in DOMAIN ext.entries
          /\ ext.entries[m].field = f /\ ext.entries[m].index = i
    BY DEF EntriesOf
  <2> HIDE DEF ext
  <2>4. \A m \in DOMAIN ext.entries : Promise!IsLast(r, f, i, m) <=>
          /\ m \in EntriesOf(ext, <<f, i>>)
          /\ \A l \in EntriesOf(ext, <<f, i>>) : l <= m
    BY <1>1, <2>3 DEF Promise!IsLast, Promise!Entry
  <2>5. \A m \in DOMAIN ext.entries : Promise!IsLast(r, f, i, m) => m = n
    BY <2>1, <2>2, <2>3, <2>4
  <2>6. n \in DOMAIN ext.entries /\ Promise!IsLast(r, f, i, n)
    BY <2>1, <2>3, <2>4
  <2> QED
    BY <1>1, <2>1, <2>5, <2>6 DEF Promise!Entry
<1>5. /\ pck.fmspc = LastValue(ext, <<"fmspc", 0>>)
      /\ pck.pceId = LastValue(ext, <<"pceId", 0>>)
      /\ \A i \in 1..NComps : pck.compSvns[i] = LastValue(ext, <<"tcb", i>>)
      /\ pck.pcesvn = LastValue(ext, <<"tcb", NComps + 1>>)
  BY DEF ExtractPckPlatformTcb, PcesvnIndex
<1> HIDE DEF ext, pck
<1>6. \A f, i : <<f, i>> \in FieldsRead => Promise!Has(r, f, i, LastValue(ext, <<f, i>>))
  BY <1>1, <1>4 DEF Promise!Has
<1>7. \A i, svn : <<"tcb", i>> \in FieldsRead =>
        (Promise!SvnAtLeast(r, i, svn) <=> LastValue(ext, <<"tcb", i>>) >= svn)
  BY <1>1, <1>4 DEF Promise!SvnAtLeast
<1>8. /\ \A i \in 1..NComps : i \in 1..(NComps + 1)
      /\ NComps + 1 \in 1..(NComps + 1)
  BY SizeAssumption
<1> QED
  BY <1>3, <1>5, <1>6, <1>7, <1>8 DEF pck

(* A level is satisfied exactly when the platform reaches it. *)
LEMMA LevelSatisfiedIff ==
  ASSUME NEW r, Leaf(PckCerts(r)) \in Cert, Promise!ExtensionReadable(r), NEW level
  PROVE  LevelSatisfied(level, ExtractPckPlatformTcb(Leaf(PckCerts(r))))
           <=> Promise!Reaches(r, level)
  BY ExtractIs DEF LevelSatisfied, Promise!Reaches

(* The levels of a TCB info. *)
LEMMA TcbLevels ==
  ASSUME NEW info \in TcbInfo
  PROVE  /\ DOMAIN info.tcbLevels = 1..Len(info.tcbLevels) /\ Len(info.tcbLevels) \in Nat
         /\ \A i \in DOMAIN info.tcbLevels : info.tcbLevels[i] \in TcbLevel
<1>1. info.tcbLevels \in Seq(TcbLevel)
  <2> HIDE DEF TcbLevel
  <2> QED BY DEF TcbInfo
<1> QED
  BY <1>1, LenProperties, ElementOfSeq

(* Among the satisfied levels there is a first one. *)
LEMMA SelectedLevelIs ==
  ASSUME NEW info \in TcbInfo, NEW pck, SatisfiedLevels(info, pck) # {}
  PROVE  \E i \in DOMAIN info.tcbLevels :
           /\ LevelSatisfied(info.tcbLevels[i], pck)
           /\ \A j \in 1..(i - 1) : ~LevelSatisfied(info.tcbLevels[j], pck)
           /\ SelectedLevel(info, pck) = info.tcbLevels[i]
<1> DEFINE S == SatisfiedLevels(info, pck)
<1>1. DOMAIN info.tcbLevels = 1..Len(info.tcbLevels) /\ Len(info.tcbLevels) \in Nat
  BY TcbLevels
<1>2. \A i : i \in S <=> i \in 1..Len(info.tcbLevels) /\ LevelSatisfied(info.tcbLevels[i], pck)
  BY <1>1 DEF SatisfiedLevels
<1> HIDE DEF S
<1>3. S \in SUBSET Nat /\ S # {}
  BY <1>1, <1>2 DEF S
<1>4. \E m \in S : \A n \in S : m <= n
  BY <1>3, LeastNat
<1>5. PICK i \in S : (\A j \in S : i <= j) /\ SelectedLevel(info, pck) = info.tcbLevels[i]
  BY <1>4 DEF SelectedLevel, S
<1>6. \A j \in 1..(i - 1) : ~LevelSatisfied(info.tcbLevels[j], pck)
  <2> TAKE j \in 1..(i - 1)
  <2>1. j \in 1..Len(info.tcbLevels) /\ ~(i <= j)
    BY <1>1, <1>2, <1>5
  <2> QED
    BY <1>2, <1>5, <2>1
<1> QED
  BY <1>1, <1>2, <1>5, <1>6

(* A platform without an error has an acceptable standing of its type. *)
LEMMA PlatformStandingType ==
  ASSUME NEW info \in TcbInfo, NEW pck, StandingError(info, pck) = Ok
  PROVE  PlatformStanding(info, pck) \in TcbStanding
<1>1. SatisfiedLevels(info, pck) # {} /\ SelectedLevel(info, pck).tcbStatus \in AcceptableStatus
  BY DEF StandingError, Ok
<1>2. SelectedLevel(info, pck) \in TcbLevel
  BY <1>1, SelectedLevelIs, TcbLevels
<1>3. SelectedLevel(info, pck).advisoryIds \in Seq(STRING)
  BY <1>2 DEF TcbLevel
<1>4. << >> \in Seq(STRING)
  OBVIOUS
<1> QED
  BY <1>1, <1>3, <1>4 DEF PlatformStanding, TcbStanding

(* platform_standing gives the platform the standing of the first level it *)
(* reaches, and only under a document that is about this platform.         *)
LEMMA PlatformStandingIs ==
  ASSUME NEW r \in Request, Leaf(PckCerts(r)) \in Cert, Promise!ExtensionReadable(r),
         StandingError(r.collateral.tcbInfo, ExtractPckPlatformTcb(Leaf(PckCerts(r)))) = Ok
  PROVE  /\ Promise!HasStanding(r, PlatformStanding(r.collateral.tcbInfo,
                                      ExtractPckPlatformTcb(Leaf(PckCerts(r)))))
         /\ r.collateral.tcbInfo.fmspc # BadHex /\ r.collateral.tcbInfo.pceId # BadHex
<1> DEFINE info == r.collateral.tcbInfo
           pck == ExtractPckPlatformTcb(Leaf(PckCerts(r)))
<1>1. info \in TcbInfo
  BY RequestParts
<1>2. /\ info.fmspc # BadHex /\ info.pceId # BadHex
      /\ info.fmspc = pck.fmspc /\ info.pceId = pck.pceId
      /\ SatisfiedLevels(info, pck) # {}
      /\ SelectedLevel(info, pck).tcbStatus \in AcceptableStatus
  BY DEF StandingError, Ok
<1>3. Promise!SamePlatform(r)
  BY <1>2, ExtractIs DEF Promise!SamePlatform
<1>4. \A level : LevelSatisfied(level, pck) <=> Promise!Reaches(r, level)
  BY LevelSatisfiedIff
<1> HIDE DEF pck
<1>5. PICK i \in DOMAIN info.tcbLevels :
        /\ LevelSatisfied(info.tcbLevels[i], pck)
        /\ \A j \in 1..(i - 1) : ~LevelSatisfied(info.tcbLevels[j], pck)
        /\ SelectedLevel(info, pck) = info.tcbLevels[i]
  BY <1>1, <1>2, SelectedLevelIs
<1>6. Promise!Assigned(r, i)
  BY <1>4, <1>5 DEF Promise!Assigned
<1>7. /\ PlatformStanding(info, pck) = Promise!StandingOf(info.tcbLevels[i])
      /\ PlatformStanding(info, pck).status \in Promise!AcceptableStatus
  BY <1>2, <1>5 DEF PlatformStanding, Promise!StandingOf, AcceptableStatus, Promise!AcceptableStatus
<1>8. Promise!HasStanding(r, PlatformStanding(info, pck))
  BY <1>3, <1>5, <1>6, <1>7 DEF Promise!HasStanding
<1> QED
  BY <1>2, <1>8 DEF pck

(* TcbPolicy::check accepts exactly the standings the policy permits. *)
LEMMA PolicyCheckIff ==
  ASSUME NEW policy, NEW s \in TcbStanding
  PROVE  PolicyCheck(policy, s) = Ok <=> Promise!Permits(policy, s)
<1>1. s.status \in AcceptableStatus
  BY DEF TcbStanding
<1> QED
  BY <1>1 DEF PolicyCheck, Promise!Permits, AcceptableStatus, Ok

-----------------------------------------------------------------------------
(* The remaining gates. *)

(* A check passes exactly when what it checks holds. *)
LEMMA CheckThatIff ==
  ASSUME NEW holds \in BOOLEAN, NEW category \in ErrorCategory
  PROVE  CheckThat(holds, category) = Ok <=> holds
  BY CategoryIsNotOk DEF CheckThat

(* check_document_formats passes exactly when all versions are known. *)
LEMMA FormatsIff ==
  ASSUME NEW c
  PROVE  CheckDocumentFormats(c) = Ok <=> Promise!FormatsKnown(c)
  BY DEF CheckDocumentFormats, CheckThat, Ok, Promise!FormatsKnown

(* A document whose issuer chain passes was signed for TCB signing. *)
LEMMA SigningLeafPinned ==
  ASSUME NEW chain, RequireTcbSigningLeaf(chain.ders) = Ok
  PROVE  Promise!SignsTcb(chain)
  BY DEF RequireTcbSigningLeaf, CheckThat, Ok, Leaf, Promise!SignsTcb, Promise!LeafOf

(* A document signature passes exactly when the chain's leaf key is usable *)
(* and signed the document.                                                *)
LEMMA DocumentSignatureIff ==
  ASSUME NEW chain, NEW doc, NEW category \in ErrorCategory
  PROVE  DocumentSignature(chain.ders, doc, category) = Ok <=> Promise!SignedByLeaf(doc, chain)
<1>1. "RootCaUntrusted" # Ok /\ category # Ok
  BY CategoryIsNotOk DEF Ok
<1> QED
  BY <1>1 DEF DocumentSignature, CheckThat, Usable, Verifies, Leaf,
              Promise!SignedByLeaf, Promise!LeafOf

(* The floor of a call is a number of rounds. *)
LEMMA FloorType ==
  ASSUME NEW r \in Request
  PROVE  Floor(r) \in Nat /\ Promise!Floor(r) = Floor(r)
<1>1. r.minRound \in Nat /\ r.policy \in SUBSET TcbPolicy
  BY RequestParts
<1>2. r.policy # {} => (CHOOSE p \in r.policy : TRUE) \in TcbPolicy
  BY <1>1
<1>3. \A p \in TcbPolicy : p.minTcbEvaluationDataNumber \in Nat
  BY DEF TcbPolicy
<1> QED
  BY <1>1, <1>2, <1>3 DEF Floor, Promise!Floor

(* A document passes the window and the round check exactly when it is     *)
(* fresh for the call.                                                     *)
LEMMA FreshIff ==
  ASSUME NEW r \in Request, NEW doc, doc.issueDate \in Int, doc.nextUpdate \in Int,
         doc.tcbEvaluationDataNumber \in Nat, NEW category \in ErrorCategory
  PROVE  /\ CheckValidityWindow(doc, Now(r), category) = Ok
         /\ CheckEvaluationRound(doc, Floor(r), category) = Ok
         <=> Promise!Fresh(doc, r)
<1>1. CheckValidityWindow(doc, Now(r), category) = Ok <=>
        doc.issueDate <= Now(r) /\ Now(r) < doc.nextUpdate
  <2>1. Now(r) \in Int
    BY NowType
  <2> HIDE DEF Now
  <2> QED
    BY <2>1, CategoryIsNotOk DEF CheckValidityWindow, CheckThat
<1>2. CheckEvaluationRound(doc, Floor(r), category) = Ok <=>
        doc.tcbEvaluationDataNumber >= Floor(r)
  BY FloorType, CategoryIsNotOk DEF CheckEvaluationRound, CheckThat
<1> QED
  BY <1>1, <1>2, NowType, FloorType DEF Promise!Fresh

(* The PCK CRL passes exactly when it is the CRL of the PCK issuer under   *)
(* the key of the CRL issuer chain's leaf, and current.                    *)
LEMMA PckCrlIff ==
  ASSUME NEW r \in Request
  PROVE  CheckPckCrl(r) = Ok <=>
           /\ Promise!PckCa(r).key \notin UnusableKey
           /\ Promise!CrlOf(r.collateral.pckCrl, Promise!PckLeaf(r).issuer, Promise!PckCa(r).key)
           /\ Promise!CrlCurrent(r.collateral.pckCrl, Now(r))
<1>1. /\ Leaf(CrlCerts(r)) = Promise!PckCa(r) /\ Leaf(PckCerts(r)) = Promise!PckLeaf(r)
  BY DEF Leaf, CrlCerts, PckCerts, Promise!PckCa, Promise!PckLeaf, Promise!LeafOf
<1>2. "RootCaUntrusted" # Ok
  BY DEF Ok
<1>3. r.collateral.pckCrl \in Crl /\ Now(r) \in Int
  BY RequestParts, NowType
<1> QED
  BY <1>1, <1>2, <1>3, CheckCrlIff DEF CheckPckCrl, Usable

(* The QE report passes exactly when the PCK leaf key signed it. *)
LEMMA QeReportSignatureIff ==
  ASSUME NEW r
  PROVE  QeReportSignature(r) = Ok <=>
           /\ Promise!PckLeaf(r).key \notin UnusableKey
           /\ r.quote.qeReportSignedBy = Promise!PckLeaf(r).key
  BY DEF QeReportSignature, CheckThat, Ok, Usable, Leaf, PckCerts,
         Promise!PckLeaf, Promise!LeafOf

(* The binding passes exactly when the QE report data is the hash of       *)
(* attestation key and auth data, zero padded.                             *)
LEMMA QeBindingIff ==
  ASSUME NEW r \in Request
  PROVE  QeBinding(r.quote) = Ok <=>
           r.quote.qeReport.reportData =
             [head |-> <<r.quote.attestationPubKey, r.quote.qeAuthData>>, tailIsZero |-> TRUE]
<1>1. r.quote.qeReport.reportData \in [head : Key \X STRING, tailIsZero : BOOLEAN]
  BY RequestParts DEF ReportBody
<1> DEFINE data == r.quote.qeReport.reportData
           head == <<r.quote.attestationPubKey, r.quote.qeAuthData>>
<1>2. QeBinding(r.quote) = Ok <=> data.head = head /\ data.tailIsZero
  BY DEF QeBinding, CheckThat, Ok
<1>3. data = [head |-> data.head, tailIsZero |-> data.tailIsZero] /\ data.tailIsZero \in BOOLEAN
  BY <1>1
<1> HIDE DEF data, head
<1>4. data = [head |-> head, tailIsZero |-> TRUE] <=> data.head = head /\ data.tailIsZero
  BY <1>3
<1> QED
  BY <1>2, <1>4 DEF data, head

(* The quote passes exactly when the attestation key is usable and signed  *)
(* it.                                                                     *)
LEMMA QuoteSignatureIff ==
  ASSUME NEW q
  PROVE  QuoteSignature(q) = Ok <=>
           q.attestationPubKey \notin UnusableKey /\ q.isvSignedBy = q.attestationPubKey
  BY DEF QuoteSignature, CheckThat, Ok, Usable
=============================================================================
