------------------------ MODULE AttestationWorldProofs ------------------------
(***************************************************************************)
(* Revocations and TCB recoveries take effect in time, for all clients,    *)
(* quotes, rounds, lifetimes and clock errors.                             *)
(***************************************************************************)
EXTENDS AttestationWorld, DcapVerifyProofs

Stage == {"start", "tcb", "qe", "pckcrl", "rootcrl", "ready"}
HasTcb == stage \in {"qe", "pckcrl", "rootcrl", "ready"}
HasQe == stage \in {"pckcrl", "rootcrl", "ready"}
HasPckCrl == stage \in {"rootcrl", "ready"}

WorldTypes ==
  /\ now \in Nat /\ now <= MaxNow
  /\ published \in [Track -> Round] /\ published["standard"] <= published["early"]
  /\ promotedAt \in [Round -> Int]
  /\ \A n \in Round : n > published["standard"] => promotedAt[n] = Never
  /\ revokedAt \in [Revocable -> Int]
  /\ stage \in Stage
  /\ stage # "start" => quote \in Quotes
  /\ stage \notin {"start", "ready"} => PckParamsError(quote) = Ok
  /\ DOMAIN held = {"tcb", "qe", "pckCrl", "rootCrl"}

(* The document of round n, as it was served by second t: later rounds     *)
(* reached the standard track then or after.                               *)
ServedAt(n, t) == t <= now /\ \A m \in Round : m > n => promotedAt[m] >= t

DatedAt(doc, t) == [doc EXCEPT !.issueDate = t, !.nextUpdate = t + DocLifetime]

TcbAnswer(doc) ==
  \E f \in Fmspc, n \in Round, t \in Nat :
    /\ doc = DatedAt(TcbInfoOf[f][n], t)
    /\ ServedAt(n, t)

QeAnswer(doc) ==
  \E n \in Round, t \in Nat :
    /\ doc = DatedAt(QeIdentityOf[n], t)
    /\ ServedAt(n, t)

(* A CRL lists what its issuer had revoked before it was issued. *)
CrlAnswer(crl) ==
  /\ crl \in Crl /\ crl.thisUpdate <= now /\ crl.nextUpdate = {crl.thisUpdate + CrlLifetime}
  /\ \A c \in Revocable : c.issuer = crl.issuer /\ revokedAt[c] < crl.thisUpdate
                            => c.serial \in crl.revoked

(* Whatever the client holds was answered by Intel at some time. *)
HeldOk ==
  /\ HasTcb => DOMAIN held.tcb = {"doc", "chain"} /\ TcbAnswer(held.tcb.doc)
               /\ held.tcb.chain = TcbSigningChain
  /\ HasQe => QeAnswer(held.qe.doc) /\ held.qe.chain = TcbSigningChain
  /\ HasPckCrl => CrlAnswer(held.pckCrl.doc) /\ \E ca \in PckCa : held.pckCrl.chain = PckCaChain[ca]
  /\ stage = "ready" => CrlAnswer(held.rootCrl) /\ held.rootCrl.issuer = RootName

(* A call is made with what is in hand, by a clock that is nearly right. *)
CallOk ==
  pc # "idle" =>
    /\ stage = "ready"
    /\ \E skew \in -MaxSkew..MaxSkew, floor \in Floors : request = RequestAt(now + skew, floor)

WorldInv == WorldTypes /\ HeldOk /\ CallOk
CallInv == TypeInv /\ Evidence /\ AcceptanceSound

-----------------------------------------------------------------------------
(* What Intel answers now is an answer. *)

(* The round a track serves has been served from now on only. *)
LEMMA ServedNow ==
  ASSUME WorldTypes, NEW t \in Track
  PROVE  published[t] \in Round /\ ServedAt(published[t], now)
<1>1. /\ published[t] \in Round /\ published[t] \in Int
      /\ published["standard"] \in Int /\ published["standard"] <= published[t]
      /\ \A m \in Round : m \in Int
  BY DocumentsAssumption DEF WorldTypes, Track, Round
<1>2. \A m \in Round : m > published[t] => m > published["standard"]
  BY <1>1
<1>3. Never >= now
  BY ClientAssumption DEF WorldTypes, Never
<1> QED
  BY <1>1, <1>2, <1>3 DEF WorldTypes, ServedAt

(* A tcbInfo response is the one of its round. *)
LEMMA TcbResponseIs ==
  ASSUME WorldTypes, NEW f \in Fmspc, NEW t \in Track
  PROVE  /\ TcbAnswer(TcbResponse(f, t).doc) /\ TcbResponse(f, t).chain = TcbSigningChain
         /\ DOMAIN TcbResponse(f, t) = {"doc", "chain"}
<1>1. now \in Nat
  BY DEF WorldTypes
<1>2. \A doc : Dated(doc) = DatedAt(doc, now)
  BY DEF Dated, DatedAt
<1> QED
  BY <1>1, <1>2, ServedNow DEF TcbResponse, TcbAnswer

(* So is a QE identity response. *)
LEMMA QeResponseIs ==
  ASSUME WorldTypes, NEW t \in Track
  PROVE  QeAnswer(QeResponse(t).doc) /\ QeResponse(t).chain = TcbSigningChain
<1>1. now \in Nat
  BY DEF WorldTypes
<1>2. \A doc : Dated(doc) = DatedAt(doc, now)
  BY DEF Dated, DatedAt
<1> QED
  BY <1>1, <1>2, ServedNow DEF QeResponse, QeAnswer

(* A CRL is issued under a name and a key of certificates. *)
LEMMA CrlIs ==
  ASSUME WorldTypes, NEW name \in Name, NEW key \in Key
  PROVE  CrlAnswer(IssuedCrl(name, key)) /\ IssuedCrl(name, key).issuer = name
<1>1. now \in Int /\ now + CrlLifetime \in Int
  BY DocumentsAssumption DEF WorldTypes
<1>2. \A c \in Revocable : c.serial \in Seq(Byte)
  BY IssuersAssumption DEF Cert
<1>3. IssuedCrl(name, key) \in Crl
  <2> DEFINE listed == {c.serial : c \in {d \in Revocable : d.issuer = name /\ revokedAt[d] <= now}}
             next == {now + CrlLifetime}
  <2>1. listed \in SUBSET Seq(Byte) /\ next \in SUBSET Int
    BY <1>1, <1>2
  <2>2. IssuedCrl(name, key) =
          [decodable |-> TRUE, outerAlg |-> "ecdsa-with-SHA256", innerAlg |-> "ecdsa-with-SHA256",
           issuer |-> name, signedBy |-> key, thisUpdate |-> now, nextUpdate |-> next,
           revoked |-> listed]
    BY DEF IssuedCrl
  <2> HIDE DEF listed, next
  <2> QED
    BY <1>1, <2>1, <2>2, AlgorithmAssumption DEF Crl
<1>4. \A c \in Revocable : revokedAt[c] < now => revokedAt[c] <= now
  BY <1>1 DEF WorldTypes
<1>5. \A c \in Revocable : c.issuer = name /\ revokedAt[c] < now
                              => c.serial \in IssuedCrl(name, key).revoked
  BY <1>4 DEF IssuedCrl
<1> QED
  BY <1>1, <1>3, <1>5 DEF CrlAnswer, IssuedCrl

(* Intel's chains have a leaf and a root. *)
LEMMA IntelChains ==
  ASSUME NEW chain, ByTheRoot(chain)
  PROVE  Leaf(chain.ders) \in Cert /\ Root(chain.ders) \in Cert
<1>1. chain.ders \in Seq(Cert \cup {BadDer}) /\ chain.ders # <<>>
  BY DEF ByTheRoot, PemChain
<1>2. Len(chain.ders) \in Nat \ {0} /\ DOMAIN chain.ders = 1..Len(chain.ders)
  BY <1>1
<1>3. 1 \in DOMAIN chain.ders /\ Len(chain.ders) \in DOMAIN chain.ders
  BY <1>2
<1> QED
  BY <1>3 DEF ByTheRoot, Leaf, Root

(* The CRLs are those of the root and of the CA asked for. *)
LEMMA CrlResponsesAre ==
  ASSUME WorldTypes
  PROVE  /\ \A ca \in PckCa : /\ CrlAnswer(PckCrlResponse(ca).doc)
                              /\ PckCrlResponse(ca).chain = PckCaChain[ca]
         /\ CrlAnswer(RootCrlResponse) /\ RootCrlResponse.issuer = RootName
<1>1. \A ca \in PckCa : Leaf(PckCaChain[ca].ders) \in Cert
  BY IssuersAssumption, IntelChains
<1>2. Root(TcbSigningChain.ders) \in Cert
  BY IssuersAssumption, IntelChains
<1>3. \A c \in Cert : c.subject \in Name /\ c.key \in Key
  BY DEF Cert
<1>4. RootKey \in Key
  BY RootKeyAssumption
<1>5. \A ca \in PckCa : CrlAnswer(PckCrlResponse(ca).doc)
  BY <1>1, <1>3, CrlIs DEF PckCrlResponse
<1>6. CrlAnswer(RootCrlResponse) /\ RootCrlResponse.issuer = RootName
  BY <1>2, <1>3, <1>4, CrlIs DEF RootCrlResponse, RootName
<1> QED
  BY <1>5, <1>6 DEF PckCrlResponse

-----------------------------------------------------------------------------
(* A call made with what is in hand is a call of the verifier. *)

(* Dating a tcbInfo changes nothing else of it. *)
LEMMA DatedTcb ==
  ASSUME NEW doc \in TcbInfo, NEW t \in Nat
  PROVE  /\ DatedAt(doc, t) \in TcbInfo
         /\ DatedAt(doc, t).issueDate = t /\ DatedAt(doc, t).nextUpdate = t + DocLifetime
         /\ DatedAt(doc, t).tcbEvaluationDataNumber = doc.tcbEvaluationDataNumber
         /\ DatedAt(doc, t).fmspc = doc.fmspc /\ DatedAt(doc, t).pceId = doc.pceId
         /\ DatedAt(doc, t).tcbLevels = doc.tcbLevels
<1>1. t + DocLifetime \in Int /\ t \in Int
  BY DocumentsAssumption
<1> QED
  BY <1>1 DEF DatedAt, TcbInfo

(* Nor does dating a QE identity. *)
LEMMA DatedQe ==
  ASSUME NEW doc \in QeIdentity, NEW t \in Nat
  PROVE  /\ DatedAt(doc, t) \in QeIdentity
         /\ DatedAt(doc, t).issueDate = t /\ DatedAt(doc, t).nextUpdate = t + DocLifetime
         /\ DatedAt(doc, t).tcbEvaluationDataNumber = doc.tcbEvaluationDataNumber
         /\ \A qe : Promise!QeRecognised(DatedAt(doc, t), qe) <=> Promise!QeRecognised(doc, qe)
<1>1. t + DocLifetime \in Int /\ t \in Int
  BY DocumentsAssumption
<1>2. /\ DatedAt(doc, t).id = doc.id /\ DatedAt(doc, t).mrsigner = doc.mrsigner
      /\ DatedAt(doc, t).isvprodid = doc.isvprodid /\ DatedAt(doc, t).miscselect = doc.miscselect
      /\ DatedAt(doc, t).miscselectMask = doc.miscselectMask
      /\ DatedAt(doc, t).attributes = doc.attributes
      /\ DatedAt(doc, t).attributesMask = doc.attributesMask
      /\ DatedAt(doc, t).tcbLevels = doc.tcbLevels
  BY DEF DatedAt, QeIdentity
<1>3. \A qe : Promise!QeRecognised(DatedAt(doc, t), qe) <=> Promise!QeRecognised(doc, qe)
  BY <1>2 DEF Promise!QeRecognised, Promise!TopQeLevel
<1>4. /\ DatedAt(doc, t) \in QeIdentity
      /\ DatedAt(doc, t).issueDate = t /\ DatedAt(doc, t).nextUpdate = t + DocLifetime
      /\ DatedAt(doc, t).tcbEvaluationDataNumber = doc.tcbEvaluationDataNumber
  BY <1>1 DEF DatedAt, QeIdentity
<1> QED
  BY <1>3, <1>4

(* Answers are documents. *)
LEMMA AnswersTyped ==
  ASSUME NEW doc
  PROVE  (TcbAnswer(doc) => doc \in TcbInfo) /\ (QeAnswer(doc) => doc \in QeIdentity)
<1>1. \A f \in Fmspc : \A n \in Round :
        TcbInfoOf[f][n] \in TcbInfo /\ QeIdentityOf[n] \in QeIdentity
  BY DocumentsAssumption
<1>2. \A n \in Round : QeIdentityOf[n] \in QeIdentity
  BY DocumentsAssumption
<1> QED
  BY <1>1, <1>2, DatedTcb, DatedQe DEF TcbAnswer, QeAnswer

(* What is in hand when the client is ready makes a call. *)
LEMMA RequestTyped ==
  ASSUME WorldTypes, HeldOk, stage = "ready", NEW clock \in Int, NEW floor \in Floors
  PROVE  RequestAt(clock, floor) \in Request /\ RequestAt(clock, floor) # NoRequest
<1>1. /\ held.tcb.doc \in TcbInfo /\ held.tcb.chain \in PemChain
      /\ held.qe.doc \in QeIdentity /\ held.qe.chain \in PemChain
      /\ held.pckCrl.doc \in Crl /\ held.pckCrl.chain \in PemChain
      /\ held.rootCrl \in Crl
  BY AnswersTyped, IssuersAssumption
     DEF HeldOk, HasTcb, HasQe, HasPckCrl, CrlAnswer, ByTheRoot
<1>2. Collateral \in SgxCollateral
  BY <1>1 DEF Collateral, SgxCollateral
<1>3. quote \in SgxQuote
  BY ClientAssumption DEF WorldTypes
<1>4. quote.reportBody.mrenclave \in STRING
  BY <1>3 DEF SgxQuote, ReportBody
<1>5. clock * TicksPerSecond \in Int /\ floor \in Nat
  BY ClockAssumption, ClientAssumption
<1>6. RequestAt(clock, floor) \in
        [currentTime : Int, collateral : SgxCollateral, quote : SgxQuote,
         expectedMrenclave : STRING, minRound : Nat, policy : SUBSET TcbPolicy]
  BY <1>2, <1>3, <1>4, <1>5 DEF RequestAt
<1>7. RequestAt(clock, floor).policy = {}
  BY DEF RequestAt
<1>8. RequestAt(clock, floor) \in Request
  BY <1>6, <1>7 DEF Request
<1> QED
  BY <1>8, ClientAssumption

-----------------------------------------------------------------------------
(* Answers stay answers. *)

(* Time goes on, and what happens happens now. *)
LEMMA AnswersKept ==
  ASSUME WorldTypes, now' \in Nat, now' >= now,
         \A m \in Round : promotedAt'[m] \in Int
                          /\ (promotedAt'[m] = promotedAt[m] \/ promotedAt'[m] >= now),
         \A c \in Revocable : revokedAt'[c] = revokedAt[c] \/ revokedAt'[c] = now
  PROVE  /\ \A doc : TcbAnswer(doc) => TcbAnswer(doc)'
         /\ \A doc : QeAnswer(doc) => QeAnswer(doc)'
         /\ \A crl : CrlAnswer(crl) => CrlAnswer(crl)'
<1>1. \A n : \A t \in Nat : ServedAt(n, t) => ServedAt(n, t)'
  BY DEF WorldTypes, ServedAt
<1>2. \A doc : TcbAnswer(doc) => TcbAnswer(doc)'
  BY <1>1 DEF TcbAnswer
<1>3. \A doc : QeAnswer(doc) => QeAnswer(doc)'
  BY <1>1 DEF QeAnswer
<1>4. ASSUME NEW crl, CrlAnswer(crl) PROVE CrlAnswer(crl)'
  <2>1. crl.thisUpdate \in Int /\ now \in Int /\ crl.thisUpdate <= now
    BY <1>4 DEF CrlAnswer, Crl, WorldTypes
  <2>2. \A c \in Revocable : revokedAt'[c] < crl.thisUpdate => revokedAt[c] < crl.thisUpdate
    BY <2>1
  <2> QED
    BY <1>4, <2>1, <2>2 DEF CrlAnswer
<1> QED
  BY <1>2, <1>3, <1>4

(* What is in hand stays what it was. *)
LEMMA HeldKept ==
  ASSUME HeldOk, UNCHANGED <<stage, held>>,
         \A doc : TcbAnswer(doc) => TcbAnswer(doc)',
         \A doc : QeAnswer(doc) => QeAnswer(doc)',
         \A crl : CrlAnswer(crl) => CrlAnswer(crl)'
  PROVE  HeldOk'
<1>1. HasTcb => DOMAIN held'.tcb = {"doc", "chain"} /\ TcbAnswer(held.tcb.doc)'
                /\ held'.tcb.chain = TcbSigningChain
  BY DEF HeldOk
<1>2. HasQe => QeAnswer(held.qe.doc)' /\ held'.qe.chain = TcbSigningChain
  BY DEF HeldOk
<1>3. HasPckCrl => /\ CrlAnswer(held.pckCrl.doc)'
                   /\ \E ca \in PckCa : held'.pckCrl.chain = PckCaChain[ca]
  BY DEF HeldOk
<1>4. stage = "ready" => CrlAnswer(held.rootCrl)' /\ held'.rootCrl.issuer = RootName
  BY DEF HeldOk
<1> QED
  BY <1>1, <1>2, <1>3, <1>4 DEF HeldOk, HasTcb, HasQe, HasPckCrl

-----------------------------------------------------------------------------
(* Steps of the parties. *)

(* Between calls there is no call to be wrong about. *)
LEMMA BetweenCallOk == Between => CallOk'
  BY DEF Between, vars, CallOk

(* The numbers of rounds are numbers. *)
LEMMA RoundsAre ==
  /\ \A n \in Round : n \in Int
  /\ 1 \in Round /\ MaxRound \in Int /\ Never \in Int /\ Never > MaxNow
  BY DocumentsAssumption, ClientAssumption DEF Round, Never

(* Intel's steps leave the types and what the client holds as they are. *)
LEMMA IntelStep ==
  ASSUME WorldInv, Intel
  PROVE  WorldInv'
<1>0. Between /\ UNCHANGED <<stage, quote, held>>
  BY DEF Intel, Tick, Revoke, Publish, Promote, clientVars
<1>1. WorldTypes /\ HeldOk
  BY DEF WorldInv
<1>2. /\ WorldTypes' /\ now' \in Nat /\ now' >= now
      /\ \A m \in Round : promotedAt'[m] \in Int
                          /\ (promotedAt'[m] = promotedAt[m] \/ promotedAt'[m] >= now)
      /\ \A c \in Revocable : revokedAt'[c] = revokedAt[c] \/ revokedAt'[c] = now
  <2> USE <1>0, <1>1
  <2>1. CASE Tick
    <3>1. /\ now' = now + 1 /\ now < MaxNow /\ MaxNow \in Nat
          /\ UNCHANGED <<published, promotedAt, revokedAt>>
      BY <2>1, ClientAssumption DEF Tick
    <3>2. now' \in Nat /\ now' >= now /\ now' <= MaxNow
      BY <3>1 DEF WorldTypes
    <3> QED
      BY <3>1, <3>2 DEF WorldTypes
  <2>2. CASE \E c \in Revocable : Revoke(c)
    <3>1. PICK c \in Revocable : Revoke(c)
      BY <2>2
    <3>2. revokedAt' = [revokedAt EXCEPT ![c] = now] /\ UNCHANGED <<now, published, promotedAt>>
      BY <3>1 DEF Revoke
    <3>3. revokedAt' \in [Revocable -> Int]
          /\ \A d \in Revocable : revokedAt'[d] = revokedAt[d] \/ revokedAt'[d] = now
      BY <3>2 DEF WorldTypes
    <3> QED
      BY <3>2, <3>3 DEF WorldTypes
  <2>3. CASE Publish
    <3>1. /\ published["early"] < MaxRound /\ published["early"] \in 1..MaxRound
          /\ published' = [published EXCEPT !["early"] = @ + 1]
          /\ UNCHANGED <<now, promotedAt, revokedAt>>
      BY <2>3 DEF Publish, WorldTypes, Track, Round
    <3>2. published["early"] + 1 \in Round
      BY <3>1, DocumentsAssumption DEF Round
    <3>3. /\ published' \in [Track -> Round] /\ published'["standard"] = published["standard"]
          /\ published'["early"] = published["early"] + 1
      BY <3>1, <3>2 DEF WorldTypes, Track
    <3>4. published'["standard"] <= published'["early"]
      <4>1. published["standard"] \in Int /\ published["early"] \in Int
            /\ published["standard"] <= published["early"]
        BY RoundsAre DEF WorldTypes, Track
      <4> QED
        BY <3>3, <4>1
    <3> QED
      BY <3>1, <3>3, <3>4 DEF WorldTypes
  <2>4. CASE Promote
    <3> DEFINE n == published["standard"] + 1
    <3>1. /\ published["standard"] < published["early"]
          /\ published["early"] \in Round /\ published["standard"] \in Round
          /\ published' = [published EXCEPT !["standard"] = @ + 1]
          /\ promotedAt' = [promotedAt EXCEPT ![published'["standard"]] = now]
          /\ UNCHANGED <<now, revokedAt>>
      BY <2>4 DEF Promote, WorldTypes, Track
    <3>2. n \in Round /\ n <= published["early"]
      BY <3>1, DocumentsAssumption DEF Round
    <3>3. /\ published' \in [Track -> Round] /\ published'["standard"] = n
          /\ published'["early"] = published["early"]
      BY <3>1, <3>2 DEF WorldTypes, Track
    <3>4. promotedAt' = [promotedAt EXCEPT ![n] = now]
      BY <3>1, <3>3
    <3>5. /\ promotedAt' \in [Round -> Int]
          /\ \A m \in Round : promotedAt'[m] = IF m = n THEN now ELSE promotedAt[m]
      BY <3>2, <3>4 DEF WorldTypes
    <3>6. \A m \in Round : m > n => m > published["standard"] /\ m # n
      <4>1. published["standard"] \in Int /\ \A m \in Round : m \in Int
        BY <3>1, RoundsAre
      <4> QED
        BY <4>1
    <3> HIDE DEF n
    <3>7. \A m \in Round : m > published'["standard"] => promotedAt'[m] = Never
      BY <3>3, <3>5, <3>6 DEF WorldTypes
    <3>8. now' \in Nat /\ now' >= now
      BY <3>1 DEF WorldTypes
    <3> QED
      BY <3>1, <3>2, <3>3, <3>5, <3>7, <3>8 DEF WorldTypes
  <2> QED
    BY <2>1, <2>2, <2>3, <2>4 DEF Intel
<1>3. HeldOk'
  BY <1>0, <1>1, <1>2, AnswersKept, HeldKept
<1> QED
  BY <1>0, <1>2, <1>3, BetweenCallOk DEF WorldInv

(* Where Intel stands still, answers are what they were. *)
LEMMA AnswersStand ==
  ASSUME WorldTypes, UNCHANGED intelVars
  PROVE  /\ \A doc : TcbAnswer(doc) => TcbAnswer(doc)'
         /\ \A doc : QeAnswer(doc) => QeAnswer(doc)'
         /\ \A crl : CrlAnswer(crl) => CrlAnswer(crl)'
<1>1. now' = now /\ promotedAt' = promotedAt /\ revokedAt' = revokedAt
  BY DEF intelVars
<1>2. now \in Nat /\ now >= now /\ \A m \in Round : promotedAt[m] \in Int
  BY DEF WorldTypes
<1> QED
  BY <1>1, <1>2, AnswersKept

(* A response put in its place is in hand, beside what was. *)
LEMMA FetchKeeps ==
  ASSUME WorldTypes, NEW part \in {"tcb", "qe", "pckCrl", "rootCrl"}, NEW response,
         NEW at \in Stage \ {"start", "ready"}, NEW next \in Stage \ {"start"},
         Fetch(part, response, at, next)
  PROVE  /\ WorldTypes' /\ stage' = next /\ stage = at /\ UNCHANGED intelVars
         /\ \A x \in {"tcb", "qe", "pckCrl", "rootCrl"} :
              held'[x] = IF x = part THEN response ELSE held[x]
<1>1. /\ stage = at /\ stage' = next /\ held' = [held EXCEPT ![part] = response]
      /\ UNCHANGED <<quote, now, published, promotedAt, revokedAt>> /\ UNCHANGED intelVars
  BY DEF Fetch, intelVars
<1>2. /\ DOMAIN held' = {"tcb", "qe", "pckCrl", "rootCrl"}
      /\ \A x \in {"tcb", "qe", "pckCrl", "rootCrl"} :
           held'[x] = IF x = part THEN response ELSE held[x]
  BY <1>1 DEF WorldTypes
<1> QED
  BY <1>1, <1>2 DEF WorldTypes

(* A quote that can be peeked into names one of the two CAs. *)
LEMMA PeekedCa ==
  ASSUME PckParamsError(quote) = Ok
  PROVE  Peeked.ca \in PckCa
<1>1. NamedBy(CommonName[Leaf(quote.certData.ders).issuer]) # {}
  BY DEF PckParamsError, Ok
<1>2. NamedBy(CommonName[Leaf(quote.certData.ders).issuer]) \subseteq PckCa
  BY DEF NamedBy
<1> QED
  BY <1>1, <1>2 DEF Peeked, PckCollateralParams

(* Each fetch leaves the client with one answer more. *)
LEMMA FetchStep ==
  ASSUME WorldTypes, HeldOk, FetchTcb \/ FetchQe \/ FetchPckCrl \/ FetchRootCrl
  PROVE  WorldTypes' /\ HeldOk'
<1> USE DEF Stage
<1>1. CASE FetchTcb
  <2>1. PICK t \in Track : Fetch("tcb", TcbResponse(Peeked.fmspc, t), "tcb", "qe")
    BY <1>1 DEF FetchTcb
  <2>2. Peeked.fmspc \in Fmspc
    BY <1>1 DEF FetchTcb
  <2> DEFINE answer == TcbResponse(Peeked.fmspc, t)
  <2>3. TcbAnswer(answer.doc) /\ answer.chain = TcbSigningChain /\ DOMAIN answer = {"doc", "chain"}
    BY <2>2, TcbResponseIs
  <2>4. WorldTypes' /\ stage' = "qe" /\ UNCHANGED intelVars /\ held'.tcb = answer
    BY <2>1, FetchKeeps
  <2> HIDE DEF answer
  <2>5. TcbAnswer(held.tcb.doc)'
    BY <2>3, <2>4, AnswersStand
  <2> QED
    BY <2>3, <2>4, <2>5 DEF HeldOk, HasTcb, HasQe, HasPckCrl
<1>2. CASE FetchQe
  <2>1. PICK t \in Track : Fetch("qe", QeResponse(t), "qe", "pckcrl")
    BY <1>2 DEF FetchQe
  <2> DEFINE answer == QeResponse(t)
  <2>3. QeAnswer(answer.doc) /\ answer.chain = TcbSigningChain
    BY QeResponseIs
  <2>4. /\ WorldTypes' /\ stage' = "pckcrl" /\ stage = "qe" /\ UNCHANGED intelVars
        /\ held'.qe = answer /\ held'.tcb = held.tcb
    BY <2>1, FetchKeeps
  <2> HIDE DEF answer
  <2>5. QeAnswer(held.qe.doc)' /\ TcbAnswer(held.tcb.doc)'
    BY <2>3, <2>4, AnswersStand DEF HeldOk, HasTcb
  <2> QED
    BY <2>3, <2>4, <2>5 DEF HeldOk, HasTcb, HasQe, HasPckCrl
<1>3. CASE FetchPckCrl
  <2>1. Fetch("pckCrl", PckCrlResponse(Peeked.ca), "pckcrl", "rootcrl")
    BY <1>3 DEF FetchPckCrl
  <2> DEFINE answer == PckCrlResponse(Peeked.ca)
  <2>2. Peeked.ca \in PckCa
    BY <2>1, PeekedCa DEF Fetch, WorldTypes
  <2>3. CrlAnswer(answer.doc) /\ answer.chain = PckCaChain[Peeked.ca]
    BY <2>2, CrlResponsesAre
  <2>4. /\ WorldTypes' /\ stage' = "rootcrl" /\ stage = "pckcrl" /\ UNCHANGED intelVars
        /\ held'.pckCrl = answer /\ held'.tcb = held.tcb /\ held'.qe = held.qe
    BY <2>1, FetchKeeps
  <2> HIDE DEF answer
  <2>5. CrlAnswer(held.pckCrl.doc)' /\ QeAnswer(held.qe.doc)' /\ TcbAnswer(held.tcb.doc)'
    BY <2>3, <2>4, AnswersStand DEF HeldOk, HasTcb, HasQe
  <2>6. \E ca \in PckCa : held'.pckCrl.chain = PckCaChain[ca]
    BY <2>2, <2>3, <2>4
  <2> QED
    BY <2>4, <2>5, <2>6 DEF HeldOk, HasTcb, HasQe, HasPckCrl
<1>4. CASE FetchRootCrl
  <2>1. Fetch("rootCrl", RootCrlResponse, "rootcrl", "ready")
    BY <1>4 DEF FetchRootCrl
  <2>2. CrlAnswer(RootCrlResponse) /\ RootCrlResponse.issuer = RootName
    BY CrlResponsesAre
  <2>3. /\ WorldTypes' /\ stage' = "ready" /\ stage = "rootcrl" /\ UNCHANGED intelVars
        /\ held'.rootCrl = RootCrlResponse /\ held'.pckCrl = held.pckCrl
        /\ held'.tcb = held.tcb /\ held'.qe = held.qe
    BY <2>1, FetchKeeps
  <2>4. CrlAnswer(held.pckCrl.doc)' /\ QeAnswer(held.qe.doc)' /\ TcbAnswer(held.tcb.doc)'
    BY <2>3, AnswersStand DEF HeldOk, HasTcb, HasQe, HasPckCrl
  <2>5. CrlAnswer(held.rootCrl)'
    BY <2>2, <2>3, AnswersStand
  <2> QED
    BY <2>2, <2>3, <2>4, <2>5 DEF HeldOk, HasTcb, HasQe, HasPckCrl
<1> QED
  BY <1>1, <1>2, <1>3, <1>4

(* Another tcbInfo in its place is an answer, too. *)
LEMMA SpliceStep ==
  ASSUME WorldTypes, HeldOk, NEW f \in Fmspc, NEW t \in Track, SpliceTcbInfo(f, t)
  PROVE  WorldTypes' /\ HeldOk'
<1> DEFINE doc == TcbResponse(f, t).doc
<1>1. TcbAnswer(doc)
  BY TcbResponseIs
<1> HIDE DEF doc
<1>2. /\ stage = "ready" /\ held' = [held EXCEPT !.tcb.doc = doc]
      /\ UNCHANGED <<stage, quote, now, published, promotedAt, revokedAt>> /\ UNCHANGED intelVars
  BY DEF SpliceTcbInfo, intelVars, doc
<1>3. DOMAIN held = {"tcb", "qe", "pckCrl", "rootCrl"} /\ DOMAIN held.tcb = {"doc", "chain"}
  BY <1>2 DEF WorldTypes, HeldOk, HasTcb
<1>4. /\ DOMAIN held' = {"tcb", "qe", "pckCrl", "rootCrl"}
      /\ held'.tcb = [held.tcb EXCEPT !.doc = doc]
      /\ held'.qe = held.qe /\ held'.pckCrl = held.pckCrl /\ held'.rootCrl = held.rootCrl
  BY <1>2, <1>3
<1>5. DOMAIN held'.tcb = {"doc", "chain"} /\ held'.tcb.doc = doc /\ held'.tcb.chain = held.tcb.chain
  BY <1>3, <1>4
<1>6. WorldTypes'
  BY <1>2, <1>4 DEF WorldTypes
<1>7. /\ TcbAnswer(held.tcb.doc)' /\ QeAnswer(held.qe.doc)'
      /\ CrlAnswer(held.pckCrl.doc)' /\ CrlAnswer(held.rootCrl)'
  BY <1>1, <1>2, <1>4, <1>5, AnswersStand DEF HeldOk, HasTcb, HasQe, HasPckCrl
<1>8. /\ held'.tcb.chain = TcbSigningChain /\ held'.qe.chain = TcbSigningChain
      /\ \E ca \in PckCa : held'.pckCrl.chain = PckCaChain[ca]
      /\ held'.rootCrl.issuer = RootName
  BY <1>2, <1>4, <1>5 DEF HeldOk, HasTcb, HasQe, HasPckCrl
<1> QED
  BY <1>5, <1>6, <1>7, <1>8 DEF HeldOk

(* The client's steps keep what it holds answers of Intel. *)
LEMMA ClientStep ==
  ASSUME WorldInv, Client
  PROVE  WorldInv'
<1>0. WorldTypes /\ HeldOk
  BY DEF WorldInv
<1>1. CASE \E q \in Quotes : TakeQuote(q)
  <2>1. PICK q \in Quotes : TakeQuote(q)
    BY <1>1
  <2>2. /\ Between /\ stage' = "tcb" /\ quote' = q /\ PckParamsError(q) = Ok
        /\ held' = EmptyHanded /\ UNCHANGED <<now, published, promotedAt, revokedAt>>
    BY <2>1 DEF TakeQuote, intelVars
  <2>3. WorldTypes'
    BY <1>0, <2>2 DEF WorldTypes, Stage, EmptyHanded
  <2>4. HeldOk'
    BY <2>2 DEF HeldOk, HasTcb, HasQe, HasPckCrl
  <2> QED
    BY <2>2, <2>3, <2>4, BetweenCallOk DEF WorldInv
<1>2. CASE \E q \in Quotes : Reuse(q)
  <2>1. /\ Between /\ stage = "ready" /\ quote' \in Quotes
        /\ UNCHANGED <<stage, held, now, published, promotedAt, revokedAt>> /\ UNCHANGED intelVars
    BY <1>2 DEF Reuse, intelVars
  <2>2. WorldTypes'
    BY <1>0, <2>1 DEF WorldTypes
  <2>3. HeldOk'
    BY <1>0, <2>1, AnswersStand, HeldKept
  <2> QED
    BY <2>1, <2>2, <2>3, BetweenCallOk DEF WorldInv
<1>3. CASE FetchTcb \/ FetchQe \/ FetchPckCrl \/ FetchRootCrl
  <2>1. Between
    BY <1>3 DEF FetchTcb, FetchQe, FetchPckCrl, FetchRootCrl, Fetch
  <2> QED
    BY <1>0, <1>3, <2>1, FetchStep, BetweenCallOk DEF WorldInv
<1>4. CASE GiveUp
  <2>1. /\ Between /\ stage' = "start" /\ held' = EmptyHanded
        /\ UNCHANGED <<now, published, promotedAt, revokedAt>>
    BY <1>4 DEF GiveUp, intelVars
  <2>2. WorldTypes'
    BY <1>0, <2>1 DEF WorldTypes, Stage, EmptyHanded
  <2>3. HeldOk'
    BY <2>1 DEF HeldOk, HasTcb, HasQe, HasPckCrl
  <2> QED
    BY <2>1, <2>2, <2>3, BetweenCallOk DEF WorldInv
<1>5. CASE \E f \in Fmspc, t \in Track : SpliceTcbInfo(f, t)
  <2>1. Between
    BY <1>5 DEF SpliceTcbInfo
  <2> QED
    BY <1>0, <1>5, <2>1, SpliceStep, BetweenCallOk DEF WorldInv
<1> QED
  BY <1>1, <1>2, <1>3, <1>4, <1>5 DEF Client

-----------------------------------------------------------------------------
(* Calls between those steps. *)

(* A call with what is in hand is a call of the verifier. *)
LEMMA VerifyStep ==
  ASSUME WorldInv, CallInv, Verify
  PROVE  WorldInv' /\ CallInv'
<1>1. PICK skew \in -MaxSkew..MaxSkew, floor \in Floors : CallWith(RequestAt(now + skew, floor))
  BY DEF Verify
<1> DEFINE r == RequestAt(now + skew, floor)
<1>2. stage = "ready" /\ UNCHANGED worldVars
  BY DEF Verify
<1>3. now + skew \in Int
  BY ClientAssumption DEF WorldInv, WorldTypes
<1>4. r \in Request /\ r # NoRequest
  BY <1>2, <1>3, RequestTyped DEF WorldInv
<1>5. now' = now /\ RequestAt(now + skew, floor)' = r
  BY <1>2 DEF worldVars, RequestAt, Collateral
<1> HIDE DEF r
<1>6. /\ pc = "idle" /\ pc' = "qe_vendor" /\ request' = r
      /\ UNCHANGED <<k, revoked, standing, verdict>>
  BY <1>1 DEF CallWith, r
<1>7. TypeInv'
  BY <1>4, <1>6, GateNames DEF CallInv, TypeInv, TypeOK
<1>8. Evidence'
  BY <1>6, GateNames, Ranks, CollectedSteps DEF CallInv, Evidence
<1>9. AcceptanceSound'
  <2>1. verdict'.kind # "accepted"
    BY <1>6, PendingType DEF CallInv, TypeInv, TypeOK
  <2> QED
    BY <2>1 DEF AcceptanceSound
<1>10. WorldTypes' /\ HeldOk'
  <2>1. intelVars' = intelVars /\ UNCHANGED <<stage, held>>
    BY <1>2 DEF worldVars, intelVars
  <2>2. WorldTypes'
    BY <1>2 DEF WorldInv, WorldTypes, worldVars
  <2> QED
    BY <2>1, <2>2, AnswersStand, HeldKept DEF WorldInv
<1>11. CallOk'
  BY <1>2, <1>5, <1>6 DEF CallOk, worldVars
<1> QED
  BY <1>7, <1>8, <1>9, <1>10, <1>11 DEF WorldInv, CallInv

(* The verifier's gates work on the call that was made. *)
LEMMA GatesKeepTheCall ==
  ASSUME Step
  PROVE  request' = request /\ pc # "idle"
<1>1. CASE PlatformStandingGate \/ PolicyGate
  BY <1>1 DEF PlatformStandingGate, PolicyGate
<1>2. CASE Step /\ ~PlatformStandingGate /\ ~PolicyGate
  <2>1. \E gate \in Gates : \E result, next : Gate(gate, result, next)
    BY <1>2, GateNames
       DEF Step, QeVendorGate, MrenclaveGate, FormatsGate, FromPemGate, ParseGate,
           ValidateGate, SigningLeafGate, CrlIssuerGate, RootCrlGate, PckCrlGate,
           NoneRevokedGate, TcbSignatureGate, TcbIdGate, TcbWindowGate, TcbRoundGate,
           QeSignatureGate, QeWindowGate, QeRoundGate, QeIdentityGate,
           QeReportSignatureGate, QeBindingGate, QuoteSignatureGate, DebugGate,
           PlatformTcbGate, PlainGate, ChainGate, CrlGate
  <2> QED
    BY <2>1 DEF Gate, Gates
<1> QED
  BY <1>1, <1>2

(* The parties stand still while a call is at work. *)
LEMMA CallStep ==
  ASSUME WorldInv, (Step \/ Return) /\ UNCHANGED worldVars
  PROVE  WorldInv'
<1>1. WorldTypes' /\ HeldOk'
  <2>1. intelVars' = intelVars /\ UNCHANGED <<stage, held>>
    BY DEF worldVars, intelVars
  <2>2. WorldTypes'
    BY DEF WorldInv, WorldTypes, worldVars
  <2> QED
    BY <2>1, <2>2, AnswersStand, HeldKept DEF WorldInv
<1>2. CallOk'
  <2>1. \A clock, floor : RequestAt(clock, floor)' = RequestAt(clock, floor)
    BY DEF worldVars, RequestAt, Collateral
  <2>2. now' = now /\ stage' = stage
    BY DEF worldVars
  <2>3. CASE Step
    <3>1. request' = request /\ pc # "idle"
      BY <2>3, GatesKeepTheCall
    <3>2. PICK skew \in -MaxSkew..MaxSkew, floor \in Floors : request = RequestAt(now + skew, floor)
      BY <3>1 DEF WorldInv, CallOk
    <3>3. request' = RequestAt(now + skew, floor)'
      BY <2>1, <2>2, <3>1, <3>2 DEF worldVars, RequestAt, Collateral
    <3> QED
      BY <2>2, <3>1, <3>3 DEF WorldInv, CallOk
  <2>4. CASE Return
    BY <2>4 DEF Return, CallOk
  <2> QED
    BY <2>3, <2>4
<1> QED
  BY <1>1, <1>2 DEF WorldInv

(* The world starts with nothing in hand and no call. *)
LEMMA WorldStart == WorldInit => WorldInv /\ CallInv
<1> SUFFICES ASSUME WorldInit PROVE WorldInv /\ CallInv
  OBVIOUS
<1>1. CallInv
  BY TypeInit, AcceptanceInit DEF WorldInit, CallInv
<1>2. HeldOk /\ CallOk
  BY DEF WorldInit, Init, HeldOk, HasTcb, HasQe, HasPckCrl, CallOk
<1>3. published \in [Track -> Round] /\ published["standard"] = 1 /\ published["early"] = 1
  BY RoundsAre DEF WorldInit, Track
<1>4. /\ promotedAt \in [Round -> Int]
      /\ \A n \in Round : n > published["standard"] => promotedAt[n] = Never
  BY <1>3, RoundsAre DEF WorldInit
<1>5. revokedAt \in [Revocable -> Int]
  BY RoundsAre DEF WorldInit
<1>6. WorldTypes
  BY <1>3, <1>4, <1>5, ClientAssumption DEF WorldInit, WorldTypes, Stage, EmptyHanded
<1> QED
  BY <1>1, <1>2, <1>6 DEF WorldInv

(* Every step of the world keeps both invariants. *)
LEMMA WorldStep == WorldInv /\ CallInv /\ [WorldNext]_allVars => WorldInv' /\ CallInv'
<1> SUFFICES ASSUME WorldInv, CallInv, [WorldNext]_allVars PROVE WorldInv' /\ CallInv'
  OBVIOUS
<1>1. ASSUME [Next]_vars PROVE CallInv'
  BY <1>1, TypeStep, EvidenceStep, AcceptanceStep DEF CallInv
<1>2. CASE Intel \/ Client
  <2>1. UNCHANGED vars
    BY <1>2 DEF Intel, Client, Tick, Revoke, Publish, Promote, TakeQuote, Reuse, FetchTcb,
                FetchQe, FetchPckCrl, FetchRootCrl, Fetch, GiveUp, SpliceTcbInfo, Between
  <2> QED
    BY <1>1, <1>2, <2>1, IntelStep, ClientStep
<1>3. CASE Verify
  BY <1>3, VerifyStep
<1>4. CASE (Step \/ Return) /\ UNCHANGED worldVars
  BY <1>1, <1>4, CallStep DEF Next
<1>5. CASE UNCHANGED allVars
  <2>1. UNCHANGED vars /\ UNCHANGED worldVars
    BY <1>5 DEF allVars
  <2>2. intelVars' = intelVars /\ UNCHANGED <<stage, held>>
    BY <2>1 DEF worldVars, intelVars
  <2>3. WorldTypes'
    BY <2>1 DEF WorldInv, WorldTypes, worldVars
  <2>4. HeldOk'
    BY <2>2, AnswersStand, HeldKept DEF WorldInv
  <2>5. CallOk'
    BY <2>1 DEF WorldInv, CallOk, vars, worldVars, RequestAt, Collateral
  <2> QED
    BY <1>1, <2>1, <2>3, <2>4, <2>5 DEF WorldInv
<1> QED
  BY <1>2, <1>3, <1>4, <1>5 DEF WorldNext

-----------------------------------------------------------------------------
(* The client's clock. *)

(* Whole seconds are read off the clock as they are. *)
LEMMA SecondsBack ==
  ASSUME NEW x \in Nat, NEW ticks \in Nat \ {0}
  PROVE  (x * ticks) \div ticks = x
  OBVIOUS

(* The time of a call is no further behind than the clock is off. *)
LEMMA CallTime ==
  ASSUME WorldInv, CallInv, pc # "idle"
  PROVE  /\ request \in Request /\ Promise!NowOf(request) \in Int
         /\ now - MaxSkew <= Promise!NowOf(request)
         /\ stage = "ready" /\ request.collateral = Collateral
         /\ request.policy = {}
<1>1. PICK skew \in -MaxSkew..MaxSkew, floor \in Floors : request = RequestAt(now + skew, floor)
  BY DEF WorldInv, CallOk
<1>2. request \in Request
  BY DEF CallInv, TypeInv, TypeOK
<1>3. /\ stage = "ready" /\ request.collateral = Collateral /\ request.policy = {}
      /\ request.currentTime = (now + skew) * TicksPerSecond
  BY <1>1 DEF RequestAt, WorldInv, CallOk
<1>4. /\ now \in Nat /\ now <= MaxNow /\ MaxSkew \in Nat /\ MaxNow \in Nat
      /\ MaxNow + MaxSkew <= MaxSeconds /\ MaxSeconds \in Nat
      /\ skew \in Int /\ -MaxSkew <= skew /\ skew <= MaxSkew
      /\ TicksPerSecond \in Nat \ {0}
  BY ClientAssumption, ClockAssumption DEF WorldInv, WorldTypes
<1> DEFINE t == now + skew
<1>5. t \in Int /\ t >= now - MaxSkew /\ t <= MaxSeconds
  BY <1>4
<1> HIDE DEF t
<1>6. Now(request) = UnixSeconds(t * TicksPerSecond)
  BY <1>3 DEF Now, t
<1>7. CASE t >= 0
  <2>1. t \in Nat /\ (t * TicksPerSecond) \div TicksPerSecond = t
    BY <1>4, <1>5, <1>7, SecondsBack
  <2>2. t * TicksPerSecond >= 0
    BY <1>4, <2>1
  <2>3. UnixSeconds(t * TicksPerSecond) = t
    BY <1>5, <2>1, <2>2 DEF UnixSeconds, AtMost
  <2> QED
    BY <1>2, <1>3, <1>5, <1>6, <2>3, NowType
<1>8. CASE t < 0
  <2>1. -t \in Nat /\ ((-t) * TicksPerSecond) \div TicksPerSecond = -t /\ -t > 0
    BY <1>4, <1>5, <1>8, SecondsBack
  <2>2. -(t * TicksPerSecond) = (-t) * TicksPerSecond /\ t * TicksPerSecond < 0
    BY <1>4, <1>5, <1>8
  <2>3. (-(t * TicksPerSecond)) \div TicksPerSecond = -t
    BY <2>1, <2>2
  <2>4. UnixSeconds(t * TicksPerSecond) = -AtMost(-t, MaxSeconds)
    <3> DEFINE ticks == t * TicksPerSecond
    <3>1. ~(ticks >= 0) /\ (-ticks) \div TicksPerSecond = -t
      BY <1>4, <1>5, <2>2, <2>3
    <3> HIDE DEF ticks
    <3>2. UnixSeconds(ticks) = -AtMost(-t, MaxSeconds)
      BY <3>1 DEF UnixSeconds
    <3> QED
      BY <3>2 DEF ticks
  <2>5. UnixSeconds(t * TicksPerSecond) >= t
    BY <1>4, <1>5, <2>4 DEF AtMost
  <2>6. Now(request) >= now - MaxSkew
    <3>1. Now(request) \in Int
      BY <1>2, NowType
    <3> QED
      BY <1>4, <1>5, <1>6, <2>5, <3>1
  <2> QED
    BY <1>2, <1>3, <2>6, NowType
<1> QED
  BY <1>5, <1>7, <1>8

(* An accepted call is one whose evidence holds. *)
LEMMA AcceptedCall ==
  ASSUME WorldInv, CallInv, verdict.kind = "accepted"
  PROVE  /\ pc # "idle" /\ Promise!Acceptable(request)
         /\ Promise!HasStanding(request, verdict.standing)
<1>1. pc # "idle"
  BY PendingType DEF CallInv, TypeInv, TypeOK
<1> QED
  BY <1>1 DEF CallInv, AcceptanceSound

-----------------------------------------------------------------------------
(* Revocation. *)

(* A serial number is itself. *)
LEMMA SameSerialSelf == \A s : Promise!SameSerial(s, s)
  BY DEF Promise!SameSerial

(* A certificate a current CRL of its issuer does not list was not revoked *)
(* before the CRL was issued, and the CRL is not older than its lifetime.  *)
LEMMA UnlistedIsLate ==
  ASSUME WorldInv, NEW crl, CrlAnswer(crl), NEW c \in Revocable, c.issuer = crl.issuer,
         ~Promise!Listed(c, crl), NEW at \in Int, Promise!CrlCurrent(crl, at), now - MaxSkew <= at
  PROVE  now < revokedAt[c] + CrlLifetime + MaxSkew
<1>1. /\ crl.thisUpdate \in Int /\ crl.nextUpdate = {crl.thisUpdate + CrlLifetime}
      /\ (revokedAt[c] < crl.thisUpdate => c.serial \in crl.revoked)
  BY DEF CrlAnswer, Crl
<1>2. c.serial \notin crl.revoked
  BY SameSerialSelf DEF Promise!Listed
<1>3. at < crl.thisUpdate + CrlLifetime
  BY <1>1 DEF Promise!CrlCurrent
<1>4. now \in Int /\ revokedAt[c] \in Int /\ MaxSkew \in Int /\ CrlLifetime \in Int
  BY ClientAssumption, DocumentsAssumption DEF WorldInv, WorldTypes
<1> QED
  BY <1>1, <1>2, <1>3, <1>4

(* Every certificate a call relies on is of an issuer one of whose CRLs is *)
(* in the call: what Intel signs with and every CA is the root's, and the  *)
(* PCK CRL is of the leaf's issuer.                                        *)
LEMMA CoveredByACrl ==
  ASSUME WorldInv, CallInv, pc # "idle", Promise!Acceptable(request),
         NEW c \in Relied \cap Revocable
  PROVE  /\ CrlAnswer(request.collateral.rootCaCrl) /\ CrlAnswer(request.collateral.pckCrl)
         /\ \/ c.issuer = request.collateral.rootCaCrl.issuer
            \/ c.issuer = request.collateral.pckCrl.issuer
<1>1. request \in Request /\ stage = "ready" /\ request.collateral = Collateral
  BY CallTime
<1>2. /\ CrlAnswer(request.collateral.rootCaCrl) /\ CrlAnswer(request.collateral.pckCrl)
      /\ request.collateral.rootCaCrl.issuer = RootName
      /\ request.collateral.tcbInfoIssuerChain = TcbSigningChain
      /\ request.collateral.qeIdentityIssuerChain = TcbSigningChain
      /\ \E ca \in PckCa : request.collateral.pckCrlIssuerChain = PckCaChain[ca]
  BY <1>1 DEF WorldInv, HeldOk, HasTcb, HasQe, HasPckCrl, Collateral
<1>3. PICK i \in 1..4 : \E n \in DOMAIN ChainAt(request, i).ders : c = ChainAt(request, i).ders[n]
  BY DEF Relied
<1>4. PICK n \in DOMAIN ChainAt(request, i).ders : c = ChainAt(request, i).ders[n]
  BY <1>3
<1>5. CASE i \in 1..3
  <2>1. ByTheRoot(ChainAt(request, i))
    <3>1. i = 1 \/ i = 2 \/ i = 3
      BY <1>5
    <3> QED
      BY <1>2, <3>1, IssuersAssumption DEF ChainAt, ChainsOf
  <2> QED
    BY <1>2, <1>4, <2>1 DEF ByTheRoot
<1>6. CASE i = 4
  <2>1. ChainAt(request, i) = request.quote.certData
    BY <1>6 DEF ChainAt, ChainsOf
  <2>2. request.quote.certData \in PemChain
    BY <1>1, <2>1, RequestParts
  <2> DEFINE ders == request.quote.certData.ders
  <2>3. Len(ders) \in Nat /\ DOMAIN ders = 1..Len(ders)
    BY <2>2 DEF PemChain
  <2>4. n \in 1..Len(ders) /\ c = ders[n]
    BY <1>4, <2>1, <2>3
  <2>5. Promise!PkiSound(request)
    BY DEF Promise!Acceptable, Promise!TcbInfoGenuine
  <2>6. CASE n = 1
    <3>1. c.issuer = request.collateral.pckCrl.issuer
      BY <2>4, <2>5, <2>6 DEF Promise!PkiSound, Promise!NoneRevoked, Promise!RightCrls,
                              Promise!CrlOf, Promise!PckLeaf, Promise!LeafOf
    <3> QED
      BY <1>2, <3>1
  <2>7. CASE n # 1
    <3>1. Promise!Trusted(request.quote.certData, Promise!NowOf(request))
      BY <2>5 DEF Promise!PkiSound, Promise!AllTrusted, Promise!Chains
    <3>2. n - 1 \in 1..(Len(ders) - 1) /\ (n - 1) + 1 = n
      BY <2>3, <2>4, <2>7
    <3>3. Promise!CaCapable(ders[n])
      BY <3>1, <3>2 DEF Promise!Trusted
    <3>4. c.basicConstraints = "ca"
      BY <2>4, <3>3 DEF Promise!CaCapable
    <3> QED
      BY <1>2, <3>4, IssuersAssumption
  <2> QED
    BY <2>6, <2>7
<1> QED
  BY <1>5, <1>6

(* No call relies on a certificate revoked long ago. *)
LEMMA RevocationSound == WorldInv /\ CallInv => RevocationBound
<1> SUFFICES ASSUME WorldInv, CallInv, verdict.kind = "accepted", NEW c \in Relied \cap Revocable
             PROVE  now < revokedAt[c] + CrlLifetime + MaxSkew
  BY DEF RevocationBound
<1>1. pc # "idle" /\ Promise!Acceptable(request)
  BY AcceptedCall
<1>2. /\ request \in Request /\ Promise!NowOf(request) \in Int
      /\ now - MaxSkew <= Promise!NowOf(request)
  BY <1>1, CallTime
<1>3. Promise!NoneListed(request) /\ Promise!CrlsCurrent(request)
  BY <1>1 DEF Promise!Acceptable, Promise!TcbInfoGenuine, Promise!PkiSound, Promise!NoneRevoked
<1>4. /\ ~Promise!Listed(c, request.collateral.rootCaCrl)
      /\ ~Promise!Listed(c, request.collateral.pckCrl)
  <2>1. PICK i \in 1..4 : \E n \in DOMAIN ChainAt(request, i).ders : c = ChainAt(request, i).ders[n]
    BY DEF Relied
  <2> QED
    BY <1>3, <2>1, ChainsAre DEF Promise!NoneListed
<1>5. /\ Promise!CrlCurrent(request.collateral.rootCaCrl, Promise!NowOf(request))
      /\ Promise!CrlCurrent(request.collateral.pckCrl, Promise!NowOf(request))
  BY <1>3 DEF Promise!CrlsCurrent
<1> QED
  BY <1>1, <1>2, <1>4, <1>5, CoveredByACrl, UnlistedIsLate

(* A revocation takes effect everywhere within the lifetime of a CRL, but  *)
(* for the error of the client's clock: whatever the client keeps, mixes   *)
(* or reuses, however long its chains are, no call is accepted after that  *)
(* that relies on the revoked certificate in any of the four chains.       *)
THEOREM RevocationIsBounded == WorldSpec => []RevocationBound
<1>1. WorldInit => WorldInv /\ CallInv
  BY WorldStart
<1>2. WorldInv /\ CallInv /\ [WorldNext]_allVars => WorldInv' /\ CallInv'
  BY WorldStep
<1>3. WorldInv /\ CallInv => RevocationBound
  BY RevocationSound
<1> QED
  BY <1>1, <1>2, <1>3, PTL DEF WorldSpec

-----------------------------------------------------------------------------
(* TCB recovery. *)

(* The standing of a platform does not depend on when its tcbInfo was      *)
(* issued.                                                                 *)
LEMMA StandingOfDated ==
  ASSUME NEW r \in Request, NEW info \in TcbInfo, NEW t \in Nat,
         r.collateral.tcbInfo = DatedAt(info, t), NEW s, Promise!HasStanding(r, s)
  PROVE  InStanding(info, r)
<1> DEFINE r2 == [r EXCEPT !.collateral.tcbInfo = info]
<1>1. r.collateral \in SgxCollateral
  BY RequestParts
<1>2. r2.collateral.tcbInfo = info /\ r2.quote = r.quote
  BY <1>1 DEF Request, SgxCollateral
<1> HIDE DEF r2
<1>3. /\ info.fmspc = r.collateral.tcbInfo.fmspc /\ info.pceId = r.collateral.tcbInfo.pceId
      /\ info.tcbLevels = r.collateral.tcbInfo.tcbLevels
  BY DatedTcb
<1>4. Promise!PckLeaf(r2) = Promise!PckLeaf(r)
  BY <1>2 DEF Promise!PckLeaf
<1>5. /\ \A f, i, n : Promise!IsLast(r2, f, i, n) <=> Promise!IsLast(r, f, i, n)
      /\ \A n : Promise!Entry(r2, n) = Promise!Entry(r, n)
  BY <1>4 DEF Promise!IsLast, Promise!Entry
<1>6. Promise!SamePlatform(r2) <=> Promise!SamePlatform(r)
  BY <1>2, <1>3, <1>4, <1>5 DEF Promise!SamePlatform, Promise!Has
<1>7. \A i, svn : Promise!SvnAtLeast(r2, i, svn) <=> Promise!SvnAtLeast(r, i, svn)
  BY <1>4, <1>5 DEF Promise!SvnAtLeast
<1>8. \A level : Promise!Reaches(r2, level) <=> Promise!Reaches(r, level)
  BY <1>7 DEF Promise!Reaches
<1>9. \A i : Promise!Assigned(r2, i) <=> Promise!Assigned(r, i)
  BY <1>2, <1>3, <1>8 DEF Promise!Assigned
<1>10. PICK i \in DOMAIN r.collateral.tcbInfo.tcbLevels :
         /\ Promise!Assigned(r, i) /\ s = Promise!StandingOf(r.collateral.tcbInfo.tcbLevels[i])
         /\ s.status \in Promise!AcceptableStatus
  BY DEF Promise!HasStanding
<1>11. Promise!SamePlatform(r)
  BY DEF Promise!HasStanding
<1>12. i \in DOMAIN info.tcbLevels /\ s = Promise!StandingOf(info.tcbLevels[i])
  BY <1>3, <1>10
<1>13. Promise!HasStanding(r2, Promise!StandingOf(info.tcbLevels[i]))
  BY <1>2, <1>3, <1>6, <1>9, <1>10, <1>11, <1>12 DEF Promise!HasStanding
<1> QED
  BY <1>12, <1>13 DEF InStanding, r2

(* A document of round m that is still fresh bounds how long ago a later   *)
(* round can have reached the standard track.                              *)
LEMMA FreshIsLate ==
  ASSUME WorldInv, CallInv, pc # "idle", NEW doc, NEW m \in Round, NEW t \in Nat, ServedAt(m, t),
         doc.issueDate = t, doc.nextUpdate = t + DocLifetime, doc.tcbEvaluationDataNumber = m,
         Promise!Fresh(doc, request), NEW n \in Round, n > m
  PROVE  request.minRound < n /\ now < promotedAt[n] + DocLifetime + MaxSkew
<1>1. /\ request \in Request /\ Promise!NowOf(request) \in Int
      /\ now - MaxSkew <= Promise!NowOf(request) /\ request.policy = {}
  BY CallTime
<1>2. m >= request.minRound /\ Promise!NowOf(request) < t + DocLifetime
  BY <1>1 DEF Promise!Fresh, Promise!Floor
<1>3. request.minRound \in Nat /\ m \in Int /\ n \in Int
  BY <1>1, RequestParts, RoundsAre
<1>4. promotedAt[n] \in Int /\ promotedAt[n] >= t
  BY DEF ServedAt, WorldInv, WorldTypes
<1>5. now \in Int /\ MaxSkew \in Int /\ DocLifetime \in Int
  BY ClientAssumption, DocumentsAssumption DEF WorldInv, WorldTypes
<1> QED
  BY <1>1, <1>2, <1>3, <1>4, <1>5

(* No document of an earlier round outlives its lifetime. *)
LEMMA RecoverySound == WorldInv /\ CallInv => RecoveryBites
<1> SUFFICES ASSUME WorldInv, CallInv, verdict.kind = "accepted", NEW n \in Round,
                    OutOfDateFrom(n, request)
             PROVE  request.minRound < n /\ now < promotedAt[n] + DocLifetime + MaxSkew
  BY DEF RecoveryBites
<1>1. /\ pc # "idle" /\ Promise!Acceptable(request)
      /\ Promise!HasStanding(request, verdict.standing)
  BY AcceptedCall
<1>2. request \in Request /\ stage = "ready" /\ request.collateral = Collateral
  BY <1>1, CallTime
<1>3. TcbAnswer(request.collateral.tcbInfo) /\ QeAnswer(request.collateral.qeIdentity)
  BY <1>2 DEF WorldInv, HeldOk, HasTcb, HasQe, Collateral
<1>4. /\ Promise!Fresh(request.collateral.tcbInfo, request)
      /\ Promise!Fresh(request.collateral.qeIdentity, request)
      /\ Promise!QeRecognised(request.collateral.qeIdentity, request.quote.qeReport)
  BY <1>1 DEF Promise!Acceptable
<1>5. \A m \in Round : m >= n => m \in n..MaxRound
  BY DEF Round
<1>6. n \in Int /\ \A m \in Round : m \in Int
  BY RoundsAre
<1>7. CASE \A m \in n..MaxRound : ~GoodPlatform(m, request)
  <2>1. PICK f \in Fmspc, m \in Round, t \in Nat :
          request.collateral.tcbInfo = DatedAt(TcbInfoOf[f][m], t) /\ ServedAt(m, t)
    BY <1>3 DEF TcbAnswer
  <2>2. TcbInfoOf[f][m] \in TcbInfo /\ TcbInfoOf[f][m].tcbEvaluationDataNumber = m
    BY DocumentsAssumption
  <2>3. GoodPlatform(m, request)
    BY <1>1, <1>2, <2>1, <2>2, StandingOfDated DEF GoodPlatform
  <2>4. n > m
    BY <1>5, <1>6, <1>7, <2>3
  <2>5. /\ request.collateral.tcbInfo.issueDate = t
        /\ request.collateral.tcbInfo.nextUpdate = t + DocLifetime
        /\ request.collateral.tcbInfo.tcbEvaluationDataNumber = m
    BY <2>1, <2>2, DatedTcb
  <2> QED
    BY <1>1, <1>4, <2>1, <2>4, <2>5, FreshIsLate
<1>8. CASE \A m \in n..MaxRound : ~GoodQe(m, request)
  <2>1. PICK m \in Round, t \in Nat :
          request.collateral.qeIdentity = DatedAt(QeIdentityOf[m], t) /\ ServedAt(m, t)
    BY <1>3 DEF QeAnswer
  <2>2. QeIdentityOf[m] \in QeIdentity /\ QeIdentityOf[m].tcbEvaluationDataNumber = m
    BY DocumentsAssumption
  <2>3. GoodQe(m, request)
    BY <1>4, <2>1, <2>2, DatedQe DEF GoodQe
  <2>4. n > m
    BY <1>5, <1>6, <1>8, <2>3
  <2>5. /\ request.collateral.qeIdentity.issueDate = t
        /\ request.collateral.qeIdentity.nextUpdate = t + DocLifetime
        /\ request.collateral.qeIdentity.tcbEvaluationDataNumber = m
    BY <2>1, <2>2, DatedQe
  <2> QED
    BY <1>1, <1>4, <2>1, <2>4, <2>5, FreshIsLate
<1> QED
  BY <1>7, <1>8 DEF OutOfDateFrom

(* A platform, or a quoting enclave, that is out of date from round n on   *)
(* is not accepted once documents of earlier rounds are past their         *)
(* lifetime, nor ever by a caller whose floor is n: whatever rounds,       *)
(* tracks and families the client's documents are of.                      *)
THEOREM RecoveryTakesEffect == WorldSpec => []RecoveryBites
<1>1. WorldInit => WorldInv /\ CallInv
  BY WorldStart
<1>2. WorldInv /\ CallInv /\ [WorldNext]_allVars => WorldInv' /\ CallInv'
  BY WorldStep
<1>3. WorldInv /\ CallInv => RecoveryBites
  BY RecoverySound
<1> QED
  BY <1>1, <1>2, <1>3, PTL DEF WorldSpec

-----------------------------------------------------------------------------
(* What the client holds is exactly what it has fetched. *)

Slot(has, responses, response) ==
  IF has THEN response \in responses ELSE response = Nothing

(* A complete set of documents is in hand when it is used, and a round has *)
(* its date and a certificate its revocation from the moment there is one. *)
HandInv ==
  /\ \A n \in Round : promotedAt[n] = Never <=> n > published["standard"]
  /\ \A c \in Revocable : revokedAt[c] \in (0..now) \cup {Never}
  /\ quote \in Quotes \cup {Nothing} /\ (quote = Nothing) = (stage = "start")
  /\ Slot(HasTcb, [doc : TcbInfo, chain : PemChain], held.tcb)
  /\ Slot(HasQe, [doc : QeIdentity, chain : PemChain], held.qe)
  /\ Slot(HasPckCrl, [doc : Crl, chain : PemChain], held.pckCrl)
  /\ Slot(stage = "ready", Crl, held.rootCrl)

(* That is all the type invariant asks for. *)
LEMMA HandTyped == WorldInv /\ HandInv => WorldTypeOK
<1> SUFFICES ASSUME WorldInv, HandInv PROVE WorldTypeOK
  OBVIOUS
<1>1. /\ now \in 0..MaxNow /\ published \in [Track -> Round]
      /\ published["standard"] <= published["early"]
      /\ stage \in {"start", "tcb", "qe", "pckcrl", "rootcrl", "ready"}
  BY ClientAssumption DEF WorldInv, WorldTypes, Stage
<1>2. /\ held.tcb = Nothing <=> ~HasTcb
      /\ held.qe = Nothing <=> ~HasQe
      /\ held.pckCrl = Nothing <=> ~HasPckCrl
      /\ held.rootCrl = Nothing <=> stage # "ready"
  BY NothingAssumption DEF HandInv, Slot
<1>3. /\ held.tcb = Nothing <=> stage \in {"start", "tcb"}
      /\ held.qe = Nothing <=> stage \in {"start", "tcb", "qe"}
      /\ held.pckCrl = Nothing <=> stage \in {"start", "tcb", "qe", "pckcrl"}
  BY <1>1, <1>2 DEF HasTcb, HasQe, HasPckCrl
<1> QED
  BY <1>1, <1>2, <1>3 DEF HandInv, WorldTypeOK

(* In the beginning there is nothing in hand. *)
LEMMA HandInit == WorldInit => HandInv
<1> SUFFICES ASSUME WorldInit PROVE HandInv
  OBVIOUS
<1>1. published["standard"] = 1 /\ \A n \in Round : n > 1 <=> n # 1
  BY DEF WorldInit, Track, Round
<1>2. \A n \in Round : promotedAt[n] = Never <=> n > published["standard"]
  BY <1>1, RoundsAre, ClientAssumption DEF WorldInit, Never
<1>3. stage = "start" /\ quote = Nothing /\ held = EmptyHanded
  BY DEF WorldInit
<1> QED
  BY <1>2, <1>3 DEF WorldInit, HandInv, Slot, HasTcb, HasQe, HasPckCrl, EmptyHanded

(* Intel's steps touch neither the hand nor an earlier date. *)
LEMMA HandIntel ==
  ASSUME WorldInv, HandInv, Intel
  PROVE  HandInv'
<1>1. /\ now \in Nat /\ now <= MaxNow /\ Never \in Int /\ Never > MaxNow /\ MaxNow \in Nat
      /\ published \in [Track -> Round] /\ promotedAt \in [Round -> Int]
      /\ revokedAt \in [Revocable -> Int] /\ \A n \in Round : n \in Int
      /\ published["standard"] \in Round
  BY RoundsAre, ClientAssumption DEF WorldInv, WorldTypes, Track
<1>2. /\ \A n \in Round : promotedAt[n] = Never <=> n > published["standard"]
      /\ \A c \in Revocable : revokedAt[c] \in (0..now) \cup {Never}
  BY DEF HandInv
<1>3. UNCHANGED <<stage, quote, held>>
  BY DEF Intel, Tick, Revoke, Publish, Promote, clientVars
<1>4. /\ \A n \in Round : promotedAt'[n] = Never <=> n > published'["standard"]
      /\ \A c \in Revocable : revokedAt'[c] \in (0..now') \cup {Never}
  <2>1. CASE Tick
    <3>1. now' = now + 1 /\ UNCHANGED <<published, promotedAt, revokedAt>>
      BY <2>1 DEF Tick
    <3>2. \A x : x \in 0..now => x \in 0..(now + 1)
      BY <1>1
    <3> QED
      BY <1>2, <3>1, <3>2
  <2>2. CASE \E c \in Revocable : Revoke(c)
    <3>1. PICK c \in Revocable : Revoke(c)
      BY <2>2
    <3>2. revokedAt' = [revokedAt EXCEPT ![c] = now] /\ UNCHANGED <<now, published, promotedAt>>
      BY <3>1 DEF Revoke
    <3>3. \A d \in Revocable : revokedAt'[d] = IF d = c THEN now ELSE revokedAt[d]
      BY <1>1, <3>2
    <3>4. now \in 0..now
      BY <1>1
    <3> QED
      BY <1>2, <3>2, <3>3, <3>4
  <2>3. CASE Publish
    <3>1. /\ published' = [published EXCEPT !["early"] = @ + 1]
          /\ UNCHANGED <<now, promotedAt, revokedAt>>
      BY <2>3 DEF Publish
    <3>2. published'["standard"] = published["standard"]
      BY <1>1, <3>1 DEF Track
    <3> QED
      BY <1>2, <3>1, <3>2
  <2>4. CASE Promote
    <3> DEFINE n == published["standard"] + 1
    <3>1. /\ published' = [published EXCEPT !["standard"] = @ + 1]
          /\ promotedAt' = [promotedAt EXCEPT ![published'["standard"]] = now]
          /\ UNCHANGED <<now, revokedAt>>
      BY <2>4 DEF Promote
    <3>2. published'["standard"] = n /\ n \in Int
      BY <1>1, <3>1 DEF Track
    <3>3. \A m \in Round : promotedAt'[m] = IF m = n THEN now ELSE promotedAt[m]
      BY <1>1, <3>1, <3>2
    <3>4. \A m \in Round : m # n => (m > n <=> m > published["standard"])
      BY <1>1
    <3>5. now # Never
      BY <1>1
    <3>6. ~(n > n)
      BY <3>2
    <3> HIDE DEF n
    <3> QED
      BY <1>2, <3>1, <3>2, <3>3, <3>4, <3>5, <3>6
  <2> QED
    BY <2>1, <2>2, <2>3, <2>4 DEF Intel
<1> QED
  BY <1>3, <1>4 DEF HandInv, HasTcb, HasQe, HasPckCrl

(* A response is a document with its chain. *)
LEMMA ResponsesTyped ==
  ASSUME WorldTypes
  PROVE  /\ \A f \in Fmspc, t \in Track : TcbResponse(f, t) \in [doc : TcbInfo, chain : PemChain]
         /\ \A t \in Track : QeResponse(t) \in [doc : QeIdentity, chain : PemChain]
         /\ \A ca \in PckCa : PckCrlResponse(ca) \in [doc : Crl, chain : PemChain]
         /\ RootCrlResponse \in Crl
<1>1. TcbSigningChain \in PemChain /\ \A ca \in PckCa : PckCaChain[ca] \in PemChain
  BY IssuersAssumption DEF ByTheRoot
<1>2. ASSUME NEW f \in Fmspc, NEW t \in Track
      PROVE  TcbResponse(f, t) \in [doc : TcbInfo, chain : PemChain]
  <2>1. TcbResponse(f, t).doc \in TcbInfo
    BY TcbResponseIs, AnswersTyped
  <2> QED
    BY <1>1, <2>1 DEF TcbResponse
<1>3. ASSUME NEW t \in Track
      PROVE  QeResponse(t) \in [doc : QeIdentity, chain : PemChain]
  <2>1. QeResponse(t).doc \in QeIdentity
    BY QeResponseIs, AnswersTyped
  <2> QED
    BY <1>1, <2>1 DEF QeResponse
<1>4. ASSUME NEW ca \in PckCa
      PROVE  PckCrlResponse(ca) \in [doc : Crl, chain : PemChain]
  <2>1. PckCrlResponse(ca).doc \in Crl
    BY CrlResponsesAre DEF CrlAnswer
  <2> QED
    BY <1>1, <2>1 DEF PckCrlResponse
<1>5. RootCrlResponse \in Crl
  BY CrlResponsesAre DEF CrlAnswer
<1> QED
  BY <1>2, <1>3, <1>4, <1>5

(* Each fetch fills the slot of its stage. *)
LEMMA HandFetch ==
  ASSUME WorldInv, HandInv, FetchTcb \/ FetchQe \/ FetchPckCrl \/ FetchRootCrl
  PROVE  HandInv'
<1> USE DEF Stage
<1>1. WorldTypes
  BY DEF WorldInv
<1>2. \E response : \E part \in {"tcb", "qe", "pckCrl", "rootCrl"} :
        \E at \in Stage \ {"start", "ready"}, next \in Stage \ {"start"} :
          Fetch(part, response, at, next)
  BY DEF FetchTcb, FetchQe, FetchPckCrl, FetchRootCrl
<1>3. UNCHANGED <<quote, now, published, promotedAt, revokedAt>>
      /\ stage # "start" /\ stage' # "start"
  BY <1>2 DEF Fetch, intelVars
<1>4. CASE FetchTcb
  <2>1. PICK t \in Track : Fetch("tcb", TcbResponse(Peeked.fmspc, t), "tcb", "qe")
    BY <1>4 DEF FetchTcb
  <2> DEFINE answer == TcbResponse(Peeked.fmspc, t)
  <2>2. answer \in [doc : TcbInfo, chain : PemChain]
    BY <1>1, <1>4, ResponsesTyped DEF FetchTcb
  <2>3. /\ stage' = "qe" /\ stage = "tcb" /\ held'.tcb = answer /\ held'.qe = held.qe
        /\ held'.pckCrl = held.pckCrl /\ held'.rootCrl = held.rootCrl
    BY <1>1, <2>1, FetchKeeps
  <2> HIDE DEF answer
  <2> QED
    BY <1>3, <2>2, <2>3 DEF HandInv, Slot, HasTcb, HasQe, HasPckCrl
<1>5. CASE FetchQe
  <2>1. PICK t \in Track : Fetch("qe", QeResponse(t), "qe", "pckcrl")
    BY <1>5 DEF FetchQe
  <2> DEFINE answer == QeResponse(t)
  <2>2. answer \in [doc : QeIdentity, chain : PemChain]
    BY <1>1, ResponsesTyped
  <2>3. /\ stage' = "pckcrl" /\ stage = "qe" /\ held'.qe = answer /\ held'.tcb = held.tcb
        /\ held'.pckCrl = held.pckCrl /\ held'.rootCrl = held.rootCrl
    BY <1>1, <2>1, FetchKeeps
  <2> HIDE DEF answer
  <2> QED
    BY <1>3, <2>2, <2>3 DEF HandInv, Slot, HasTcb, HasQe, HasPckCrl
<1>6. CASE FetchPckCrl
  <2>1. Fetch("pckCrl", PckCrlResponse(Peeked.ca), "pckcrl", "rootcrl")
    BY <1>6 DEF FetchPckCrl
  <2> DEFINE answer == PckCrlResponse(Peeked.ca)
  <2>2. answer \in [doc : Crl, chain : PemChain]
    BY <1>1, <2>1, PeekedCa, ResponsesTyped DEF Fetch, WorldTypes
  <2>3. /\ stage' = "rootcrl" /\ stage = "pckcrl" /\ held'.pckCrl = answer
        /\ held'.tcb = held.tcb /\ held'.qe = held.qe /\ held'.rootCrl = held.rootCrl
    BY <1>1, <2>1, FetchKeeps
  <2> HIDE DEF answer
  <2> QED
    BY <1>3, <2>2, <2>3 DEF HandInv, Slot, HasTcb, HasQe, HasPckCrl
<1>7. CASE FetchRootCrl
  <2>1. Fetch("rootCrl", RootCrlResponse, "rootcrl", "ready")
    BY <1>7 DEF FetchRootCrl
  <2>2. RootCrlResponse \in Crl
    BY <1>1, ResponsesTyped
  <2>3. /\ stage' = "ready" /\ stage = "rootcrl" /\ held'.rootCrl = RootCrlResponse
        /\ held'.tcb = held.tcb /\ held'.qe = held.qe /\ held'.pckCrl = held.pckCrl
    BY <1>1, <2>1, FetchKeeps
  <2> QED
    BY <1>3, <2>2, <2>3 DEF HandInv, Slot, HasTcb, HasQe, HasPckCrl
<1> QED
  BY <1>4, <1>5, <1>6, <1>7

(* The client's other steps take a quote, empty the hand, or put a         *)
(* document in the place of another.                                       *)
LEMMA HandClient ==
  ASSUME WorldInv, HandInv, Client
  PROVE  HandInv'
<1>1. CASE \E q \in Quotes : TakeQuote(q)
  <2>1. /\ stage' = "tcb" /\ quote' \in Quotes /\ held' = EmptyHanded
        /\ UNCHANGED <<now, published, promotedAt, revokedAt>>
    BY <1>1 DEF TakeQuote, intelVars
  <2>2. quote' # Nothing
    BY <2>1, NothingAssumption
  <2> QED
    BY <2>1, <2>2 DEF HandInv, Slot, HasTcb, HasQe, HasPckCrl, EmptyHanded
<1>2. CASE \E q \in Quotes : Reuse(q)
  <2>1. /\ stage = "ready" /\ quote' \in Quotes
        /\ UNCHANGED <<stage, held, now, published, promotedAt, revokedAt>>
    BY <1>2 DEF Reuse, intelVars
  <2>2. quote' # Nothing
    BY <2>1, NothingAssumption
  <2> QED
    BY <2>1, <2>2 DEF HandInv, HasTcb, HasQe, HasPckCrl
<1>3. CASE FetchTcb \/ FetchQe \/ FetchPckCrl \/ FetchRootCrl
  BY <1>3, HandFetch
<1>4. CASE GiveUp
  <2>1. /\ stage' = "start" /\ quote' = Nothing /\ held' = EmptyHanded
        /\ UNCHANGED <<now, published, promotedAt, revokedAt>>
    BY <1>4 DEF GiveUp, intelVars
  <2> QED
    BY <2>1 DEF HandInv, Slot, HasTcb, HasQe, HasPckCrl, EmptyHanded
<1>5. CASE \E f \in Fmspc, t \in Track : SpliceTcbInfo(f, t)
  <2>1. PICK f \in Fmspc, t \in Track : SpliceTcbInfo(f, t)
    BY <1>5
  <2> DEFINE doc == TcbResponse(f, t).doc
  <2>2. doc \in TcbInfo
    BY ResponsesTyped DEF WorldInv
  <2>3. /\ stage = "ready" /\ held' = [held EXCEPT !.tcb.doc = doc]
        /\ UNCHANGED <<stage, quote, now, published, promotedAt, revokedAt>>
    BY <2>1 DEF SpliceTcbInfo, intelVars
  <2> HIDE DEF doc
  <2>4. DOMAIN held = {"tcb", "qe", "pckCrl", "rootCrl"}
        /\ held.tcb \in [doc : TcbInfo, chain : PemChain]
    BY <2>3 DEF WorldInv, WorldTypes, HandInv, Slot, HasTcb
  <2>5. /\ held'.tcb = [held.tcb EXCEPT !.doc = doc]
        /\ held'.qe = held.qe /\ held'.pckCrl = held.pckCrl /\ held'.rootCrl = held.rootCrl
    BY <2>3, <2>4
  <2>6. held'.tcb \in [doc : TcbInfo, chain : PemChain]
    BY <2>2, <2>4, <2>5
  <2> QED
    BY <2>3, <2>5, <2>6 DEF HandInv, Slot, HasTcb, HasQe, HasPckCrl
<1> QED
  BY <1>1, <1>2, <1>3, <1>4, <1>5 DEF Client

(* What the client holds at a stage is what it has fetched so far, whole,  *)
(* and Intel's dates are of the past, for all chains, documents, quotes    *)
(* and lifetimes.                                                          *)
THEOREM WorldTypeCorrect == WorldSpec => []WorldTypeOK
<1>1. WorldInit => WorldInv /\ CallInv /\ HandInv
  BY WorldStart, HandInit
<1>2. WorldInv /\ CallInv /\ HandInv /\ [WorldNext]_allVars => WorldInv' /\ CallInv' /\ HandInv'
  <2> SUFFICES ASSUME WorldInv, CallInv, HandInv, [WorldNext]_allVars PROVE HandInv'
    BY WorldStep
  <2>1. CASE UNCHANGED worldVars
    BY <2>1 DEF worldVars, HandInv, HasTcb, HasQe, HasPckCrl
  <2> QED
    BY <2>1, HandIntel, HandClient DEF WorldNext, Verify, allVars
<1>3. WorldInv /\ HandInv => WorldTypeOK
  BY HandTyped
<1> QED
  BY <1>1, <1>2, <1>3, PTL DEF WorldSpec

-----------------------------------------------------------------------------
(* A peek leads to the right documents. *)

(* A CRL of its issuer, with nothing on it but what has been revoked.      *)
PublishedCrl(crl, name, key) ==
  /\ Promise!CrlOf(crl, name, key)
  /\ \A s \in crl.revoked :
       \E c \in Revocable : c.issuer = crl.issuer /\ c.serial = s /\ revokedAt[c] # Never

PublishedFor(answer) ==
  LET issuing == Leaf(answer.chain.ders)
  IN PublishedCrl(answer.doc, issuing.subject, issuing.key)

(* What is in hand was fetched for the quote it is kept with: until the    *)
(* client is ready that is the quote in hand, and the PCK CRL is of the CA *)
(* that the quote names.                                                   *)
FetchedInv ==
  /\ fetchedFor # Nothing =>
       /\ stage # "start" /\ PckParamsError(fetchedFor) = Ok
       /\ stage # "ready" => quote = fetchedFor
       /\ HasPckCrl => held.pckCrl.chain = PckCaChain[PckCollateralParams(fetchedFor).ca]
  /\ HasPckCrl => PublishedFor(held.pckCrl)
  /\ stage = "ready" => PublishedCrl(held.rootCrl, RootName, RootKey)

(* What has been revoked stays revoked. *)
LEMMA PublishedKept ==
  ASSUME \A c \in Revocable : revokedAt[c] # Never => revokedAt'[c] # Never
  PROVE  /\ \A crl, name, key : PublishedCrl(crl, name, key) => PublishedCrl(crl, name, key)'
         /\ \A answer : PublishedFor(answer) => PublishedFor(answer)'
<1>1. \A crl, name, key : PublishedCrl(crl, name, key) => PublishedCrl(crl, name, key)'
  BY DEF PublishedCrl
<1> QED
  BY <1>1 DEF PublishedFor

(* Intel revokes no certificate twice. *)
LEMMA RevocationsStay ==
  ASSUME WorldTypes, Intel \/ UNCHANGED intelVars
  PROVE  \A c \in Revocable : revokedAt[c] # Never => revokedAt'[c] # Never
<1>1. CASE \E d \in Revocable : Revoke(d)
  <2>1. PICK d \in Revocable : revokedAt' = [revokedAt EXCEPT ![d] = now]
    BY <1>1 DEF Revoke
  <2>2. now # Never
    <3>1. now \in Int /\ now <= MaxNow /\ MaxNow \in Int /\ Never \in Int /\ Never > MaxNow
      BY RoundsAre, ClientAssumption DEF WorldTypes
    <3> QED
      BY <3>1
  <2>3. \A c \in Revocable : revokedAt'[c] = IF c = d THEN now ELSE revokedAt[c]
    BY <2>1 DEF WorldTypes
  <2> QED
    BY <2>2, <2>3
<1>2. CASE Tick \/ Publish \/ Promote \/ UNCHANGED intelVars
  <2>1. revokedAt' = revokedAt
    BY <1>2 DEF Tick, Publish, Promote, intelVars
  <2> QED
    BY <2>1
<1> QED
  BY <1>1, <1>2 DEF Intel

(* Intel puts on a CRL what it has revoked. *)
LEMMA CrlResponsesPublished ==
  ASSUME WorldTypes
  PROVE  /\ \A ca \in PckCa : PublishedFor(PckCrlResponse(ca))
         /\ PublishedCrl(RootCrlResponse, RootName, RootKey)
<1>1. ASSUME NEW name, NEW key PROVE PublishedCrl(IssuedCrl(name, key), name, key)
  <2>1. /\ IssuedCrl(name, key).issuer = name
        /\ IssuedCrl(name, key).revoked =
             {c.serial : c \in {d \in Revocable : d.issuer = name /\ revokedAt[d] <= now}}
    BY DEF IssuedCrl
  <2>2. \A d \in Revocable : revokedAt[d] <= now => revokedAt[d] # Never
    <3>1. now \in Int /\ now <= MaxNow /\ MaxNow \in Int /\ Never \in Int /\ Never > MaxNow
      BY RoundsAre, ClientAssumption DEF WorldTypes
    <3> QED
      BY <3>1
  <2>3. Promise!CrlOf(IssuedCrl(name, key), name, key)
    BY DEF IssuedCrl, Promise!CrlOf
  <2> QED
    BY <2>1, <2>2, <2>3 DEF PublishedCrl
<1>2. ASSUME NEW ca \in PckCa PROVE PublishedFor(PckCrlResponse(ca))
  BY <1>1 DEF PckCrlResponse, PublishedFor
<1> QED
  BY <1>1, <1>2 DEF RootCrlResponse, RootName

(* Each fetch is for the quote in hand. *)
LEMMA FetchedFetch ==
  ASSUME WorldTypes, FetchedInv, FetchTcb \/ FetchQe \/ FetchPckCrl \/ FetchRootCrl
  PROVE  FetchedInv'
<1> USE DEF Stage
<1>1. UNCHANGED <<quote, fetchedFor>> /\ UNCHANGED intelVars /\ stage \notin {"start", "ready"}
  BY DEF FetchTcb, FetchQe, FetchPckCrl, FetchRootCrl, Fetch
<1>2. /\ \A crl, name, key : PublishedCrl(crl, name, key) => PublishedCrl(crl, name, key)'
      /\ \A answer : PublishedFor(answer) => PublishedFor(answer)'
  BY <1>1, RevocationsStay, PublishedKept
<1>3. CASE FetchTcb \/ FetchQe
  <2>1. stage' \in {"qe", "pckcrl"}
    BY <1>3 DEF FetchTcb, FetchQe, Fetch
  <2> QED
    BY <1>1, <2>1 DEF FetchedInv, HasPckCrl
<1>4. CASE FetchPckCrl
  <2>1. Fetch("pckCrl", PckCrlResponse(Peeked.ca), "pckcrl", "rootcrl")
    BY <1>4 DEF FetchPckCrl
  <2>2. Peeked.ca \in PckCa
    BY <2>1, PeekedCa DEF Fetch, WorldTypes
  <2>0. PICK answer : answer = PckCrlResponse(Peeked.ca)
    OBVIOUS
  <2>3. PublishedFor(answer) /\ answer.chain = PckCaChain[Peeked.ca]
    BY <2>0, <2>2, CrlResponsesPublished DEF PckCrlResponse
  <2>4. stage' = "rootcrl" /\ stage = "pckcrl" /\ held'.pckCrl = answer
    BY <2>0, <2>1, FetchKeeps
  <2>5. PublishedFor(held.pckCrl)'
    <3>1. PublishedFor(answer)'
      BY <1>2, <2>3
    <3> QED
      BY <2>4, <3>1 DEF PublishedFor, PublishedCrl
  <2>6. fetchedFor # Nothing => Peeked = PckCollateralParams(fetchedFor)
    BY <2>4 DEF FetchedInv, Peeked
  <2> QED
    BY <1>1, <2>3, <2>4, <2>5, <2>6 DEF FetchedInv, HasPckCrl
<1>5. CASE FetchRootCrl
  <2>1. Fetch("rootCrl", RootCrlResponse, "rootcrl", "ready")
    BY <1>5 DEF FetchRootCrl
  <2>2. /\ stage' = "ready" /\ stage = "rootcrl"
        /\ held'.rootCrl = RootCrlResponse /\ held'.pckCrl = held.pckCrl
    BY <2>1, FetchKeeps
  <2>3. PublishedCrl(held.rootCrl, RootName, RootKey)'
    <3>0. PICK crl : crl = RootCrlResponse
      OBVIOUS
    <3>1. PublishedCrl(crl, RootName, RootKey)
      BY <3>0, CrlResponsesPublished
    <3>2. PublishedCrl(crl, RootName, RootKey)'
      BY <1>2, <3>1
    <3> QED
      BY <2>2, <3>0, <3>2 DEF PublishedCrl
  <2>4. PublishedFor(held.pckCrl)'
    BY <1>2, <2>2 DEF FetchedInv, HasPckCrl, PublishedFor, PublishedCrl
  <2> QED
    BY <1>1, <2>2, <2>3, <2>4 DEF FetchedInv, HasPckCrl
<1> QED
  BY <1>3, <1>4, <1>5

(* So is what the client's other steps leave in its hand. *)
LEMMA FetchedClient ==
  ASSUME WorldInv, FetchedInv, Client
  PROVE  FetchedInv'
<1>0. WorldTypes /\ HeldOk
  BY DEF WorldInv
<1>1. CASE \E q \in Quotes : TakeQuote(q)
  <2>1. /\ stage' = "tcb" /\ PckParamsError(quote') = Ok /\ fetchedFor' = quote'
    BY <1>1 DEF TakeQuote
  <2> QED
    BY <2>1 DEF FetchedInv, HasPckCrl
<1>2. CASE \E q \in Quotes : Reuse(q)
  <2>1. stage = "ready" /\ UNCHANGED <<stage, held, fetchedFor, revokedAt>>
    BY <1>2 DEF Reuse, intelVars
  <2> QED
    BY <2>1 DEF FetchedInv, HasPckCrl, PublishedFor, PublishedCrl
<1>3. CASE FetchTcb \/ FetchQe \/ FetchPckCrl \/ FetchRootCrl
  BY <1>0, <1>3, FetchedFetch
<1>4. CASE GiveUp
  BY <1>4 DEF GiveUp, FetchedInv, HasPckCrl
<1>5. CASE \E f \in Fmspc, t \in Track : SpliceTcbInfo(f, t)
  <2>1. PICK f \in Fmspc, t \in Track : SpliceTcbInfo(f, t)
    BY <1>5
  <2>2. PICK doc : doc = TcbResponse(f, t).doc
    OBVIOUS
  <2>3. /\ stage = "ready" /\ held' = [held EXCEPT !.tcb.doc = doc] /\ fetchedFor' = Nothing
        /\ UNCHANGED <<stage, revokedAt>>
    BY <2>1, <2>2 DEF SpliceTcbInfo, intelVars
  <2>4. DOMAIN held = {"tcb", "qe", "pckCrl", "rootCrl"}
    BY <1>0 DEF WorldTypes
  <2>5. held'.pckCrl = held.pckCrl /\ held'.rootCrl = held.rootCrl
    BY <2>3, <2>4
  <2> QED
    BY <2>3, <2>5 DEF FetchedInv, HasPckCrl, PublishedFor, PublishedCrl
<1> QED
  BY <1>1, <1>2, <1>3, <1>4, <1>5 DEF Client

(* Nothing Intel does changes what was fetched for which quote. *)
LEMMA FetchedStep ==
  ASSUME WorldInv, FetchedInv, [WorldNext]_allVars
  PROVE  FetchedInv'
<1>1. CASE Client
  BY <1>1, FetchedClient
<1>2. CASE Intel \/ UNCHANGED worldVars
  <2>1. UNCHANGED <<stage, quote, held, fetchedFor>>
    BY <1>2 DEF Intel, Tick, Revoke, Publish, Promote, clientVars, worldVars
  <2>2. Intel \/ UNCHANGED intelVars
    BY <1>2 DEF worldVars, intelVars
  <2>3. /\ \A crl, name, key : PublishedCrl(crl, name, key) => PublishedCrl(crl, name, key)'
        /\ \A answer : PublishedFor(answer) => PublishedFor(answer)'
    BY <2>2, RevocationsStay, PublishedKept DEF WorldInv
  <2>4. /\ HasPckCrl => PublishedFor(held.pckCrl)'
        /\ stage = "ready" => PublishedCrl(held.rootCrl, RootName, RootKey)'
    <3>1. PICK pck, root : pck = held.pckCrl /\ root = held.rootCrl
      OBVIOUS
    <3>2. /\ HasPckCrl => PublishedFor(pck)'
          /\ stage = "ready" => PublishedCrl(root, RootName, RootKey)'
      BY <2>3, <3>1 DEF FetchedInv
    <3> QED
      BY <2>1, <3>1, <3>2 DEF PublishedFor, PublishedCrl
  <2> QED
    BY <2>1, <2>4 DEF FetchedInv, HasPckCrl
<1> QED
  BY <1>1, <1>2 DEF WorldNext, Verify, allVars

(* In the beginning nothing was fetched. *)
LEMMA FetchedInit == WorldInit => FetchedInv
  BY DEF WorldInit, FetchedInv, HasPckCrl

-----------------------------------------------------------------------------
(* The quotes that are accepted are those that platforms made. *)

(* The second a call is made at is the client's. *)
LEMMA CallSecond ==
  ASSUME WorldInv, CallInv, pc # "idle"
  PROVE  /\ Promise!NowOf(request) \in -MaxSkew..(MaxNow + MaxSkew)
         /\ request.currentTime \div TicksPerSecond = Promise!NowOf(request)
         /\ request.quote = quote /\ request.collateral = Collateral
         /\ request.expectedMrenclave = quote.reportBody.mrenclave
<1>1. PICK skew \in -MaxSkew..MaxSkew, floor \in Floors : request = RequestAt(now + skew, floor)
  BY DEF WorldInv, CallOk
<1>2. request \in Request
  BY DEF CallInv, TypeInv, TypeOK
<1>3. /\ now \in Nat /\ now <= MaxNow /\ MaxSkew \in Nat /\ MaxNow \in Nat
      /\ MaxNow + MaxSkew <= MaxSeconds /\ MaxSeconds \in Nat
      /\ skew \in Int /\ -MaxSkew <= skew /\ skew <= MaxSkew
      /\ TicksPerSecond \in Nat \ {0}
  BY ClientAssumption, ClockAssumption DEF WorldInv, WorldTypes
<1>4. PICK t : t = now + skew
  OBVIOUS
<1>5. t \in Int /\ -MaxSkew <= t /\ t <= MaxNow + MaxSkew /\ t <= MaxSeconds /\ -t <= MaxSeconds
  BY <1>3, <1>4
<1>6. /\ request.currentTime = t * TicksPerSecond /\ request.quote = quote
      /\ request.collateral = Collateral
      /\ request.expectedMrenclave = quote.reportBody.mrenclave
  BY <1>1, <1>4 DEF RequestAt
<1>7. UnixSeconds(t * TicksPerSecond) = t /\ (t * TicksPerSecond) \div TicksPerSecond = t
  <2>1. PICK ticks : ticks = t * TicksPerSecond
    OBVIOUS
  <2>2. ticks \in Int /\ ticks \div TicksPerSecond = t
    <3>1. \A x \in Int, y \in Nat \ {0} : (x * y) \div y = x
      OBVIOUS
    <3>2. \A x \in Int, y \in Nat \ {0} : x * y \in Int
      OBVIOUS
    <3> QED
      BY <1>3, <1>5, <2>1, <3>1, <3>2
  <2>3. CASE t >= 0
    <3>1. ticks >= 0
      <4>1. \A x, y \in Nat : x * y >= 0
        OBVIOUS
      <4> QED
        BY <1>3, <1>5, <2>1, <2>3, <4>1
    <3> QED
      BY <1>3, <1>5, <2>1, <2>2, <3>1 DEF UnixSeconds, AtMost
  <2>4. CASE t < 0
    <3>1. -t \in Nat /\ ((-t) * TicksPerSecond) \div TicksPerSecond = -t /\ -t > 0
      BY <1>3, <1>5, <2>4, SecondsBack
    <3>2. -(t * TicksPerSecond) = (-t) * TicksPerSecond /\ t * TicksPerSecond < 0
      BY <1>3, <1>5, <2>4
    <3>3. ~(ticks >= 0) /\ (-ticks) \div TicksPerSecond = -t
      BY <2>1, <2>2, <3>1, <3>2
    <3>4. UnixSeconds(ticks) = -AtMost(-t, MaxSeconds)
      BY <3>3 DEF UnixSeconds
    <3>5. -AtMost(-t, MaxSeconds) = t
      BY <1>5 DEF AtMost
    <3> QED
      BY <2>1, <2>2, <3>4, <3>5
  <2> QED
    BY <1>5, <2>3, <2>4
<1>8. Promise!NowOf(request) = t
  BY <1>2, <1>6, <1>7, NowType DEF Now
<1> QED
  BY <1>3, <1>5, <1>6, <1>7, <1>8

(* An accepted quote was signed by a platform. *)
LEMMA OnlyGenuineAccepted ==
  ASSUME WorldInv, CallInv, verdict.kind = "accepted"
  PROVE  request.quote \in Genuine
<1>1. pc # "idle" /\ Promise!Acceptable(request)
  BY AcceptedCall
<1>2. request \in Request
  BY <1>1, CallTime
<1>3. /\ Promise!NowOf(request) \in -MaxSkew..(MaxNow + MaxSkew)
      /\ request.quote = quote /\ stage = "ready"
  BY <1>1, CallSecond, CallTime
<1>4. quote \in Quotes
  BY <1>3 DEF WorldInv, WorldTypes
<1>5. Promise!QuoteGenuine(request) /\ ~IsDebug(request.quote.reportBody)
  BY <1>1 DEF Promise!Acceptable, Promise!IsDebug, IsDebug, Promise!DebugFlag, DebugFlag
<1>6. Promise!AttestationKeyBound(request) /\ Promise!QeReportGenuine(request)
      /\ Promise!PkiSound(request)
  BY <1>5 DEF Promise!QuoteGenuine, Promise!AttestationKeyBound, Promise!QeReportGenuine
<1>7. SignedThrough(request.quote)
  <2>1. request.quote.qeVendorId = IntelQeVendorId
    BY <1>1, <1>2, AcceptableCertificates DEF Promise!Legible, Promise!Measured
  <2> QED
    BY <1>5, <1>6, <2>1 DEF Promise!QuoteGenuine, Promise!AttestationKeyBound,
                            Promise!QeReportGenuine,
                            Promise!PckLeaf, Promise!LeafOf, SignedThrough, Leaf, Usable
<1>8. /\ Promise!Readable(request.quote.certData)
      /\ Promise!Trusted(request.quote.certData, Promise!NowOf(request))
  BY <1>6 DEF Promise!PkiSound, Promise!AllTrusted, Promise!Legible, Promise!Chains
<1> QED
  BY <1>3, <1>4, <1>7, <1>8, PlatformsAssumption

-----------------------------------------------------------------------------
(* A genuine quote, with the documents its peek led to, is accepted. *)

(* A call with a quote of a platform and what was fetched for it.          *)
ForItsQuote ==
  /\ WorldInv /\ CallInv /\ FetchedInv /\ pc # "idle"
  /\ request.quote = fetchedFor /\ fetchedFor \in Genuine

(* The CA that a genuine quote is peeked into for issued its certificate.  *)
LEMMA PeekedCaIssued ==
  ASSUME NEW q \in Genuine, PckParamsError(q) = Ok
  PROVE  /\ PckCollateralParams(q).ca \in PckCa
         /\ Leaf(PckCaChain[PckCollateralParams(q).ca].ders).subject
              = Leaf(q.certData.ders).issuer
<1>1. PICK ca \in PckCa : Leaf(q.certData.ders).issuer = Leaf(PckCaChain[ca].ders).subject
  BY PlatformsAssumption
<1>2. CommonName[Leaf(q.certData.ders).issuer] = PckCaCn[ca]
  BY <1>1, ServiceAssumption
<1>3. \A x \in PckCa : PckCaCn[x] = PckCaCn[ca] => x = ca
  <2>1. /\ PckCaCn["processor"] = "Intel SGX PCK Processor CA"
        /\ PckCaCn["platform"] = "Intel SGX PCK Platform CA"
    BY DEF PckCaCn
  <2> QED
    BY <2>1 DEF PckCa
<1>4. NamedBy(PckCaCn[ca]) = {ca}
  BY <1>3 DEF NamedBy
<1>5. PckCollateralParams(q).ca = ca
  BY <1>2, <1>4 DEF PckCollateralParams
<1> QED
  BY <1>1, <1>5

(* What a call with them consists of. *)
LEMMA ForItsQuoteIs ==
  ASSUME ForItsQuote
  PROVE  LET c == request.collateral
             leaf == Leaf(request.quote.certData.ders)
         IN /\ request \in Request /\ request.policy = {} /\ c.version = 3
            /\ request.expectedMrenclave = request.quote.reportBody.mrenclave
            /\ PckParamsError(request.quote) = Ok
            /\ c.tcbInfoIssuerChain = TcbSigningChain /\ c.qeIdentityIssuerChain = TcbSigningChain
            /\ c.pckCrlIssuerChain \in {PckCaChain[ca] : ca \in PckCa}
            /\ Leaf(c.pckCrlIssuerChain.ders).subject = leaf.issuer
            /\ PublishedCrl(c.pckCrl, leaf.issuer, Leaf(c.pckCrlIssuerChain.ders).key)
            /\ PublishedCrl(c.rootCaCrl, RootName, RootKey)
            /\ CrlAnswer(c.pckCrl) /\ CrlAnswer(c.rootCaCrl)
            /\ TcbAnswer(c.tcbInfo) /\ QeAnswer(c.qeIdentity)
<1>1. /\ request \in Request /\ request.policy = {} /\ stage = "ready"
      /\ request.collateral = Collateral /\ request.quote = quote
      /\ request.expectedMrenclave = quote.reportBody.mrenclave
  BY CallTime, CallSecond DEF ForItsQuote
<1>2. fetchedFor # Nothing /\ fetchedFor \in Genuine /\ request.quote = fetchedFor
  BY PlatformsAssumption, NothingAssumption DEF ForItsQuote
<1>3. PckParamsError(request.quote) = Ok
  BY <1>2 DEF ForItsQuote, FetchedInv
<1>4. /\ held.pckCrl.chain = PckCaChain[PckCollateralParams(request.quote).ca]
      /\ PublishedFor(held.pckCrl) /\ PublishedCrl(held.rootCrl, RootName, RootKey)
  BY <1>1, <1>2 DEF ForItsQuote, FetchedInv, HasPckCrl
<1>5. /\ TcbAnswer(held.tcb.doc) /\ held.tcb.chain = TcbSigningChain
      /\ QeAnswer(held.qe.doc) /\ held.qe.chain = TcbSigningChain
      /\ CrlAnswer(held.pckCrl.doc) /\ CrlAnswer(held.rootCrl)
  BY <1>1 DEF ForItsQuote, WorldInv, HeldOk, HasTcb, HasQe, HasPckCrl
<1>6. /\ PckCollateralParams(request.quote).ca \in PckCa
      /\ Leaf(held.pckCrl.chain.ders).subject = Leaf(request.quote.certData.ders).issuer
  BY <1>2, <1>3, <1>4, PeekedCaIssued
<1> QED
  BY <1>1, <1>3, <1>4, <1>5, <1>6 DEF Collateral, PublishedFor

(* Documents and CRLs are as fresh as they are new. *)
Recent(r) ==
  LET c == r.collateral
      t == Promise!NowOf(r)
  IN /\ \A doc \in {c.tcbInfo, c.qeIdentity} :
          doc.issueDate <= t /\ t < doc.issueDate + DocLifetime
                            /\ doc.tcbEvaluationDataNumber >= r.minRound
     /\ \A crl \in {c.pckCrl, c.rootCaCrl} :
          crl.thisUpdate <= t /\ t < crl.thisUpdate + CrlLifetime

(* A genuine quote can be read, and so can the chains that Intel serves.   *)
LEMMA ItsChains ==
  ASSUME ForItsQuote, Recent(request), NEW chain \in Promise!Chains(request)
  PROVE  /\ chain \in PemChain /\ Promise!Readable(chain)
         /\ Promise!Trusted(chain, Promise!NowOf(request))
         /\ chain \in Served \cup {q.certData : q \in Genuine}
<1>1. /\ request \in Request /\ PckParamsError(request.quote) = Ok
      /\ request.collateral.tcbInfoIssuerChain = TcbSigningChain
      /\ request.collateral.qeIdentityIssuerChain = TcbSigningChain
      /\ request.collateral.pckCrlIssuerChain \in {PckCaChain[ca] : ca \in PckCa}
      /\ TcbAnswer(request.collateral.tcbInfo)
  BY ForItsQuoteIs
<1>2. request.quote \in Genuine
  BY DEF ForItsQuote
<1>3. Promise!NowOf(request) \in 0..(MaxNow + MaxSkew)
  <2>1. PICK t : t = Promise!NowOf(request)
    OBVIOUS
  <2>2. t \in -MaxSkew..(MaxNow + MaxSkew)
    BY <2>1, CallSecond DEF ForItsQuote
  <2>3. PICK issued \in Nat : request.collateral.tcbInfo.issueDate = issued
    <3>1. PICK f \in Fmspc, n \in Round, issued \in Nat :
            request.collateral.tcbInfo = DatedAt(TcbInfoOf[f][n], issued)
      BY <1>1 DEF TcbAnswer
    <3>2. TcbInfoOf[f][n] \in TcbInfo
      BY DocumentsAssumption
    <3>3. DatedAt(TcbInfoOf[f][n], issued).issueDate = issued
      BY <3>2, DatedTcb
    <3> QED
      BY <3>1, <3>3
  <2>4. issued <= t
    BY <2>1, <2>3 DEF Recent
  <2>5. MaxNow \in Nat /\ MaxSkew \in Nat
    BY ClientAssumption
  <2>6. t \in 0..(MaxNow + MaxSkew)
    BY <2>2, <2>3, <2>4, <2>5
  <2> QED
    BY <2>1, <2>6
<1>4. CASE chain = request.quote.certData
  <2>1. chain \in PemChain
    BY <1>1, <1>4, RequestParts DEF SgxQuote
  <2>2. FromPem("QuotePck", chain) = Ok /\ ParseChain("QuotePck", chain) = Ok
    BY <1>1, <1>4 DEF PckParamsError, Ok
  <2>3. GoodThroughout(chain)
    BY <1>2, <1>4, PlatformsAssumption
  <2> QED
    BY <1>2, <1>3, <1>4, <2>1, <2>2, <2>3, ReadableIff DEF GoodThroughout
<1>5. CASE chain \in Served
  BY <1>3, <1>5, ServiceAssumption, IssuersAssumption DEF Served, ByTheRoot, GoodThroughout
<1> QED
  BY <1>1, <1>4, <1>5 DEF Promise!Chains, Promise!CollateralChains, Served

(* No certificate of a call is on a CRL, unless it was revoked. *)
LEMMA ItsCertsUnlisted ==
  ASSUME ForItsQuote, Recent(request), NEW chain \in Promise!Chains(request),
         NEW i \in DOMAIN chain.ders, NEW crl,
         crl = request.collateral.pckCrl \/ crl = request.collateral.rootCaCrl,
         \A x \in Relied \cap Revocable : revokedAt[x] = Never
  PROVE  ~Promise!Listed(chain.ders[i], crl)
<1> SUFFICES ASSUME Promise!Listed(chain.ders[i], crl) PROVE FALSE
  OBVIOUS
<1>1. PICK s \in crl.revoked : Promise!SameSerial(s, chain.ders[i].serial)
  BY DEF Promise!Listed
<1>2. crl.issuer = chain.ders[i].issuer
  BY DEF Promise!Listed
<1>3. PICK d \in Revocable : d.issuer = crl.issuer /\ d.serial = s /\ revokedAt[d] # Never
  BY <1>1, ForItsQuoteIs DEF PublishedCrl
<1>4. chain \in Served \cup {q.certData : q \in Genuine} /\ chain.ders[i] \in CertsOf(chain)
  BY ItsChains DEF CertsOf
<1>5. chain.ders[i] = d
  BY <1>1, <1>2, <1>3, <1>4, SerialsAssumption
<1>6. d \in Relied
  <2>1. PICK j \in 1..4 : chain = ChainAt(request, j)
    BY ChainsAre
  <2>2. d \in {ChainAt(request, j).ders[n] : n \in DOMAIN ChainAt(request, j).ders}
    BY <1>5, <2>1
  <2> QED
    BY <2>2 DEF Relied
<1> QED
  BY <1>3, <1>6

(* The CRLs are those of the right issuers, and current. *)
LEMMA ItsCrls ==
  ASSUME ForItsQuote, Recent(request)
  PROVE  Promise!RightCrls(request) /\ Promise!CrlsCurrent(request)
<1>1. PICK c : c = request.collateral
  OBVIOUS
<1>2. /\ Leaf(c.pckCrlIssuerChain.ders).subject = Leaf(request.quote.certData.ders).issuer
      /\ Promise!CrlOf(c.pckCrl, Leaf(request.quote.certData.ders).issuer,
                       Leaf(c.pckCrlIssuerChain.ders).key)
      /\ Promise!CrlOf(c.rootCaCrl, RootName, RootKey)
      /\ c.pckCrl.nextUpdate = {c.pckCrl.thisUpdate + CrlLifetime}
      /\ c.rootCaCrl.nextUpdate = {c.rootCaCrl.thisUpdate + CrlLifetime}
  BY <1>1, ForItsQuoteIs DEF PublishedCrl, CrlAnswer
<1>3. Root(request.quote.certData.ders).subject = RootName
  BY PlatformsAssumption DEF ForItsQuote
<1>4. Promise!RightCrls(request)
  BY <1>1, <1>2, <1>3 DEF Promise!RightCrls, Promise!PckCa, Promise!PckLeaf, Promise!LeafOf,
                          Promise!RootOf, Leaf, Root
<1>5. Promise!CrlsCurrent(request)
  BY <1>1, <1>2 DEF Recent, Promise!CrlsCurrent, Promise!CrlCurrent
<1> QED
  BY <1>4, <1>5

(* The certificates of the call can be relied on. *)
LEMMA ItsPki ==
  ASSUME ForItsQuote, Recent(request), \A x \in Relied \cap Revocable : revokedAt[x] = Never,
         Promise!FormatsKnown(request.collateral)
  PROVE  Promise!PkiSound(request)
<1>1. Promise!Legible(request)
  <2>1. request.quote.qeVendorId = IntelQeVendorId
    BY PlatformsAssumption DEF ForItsQuote, SignedThrough
  <2>2. request.quote.reportBody.mrenclave = request.expectedMrenclave
    BY ForItsQuoteIs
  <2> QED
    BY <2>1, <2>2, ItsChains DEF Promise!Legible, Promise!Measured
<1>2. Promise!AllTrusted(request)
  BY <1>1, ItsChains DEF Promise!AllTrusted
<1>3. Promise!SignersPinned(request)
  BY ForItsQuoteIs, ServiceAssumption DEF Promise!SignersPinned
<1>4. Promise!NoneListed(request)
  BY ItsCertsUnlisted DEF Promise!NoneListed
<1>5. Promise!PckCa(request).key \notin UnusableKey
  <2>1. request.collateral.pckCrlIssuerChain \in Served
    BY ForItsQuoteIs DEF Served
  <2> QED
    BY <2>1, ServiceAssumption DEF Promise!PckCa, Promise!LeafOf, Leaf, Usable
<1> QED
  BY <1>2, <1>3, <1>4, <1>5, ItsCrls DEF Promise!PkiSound, Promise!NoneRevoked

(* So can the documents. *)
LEMMA ItsDocuments ==
  ASSUME ForItsQuote
  PROVE  /\ Promise!FormatsKnown(request.collateral) /\ Promise!HexReadable(request.collateral)
         /\ request.collateral.tcbInfo.id = "SGX"
         /\ Promise!SignedByLeaf(request.collateral.tcbInfo, TcbSigningChain)
         /\ Promise!SignedByLeaf(request.collateral.qeIdentity, TcbSigningChain)
         /\ request.collateral.tcbInfo.nextUpdate
              = request.collateral.tcbInfo.issueDate + DocLifetime
         /\ request.collateral.qeIdentity.nextUpdate
              = request.collateral.qeIdentity.issueDate + DocLifetime
<1>1. PICK info, id : info = request.collateral.tcbInfo /\ id = request.collateral.qeIdentity
  OBVIOUS
<1>2. PICK f \in Fmspc, n \in Round, t \in Nat : info = DatedAt(TcbInfoOf[f][n], t)
  BY <1>1, ForItsQuoteIs DEF TcbAnswer
<1>3. PICK m \in Round, u \in Nat : id = DatedAt(QeIdentityOf[m], u)
  BY <1>1, ForItsQuoteIs DEF QeAnswer
<1>4. TcbInfoOf[f][n] \in TcbInfo /\ QeIdentityOf[m] \in QeIdentity
  BY DocumentsAssumption
<1>5. /\ info.id = TcbInfoOf[f][n].id /\ info.version = TcbInfoOf[f][n].version
      /\ info.tcbType = TcbInfoOf[f][n].tcbType /\ info.signedBy = TcbInfoOf[f][n].signedBy
      /\ info.fmspc = TcbInfoOf[f][n].fmspc /\ info.pceId = TcbInfoOf[f][n].pceId
      /\ info.nextUpdate = info.issueDate + DocLifetime
  BY <1>2, <1>4 DEF DatedAt, TcbInfo
<1>6. /\ id.version = QeIdentityOf[m].version /\ id.signedBy = QeIdentityOf[m].signedBy
      /\ id.mrsigner = QeIdentityOf[m].mrsigner /\ id.miscselect = QeIdentityOf[m].miscselect
      /\ id.miscselectMask = QeIdentityOf[m].miscselectMask
      /\ id.attributes = QeIdentityOf[m].attributes
      /\ id.attributesMask = QeIdentityOf[m].attributesMask
      /\ id.nextUpdate = id.issueDate + DocLifetime
  BY <1>3, <1>4 DEF DatedAt, QeIdentity
<1>7. /\ info.id = "SGX" /\ info.version = 3 /\ info.tcbType = 0
      /\ info.signedBy = Leaf(TcbSigningChain.ders).key
      /\ BadHex \notin {info.fmspc, info.pceId}
  BY <1>5, ServiceAssumption
<1>8. /\ id.version = 2 /\ id.signedBy = Leaf(TcbSigningChain.ders).key
      /\ BadHex \notin {id.mrsigner, id.miscselect, id.miscselectMask, id.attributes,
                        id.attributesMask}
  BY <1>6, ServiceAssumption
<1>9. Leaf(TcbSigningChain.ders).key \notin UnusableKey
  BY ServiceAssumption DEF Served, Usable
<1>10. request.collateral.version = 3
  BY ForItsQuoteIs
<1> QED
  BY <1>1, <1>5, <1>6, <1>7, <1>8, <1>9, <1>10
     DEF Promise!FormatsKnown, Promise!HexReadable, Promise!SignedByLeaf, Promise!LeafOf, Leaf

(* And the quote. *)
LEMMA ItsQuote ==
  ASSUME ForItsQuote, Promise!PkiSound(request)
  PROVE  /\ Promise!QuoteGenuine(request) /\ ~Promise!IsDebug(request.quote.reportBody)
         /\ Promise!ExtensionReadable(request)
<1>1. SignedThrough(request.quote)
  BY PlatformsAssumption DEF ForItsQuote
<1>2. Promise!QuoteGenuine(request)
  BY <1>1 DEF Promise!QuoteGenuine, Promise!AttestationKeyBound, Promise!QeReportGenuine,
              Promise!PckLeaf, Promise!LeafOf, SignedThrough, Leaf, Usable
<1>3. ~Promise!IsDebug(request.quote.reportBody)
  BY <1>1 DEF SignedThrough, Promise!IsDebug, IsDebug, Promise!DebugFlag, DebugFlag
<1>4. Promise!ExtensionReadable(request)
  <2>1. PckParamsError(request.quote) = Ok
    BY ForItsQuoteIs
  <2>2. ExtensionError(Leaf(PckCerts(request))) = Ok
    BY <2>1 DEF PckParamsError, PckCerts, Ok
  <2> QED
    BY <2>2, ExtensionIff
<1> QED
  BY <1>2, <1>3, <1>4

(* Such a call deserves to be accepted. *)
LEMMA PeekSuffices ==
  ASSUME ForItsQuote, Recent(request), \A x \in Relied \cap Revocable : revokedAt[x] = Never,
         InStanding(request.collateral.tcbInfo, request),
         Promise!QeRecognised(request.collateral.qeIdentity, request.quote.qeReport)
  PROVE  Deserved(request)
<1>1. /\ request \in Request /\ request.policy = {}
      /\ request.collateral.tcbInfoIssuerChain = TcbSigningChain
      /\ request.collateral.qeIdentityIssuerChain = TcbSigningChain
  BY ForItsQuoteIs
<1>2. Promise!PkiSound(request)
  BY ItsPki, ItsDocuments
<1>3. Promise!TcbInfoGenuine(request) /\ Promise!QeIdentityGenuine(request)
  BY <1>1, <1>2, ItsDocuments DEF Promise!TcbInfoGenuine, Promise!QeIdentityGenuine
<1>4. /\ Promise!Fresh(request.collateral.tcbInfo, request)
      /\ Promise!Fresh(request.collateral.qeIdentity, request)
  BY <1>1, ItsDocuments DEF Recent, Promise!Fresh, Promise!Floor
<1>5. Promise!Acceptable(request)
  BY <1>2, <1>3, <1>4, ItsDocuments, ItsQuote DEF Promise!Acceptable
<1>6. [request EXCEPT !.collateral.tcbInfo = request.collateral.tcbInfo] = request
  BY <1>1 DEF Request, SgxCollateral
<1>7. PICK i \in DOMAIN request.collateral.tcbInfo.tcbLevels :
        Promise!HasStanding(request, Promise!StandingOf(request.collateral.tcbInfo.tcbLevels[i]))
  BY <1>6 DEF InStanding
<1> QED
  BY <1>1, <1>5, <1>7 DEF Deserved

(* A peek leads to the right documents, and proves nothing. *)
LEMMA PeekSound == WorldInv /\ CallInv /\ FetchedInv /\ Answer => PeekLeadsRight
<1> SUFFICES ASSUME WorldInv, CallInv, FetchedInv, Answer PROVE PeekLeadsRight
  OBVIOUS
<1>1. ASSUME pc = "returned", request.quote = fetchedFor, fetchedFor \in Genuine,
             \A t \in {request.collateral.tcbInfo.issueDate,
                       request.collateral.qeIdentity.issueDate} : Timely(t, DocLifetime),
             \A t \in {request.collateral.pckCrl.thisUpdate,
                       request.collateral.rootCaCrl.thisUpdate} : Timely(t, CrlLifetime),
             \A x \in Relied \cap Revocable : revokedAt[x] = Never,
             InStanding(request.collateral.tcbInfo, request),
             request.collateral.tcbInfo.tcbEvaluationDataNumber >= request.minRound,
             Promise!QeRecognised(request.collateral.qeIdentity, request.quote.qeReport),
             request.collateral.qeIdentity.tcbEvaluationDataNumber >= request.minRound
      PROVE  verdict.kind = "accepted"
  <2>1. ForItsQuote
    BY <1>1 DEF ForItsQuote
  <2>2. Recent(request)
    BY <1>1, CallSecond DEF Recent, Timely
  <2>3. Deserved(request) /\ request \in Request
    BY <1>1, <2>1, <2>2, PeekSuffices, ForItsQuoteIs
  <2> QED
    BY <1>1, <2>3, NothingAtFault DEF Answer
<1> QED
  BY <1>1, OnlyGenuineAccepted DEF PeekLeadsRight

(* The documents that a peek leads to are enough: whatever Intel publishes *)
(* and revokes meanwhile, however many fetches that takes and whatever the *)
(* clock, a genuine quote of a good platform is accepted while they are in *)
(* their windows.  And no documents make a quote acceptable that no        *)
(* platform made.                                                          *)
THEOREM PeekingLeadsRight == WorldSpec => []PeekLeadsRight
<1>1. WorldInit => WorldInv /\ CallInv /\ FetchedInv /\ Answer
  BY WorldStart, FetchedInit DEF WorldInit, Init, Answer
<1>2. WorldInv /\ CallInv /\ FetchedInv /\ Answer /\ [WorldNext]_allVars
        => WorldInv' /\ CallInv' /\ FetchedInv' /\ Answer'
  <2> SUFFICES ASSUME WorldInv, CallInv, FetchedInv, Answer, [WorldNext]_allVars PROVE Answer'
    BY WorldStep, FetchedStep
  <2>1. CASE [Next]_vars
    BY <2>1, AnswerStep DEF CallInv
  <2>2. CASE Verify
    BY <2>2 DEF Verify, CallWith, Answer
  <2>3. CASE Intel \/ Client
    <3>1. UNCHANGED vars
      BY <2>3 DEF Intel, Client, Tick, Revoke, Publish, Promote, TakeQuote, Reuse, FetchTcb,
                  FetchQe, FetchPckCrl, FetchRootCrl, Fetch, GiveUp, SpliceTcbInfo, Between
    <3> QED
      BY <2>1, <3>1
  <2> QED
    BY <2>1, <2>2, <2>3 DEF WorldNext, Next, allVars
<1>3. WorldInv /\ CallInv /\ FetchedInv /\ Answer => PeekLeadsRight
  BY PeekSound
<1> QED
  BY <1>1, <1>2, <1>3, PTL DEF WorldSpec

-----------------------------------------------------------------------------
(* What the verifier promises of the calls it is given, it keeps between   *)
(* the parties.                                                            *)

(* A call with what the client has in hand. *)
ClientCall ==
  /\ Phase = "idle" /\ Phase' = "called" /\ request' \in Request
  /\ UNCHANGED verdict

PromiseToAll ==
  \/ ClientCall
  \/ Promise!Accept
  \/ \E category \in Promise!ErrorCategory : Promise!Reject(category)
  \/ Promise!Return

(* A step of the world is one of the promise, or none of the verifier's.   *)
LEMMA WorldAnswers ==
  WorldInv /\ CallInv /\ [WorldNext]_allVars => [PromiseToAll]_(Promise!vars)
<1> SUFFICES ASSUME WorldInv, CallInv, [WorldNext]_allVars PROVE [PromiseToAll]_(Promise!vars)
  OBVIOUS
<1>1. CASE Step \/ Return
  <2>1. PromiseStep
    BY <1>1, StepRefines DEF CallInv, Next
  <2>2. CASE Promise!Call
    <3>1. Phase' = "called" /\ Phase = "idle"
      BY <2>2 DEF Promise!Call
    <3>2. pc = "idle"
      BY <3>1 DEF Phase
    <3>3. Step
      BY <1>1, <3>2 DEF Return
    <3> QED
      BY <3>2, <3>3, GatesKeepTheCall
  <2> QED
    BY <2>1, <2>2 DEF PromiseStep, Promise!Next, PromiseToAll
<1>2. CASE Verify
  <2>1. PICK skew \in -MaxSkew..MaxSkew, floor \in Floors : CallWith(RequestAt(now + skew, floor))
    BY <1>2 DEF Verify
  <2>2. Phase = "idle" /\ Phase' = "called" /\ verdict' = verdict /\ pc' # "idle"
    BY <2>1 DEF CallWith, Phase
  <2>3. request' \in Request
    <3>1. TypeInv'
      BY <1>2, VerifyStep DEF CallInv
    <3> QED
      BY <2>2, <3>1 DEF TypeInv, TypeOK
  <2> QED
    BY <2>2, <2>3 DEF ClientCall, PromiseToAll
<1>3. CASE UNCHANGED vars
  BY <1>3 DEF vars, Phase, Promise!vars
<1>4. Intel \/ Client \/ UNCHANGED allVars => UNCHANGED vars
  BY DEF Intel, Client, Tick, Revoke, Publish, Promote, TakeQuote, Reuse, FetchTcb,
         FetchQe, FetchPckCrl, FetchRootCrl, Fetch, GiveUp, SpliceTcbInfo, Between, allVars
<1> QED
  BY <1>1, <1>2, <1>3, <1>4 DEF WorldNext

(* Whatever Intel revokes and publishes and the client fetches, keeps and  *)
(* mixes between its calls, each of them is answered as the verifier       *)
(* promises: by the certificates, CRLs, documents and the quote in hand    *)
(* alone, accepted when all of it holds, and otherwise rejected for a      *)
(* fault they have.                                                        *)
THEOREM WorldCallsAnswered ==
  WorldSpec => Promise!Init /\ [][PromiseToAll]_(Promise!vars)
<1>1. WorldInit => WorldInv /\ CallInv /\ Promise!Init
  BY WorldStart DEF WorldInit, Init, Phase, Promise!Init, Pending, Promise!Pending
<1>2. WorldInv /\ CallInv /\ [WorldNext]_allVars => WorldInv' /\ CallInv'
  BY WorldStep
<1>3. WorldInv /\ CallInv /\ [WorldNext]_allVars => [PromiseToAll]_(Promise!vars)
  BY WorldAnswers
<1> QED
  BY <1>1, <1>2, <1>3, PTL DEF WorldSpec
=============================================================================
