--------------------------- MODULE AttestationWorld ---------------------------
(***************************************************************************)
(* The verifier between the parties it is used by: Intel, who revokes      *)
(* certificates and publishes TCB evaluation rounds on an early and a      *)
(* standard track, and a client that peeks into a quote, fetches the four  *)
(* parts of its collateral one after the other, keeps or mixes them, and   *)
(* verifies later by a clock of its own.  The client is that of            *)
(* fixtures/tools/capture_base.py and the capture_*.py beside it.          *)
(*                                                                         *)
(* A call reads its arguments and nothing else, so the parties act between *)
(* calls: a step of theirs during a call commutes with its gates.          *)
(***************************************************************************)
EXTENDS DcapVerify, FiniteSets

CONSTANTS
  Quotes,          \* quotes the client can be handed
  Genuine,         \* those an Intel platform made as they are
  Fmspc,           \* the platform families Intel serves
  MaxRound,        \* TCB evaluation rounds
  TcbInfoOf,       \* TcbInfoOf[f][n]: the tcbInfo of family f in round n
  QeIdentityOf,    \* QeIdentityOf[n]: the QE identity of round n
  TcbSigningChain, \* the issuer chain of both documents
  PckCaChain,      \* PckCaChain[ca]: the issuer chain of a PCK CRL
  Revocable,       \* certificates Intel may revoke
  MaxRevoked,      \* how many of them it does revoke
  DocLifetime,     \* seconds from a document's issue to its nextUpdate
  CrlLifetime,     \* the same of a CRL
  MaxSkew,         \* how far the client's clock may be off
  MaxNow,          \* the last second considered
  Floors,          \* evaluation-round floors of the client
  Nothing          \* no document, no quote

Round == 1..MaxRound
Track == {"early", "standard"}

(* What Intel signs with is issued by its root, and so is every CA.        *)
RootName == Root(TcbSigningChain.ders).subject

ByTheRoot(chain) ==
  /\ chain \in PemChain /\ chain.ders # <<>>
  /\ \A i \in DOMAIN chain.ders : chain.ders[i] \in Cert /\ chain.ders[i].issuer = RootName

ASSUME IssuersAssumption ==
  /\ ByTheRoot(TcbSigningChain)
  /\ PckCaChain \in [PckCa -> PemChain] /\ \A ca \in PckCa : ByTheRoot(PckCaChain[ca])
  /\ Revocable \subseteq Cert
  /\ \A c \in Revocable : c.basicConstraints = "ca" => c.issuer = RootName

ASSUME DocumentsAssumption ==
  /\ MaxRound \in Nat \ {0}
  /\ TcbInfoOf \in [Fmspc -> [Round -> TcbInfo]] /\ QeIdentityOf \in [Round -> QeIdentity]
  /\ \A n \in Round : /\ QeIdentityOf[n].tcbEvaluationDataNumber = n
                       /\ \A f \in Fmspc : TcbInfoOf[f][n].tcbEvaluationDataNumber = n
  /\ DocLifetime \in Nat /\ CrlLifetime \in Nat

(* The provers do not know of a literal that it is a string. *)
ASSUME AlgorithmAssumption == "ecdsa-with-SHA256" \in STRING

(* The clocks stay within the range of unix_seconds. *)
ASSUME ClientAssumption ==
  /\ Quotes \subseteq SgxQuote /\ Floors \subseteq Nat /\ NoRequest \notin Request
  /\ MaxNow \in Nat /\ MaxSkew \in Nat /\ MaxNow + MaxSkew <= MaxSeconds

(* Having nothing in hand is told from having a quote or a response.       *)
ASSUME NothingAssumption ==
  /\ Nothing \notin Quotes /\ Nothing \notin Crl
  /\ Nothing \notin [doc : TcbInfo, chain : PemChain]
  /\ Nothing \notin [doc : QeIdentity, chain : PemChain]
  /\ Nothing \notin [doc : Crl, chain : PemChain]

(* What is served stays good for as long as is considered: its chains lead *)
(* up to the pinned root, its documents are in the form the verifier reads *)
(* and signed with the TCB signing key, a CA goes by the name that a quote *)
(* is peeked into for.                                                     *)
Served == {TcbSigningChain} \cup {PckCaChain[ca] : ca \in PckCa}

GoodThroughout(chain) == \A t \in 0..(MaxNow + MaxSkew) : Promise!Trusted(chain, t)

ASSUME ServiceAssumption ==
  /\ \A chain \in Served :
       /\ Promise!Readable(chain) /\ GoodThroughout(chain) /\ Usable(Leaf(chain.ders).key)
  /\ Promise!SignsTcb(TcbSigningChain)
  /\ \A ca \in PckCa : CommonName[Leaf(PckCaChain[ca].ders).subject] = PckCaCn[ca]
  /\ \A n \in Round :
       LET id == QeIdentityOf[n]
       IN /\ id.version = 2 /\ id.signedBy = Leaf(TcbSigningChain.ders).key
          /\ BadHex \notin {id.mrsigner, id.miscselect, id.miscselectMask, id.attributes,
                            id.attributesMask}
  /\ \A f \in Fmspc, n \in Round :
       LET info == TcbInfoOf[f][n]
       IN /\ info.id = "SGX" /\ info.version = 3 /\ info.tcbType = 0
          /\ info.signedBy = Leaf(TcbSigningChain.ders).key
          /\ BadHex \notin {info.fmspc, info.pceId}

(* A quote of a production enclave, signed under the key that its leaf     *)
(* certificate has.                                                        *)
SignedThrough(q) ==
  /\ q.qeVendorId = IntelQeVendorId /\ ~IsDebug(q.reportBody)
  /\ Usable(Leaf(q.certData.ders).key) /\ q.qeReportSignedBy = Leaf(q.certData.ders).key
  /\ q.qeReport.reportData =
       [head |-> <<q.attestationPubKey, q.qeAuthData>>, tailIsZero |-> TRUE]
  /\ Usable(q.attestationPubKey) /\ q.isvSignedBy = q.attestationPubKey

(* Platforms make such quotes, with certificates of one of the two CAs,    *)
(* and no one else can.                                                    *)
ASSUME PlatformsAssumption ==
  /\ Genuine \subseteq Quotes
  /\ \A q \in Genuine :
       /\ SignedThrough(q) /\ GoodThroughout(q.certData)
       /\ Root(q.certData.ders).subject = RootName
       /\ \E ca \in PckCa : Leaf(q.certData.ders).issuer = Leaf(PckCaChain[ca].ders).subject
  /\ \A q \in Quotes \ Genuine :
       Promise!Readable(q.certData) /\ SignedThrough(q) =>
         \A t \in -MaxSkew..(MaxNow + MaxSkew) : ~Promise!Trusted(q.certData, t)

(* An issuer gives a serial number once. *)
CertsOf(chain) == {chain.ders[i] : i \in DOMAIN chain.ders}

ASSUME SerialsAssumption ==
  \A chain \in Served \cup {q.certData : q \in Genuine} :
    \A c \in CertsOf(chain), d \in Revocable :
      c.issuer = d.issuer /\ Promise!SameSerial(d.serial, c.serial) => c = d

VARIABLES
  now,         \* true time, in seconds
  published,   \* published[t]: the round a track serves
  promotedAt,  \* promotedAt[n]: when the standard track reached round n
  revokedAt,   \* revokedAt[c]: when c was revoked
  stage,       \* what the client fetches next, or "ready"
  quote,       \* the quote in hand
  held,        \* the responses in hand
  fetchedFor   \* the quote all of held was fetched for

intelVars == <<now, published, promotedAt, revokedAt>>
clientVars == <<stage, quote, held, fetchedFor>>
worldVars == <<now, published, promotedAt, revokedAt, stage, quote, held, fetchedFor>>
allVars == <<vars, worldVars>>

Never == MaxNow + 1

-----------------------------------------------------------------------------
(* What Intel answers at this moment.  A document is as fresh as its       *)
(* response.                                                               *)

Dated(doc) == [doc EXCEPT !.issueDate = now, !.nextUpdate = now + DocLifetime]

TcbResponse(f, track) ==
  [doc |-> Dated(TcbInfoOf[f][published[track]]), chain |-> TcbSigningChain]

QeResponse(track) ==
  [doc |-> Dated(QeIdentityOf[published[track]]), chain |-> TcbSigningChain]

IssuedCrl(issuer, key) ==
  [decodable |-> TRUE, outerAlg |-> "ecdsa-with-SHA256", innerAlg |-> "ecdsa-with-SHA256",
   issuer |-> issuer, signedBy |-> key, thisUpdate |-> now, nextUpdate |-> {now + CrlLifetime},
   revoked |-> {c.serial : c \in {d \in Revocable : d.issuer = issuer /\ revokedAt[d] <= now}}]

PckCrlResponse(ca) ==
  LET issuing == Leaf(PckCaChain[ca].ders)
  IN [doc |-> IssuedCrl(issuing.subject, issuing.key), chain |-> PckCaChain[ca]]

RootCrlResponse == IssuedCrl(Root(TcbSigningChain.ders).subject, RootKey)

-----------------------------------------------------------------------------
EmptyHanded == [tcb |-> Nothing, qe |-> Nothing, pckCrl |-> Nothing, rootCrl |-> Nothing]

WorldInit ==
  /\ Init
  /\ now = 0
  /\ published = [t \in Track |-> 1]
  /\ promotedAt = [n \in Round |-> IF n = 1 THEN 0 ELSE Never]
  /\ revokedAt = [c \in Revocable |-> Never]
  /\ stage = "start" /\ quote = Nothing /\ fetchedFor = Nothing
  /\ held = EmptyHanded

Between == pc = "idle" /\ UNCHANGED vars

Tick ==
  /\ Between /\ now < MaxNow
  /\ now' = now + 1
  /\ UNCHANGED <<published, promotedAt, revokedAt, clientVars>>

Revoke(c) ==
  /\ Between /\ revokedAt[c] = Never
  /\ Cardinality({d \in Revocable : revokedAt[d] # Never}) < MaxRevoked
  /\ revokedAt' = [revokedAt EXCEPT ![c] = now]
  /\ UNCHANGED <<now, published, promotedAt, clientVars>>

(* A TCB recovery appears on the early track first. *)
Publish ==
  /\ Between /\ published["early"] < MaxRound
  /\ published' = [published EXCEPT !["early"] = @ + 1]
  /\ UNCHANGED <<now, promotedAt, revokedAt, clientVars>>

Promote ==
  /\ Between /\ published["standard"] < published["early"]
  /\ published' = [published EXCEPT !["standard"] = @ + 1]
  /\ promotedAt' = [promotedAt EXCEPT ![published'["standard"]] = now]
  /\ UNCHANGED <<now, revokedAt, clientVars>>

-----------------------------------------------------------------------------
Peeked == PckCollateralParams(quote)

(* The quote is peeked into for what to fetch, and nothing else of it read. *)
TakeQuote(q) ==
  /\ Between /\ stage \in {"start", "ready"}
  /\ PckParamsError(q) = Ok
  /\ stage' = "tcb" /\ quote' = q /\ fetchedFor' = q /\ held' = EmptyHanded
  /\ UNCHANGED intelVars

(* Collateral fetched for one quote is used with another. *)
Reuse(q) ==
  /\ Between /\ stage = "ready"
  /\ quote' = q
  /\ UNCHANGED <<stage, held, fetchedFor, intelVars>>

Fetch(part, response, at, next) ==
  /\ Between /\ stage = at
  /\ stage' = next
  /\ held' = [held EXCEPT ![part] = response]
  /\ UNCHANGED <<quote, fetchedFor, intelVars>>

FetchTcb ==
  /\ stage = "tcb" /\ Peeked.fmspc \in Fmspc
  /\ \E t \in Track : Fetch("tcb", TcbResponse(Peeked.fmspc, t), "tcb", "qe")

(* A variant that forgets the PCK CRL. *)
FetchQeThenRoot == \E t \in Track : Fetch("qe", QeResponse(t), "qe", "rootcrl")

FetchQe == \E t \in Track : Fetch("qe", QeResponse(t), "qe", "pckcrl")

FetchPckCrl == Fetch("pckCrl", PckCrlResponse(Peeked.ca), "pckcrl", "rootcrl")

FetchRootCrl == Fetch("rootCrl", RootCrlResponse, "rootcrl", "ready")

(* A response that does not come ends the client's attempt. *)
GiveUp ==
  /\ Between /\ stage \notin {"start", "ready"}
  /\ stage' = "start" /\ quote' = Nothing /\ fetchedFor' = Nothing /\ held' = EmptyHanded
  /\ UNCHANGED intelVars

(* Another tcbInfo, of this family or another, is put in the place of the  *)
(* one in hand; the rest of the collateral stays.                          *)
SpliceTcbInfo(f, t) ==
  /\ Between /\ stage = "ready"
  /\ held' = [held EXCEPT !.tcb.doc = TcbResponse(f, t).doc]
  /\ fetchedFor' = Nothing
  /\ UNCHANGED <<stage, quote, intelVars>>

Collateral ==
  [version |-> 3, rootCaCrl |-> held.rootCrl, pckCrl |-> held.pckCrl.doc,
   tcbInfoIssuerChain |-> held.tcb.chain, pckCrlIssuerChain |-> held.pckCrl.chain,
   qeIdentityIssuerChain |-> held.qe.chain,
   tcbInfo |-> held.tcb.doc, qeIdentity |-> held.qe.doc]

RequestAt(clock, floor) ==
  [currentTime |-> clock * TicksPerSecond, collateral |-> Collateral, quote |-> quote,
   expectedMrenclave |-> quote.reportBody.mrenclave, minRound |-> floor, policy |-> {}]

Verify ==
  /\ stage = "ready"
  /\ \E skew \in -MaxSkew..MaxSkew, floor \in Floors :
       CallWith(RequestAt(now + skew, floor))
  /\ UNCHANGED worldVars

-----------------------------------------------------------------------------
Intel == Tick \/ (\E c \in Revocable : Revoke(c)) \/ Publish \/ Promote

Client ==
  \/ \E q \in Quotes : TakeQuote(q) \/ Reuse(q)
  \/ FetchTcb \/ FetchQe \/ FetchPckCrl \/ FetchRootCrl \/ GiveUp
  \/ \E f \in Fmspc, t \in Track : SpliceTcbInfo(f, t)

WorldNext ==
  \/ Intel \/ Client \/ Verify
  \/ (Step \/ Return) /\ UNCHANGED worldVars

WorldSpec == WorldInit /\ [][WorldNext]_allVars

-----------------------------------------------------------------------------
(* What the client holds at a stage is what it has fetched so far, with    *)
(* collateral that is complete when it is used; a call is made with a      *)
(* quote in hand, and no round is on the standard track before the early.  *)
WorldTypeOK ==
  /\ now \in 0..MaxNow
  /\ published \in [Track -> Round] /\ published["standard"] <= published["early"]
  /\ \A n \in Round : promotedAt[n] = Never <=> n > published["standard"]
  /\ \A c \in Revocable : revokedAt[c] \in (0..now) \cup {Never}
  /\ stage \in {"start", "tcb", "qe", "pckcrl", "rootcrl", "ready"}
  /\ quote \in Quotes \cup {Nothing} /\ (quote = Nothing) = (stage = "start")
  /\ held.tcb = Nothing <=> stage \in {"start", "tcb"}
  /\ held.qe = Nothing <=> stage \in {"start", "tcb", "qe"}
  /\ held.pckCrl = Nothing <=> stage \in {"start", "tcb", "qe", "pckcrl"}
  /\ held.rootCrl = Nothing <=> stage # "ready"

(* The certificates a call relies on. *)
Relied ==
  UNION {{ChainAt(request, i).ders[n] : n \in DOMAIN ChainAt(request, i).ders} : i \in 1..4}

(* A revocation takes effect everywhere within the lifetime of a CRL: no   *)
(* call that relies on a revoked certificate is accepted after that, but   *)
(* for the error of the client's clock - whichever of the four chains it   *)
(* is in, whatever the client kept or mixed, whenever it fetched it.       *)
RevocationBound ==
  verdict.kind = "accepted" =>
    \A c \in Relied \cap Revocable : now < revokedAt[c] + CrlLifetime + MaxSkew

-----------------------------------------------------------------------------
(* What round n says of the platform and of its quoting enclave. *)

InStanding(info, r) ==
  \E i \in DOMAIN info.tcbLevels :
    Promise!HasStanding([r EXCEPT !.collateral.tcbInfo = info],
                        Promise!StandingOf(info.tcbLevels[i]))

GoodPlatform(n, r) == \E f \in Fmspc : InStanding(TcbInfoOf[f][n], r)
GoodQe(n, r) == Promise!QeRecognised(QeIdentityOf[n], r.quote.qeReport)

OutOfDateFrom(n, r) ==
  \/ \A m \in n..MaxRound : ~GoodPlatform(m, r)
  \/ \A m \in n..MaxRound : ~GoodQe(m, r)

(* A TCB recovery takes effect at once for a caller whose floor is its     *)
(* round, and for every other within the lifetime of a document: a         *)
(* platform, or a quoting enclave, that is out of date from round n on is  *)
(* not accepted by documents of whatever rounds, tracks and families.      *)
RecoveryBites ==
  verdict.kind = "accepted" =>
    \A n \in Round :
      OutOfDateFrom(n, request) =>
        /\ request.minRound < n
        /\ now < promotedAt[n] + DocLifetime + MaxSkew

-----------------------------------------------------------------------------
Timely(issued, lifetime) ==
  /\ issued <= request.currentTime \div TicksPerSecond
  /\ request.currentTime \div TicksPerSecond < issued + lifetime

(* The documents a peek leads to are the ones the verifier wants: they are *)
(* enough to accept a genuine quote of a good platform while they are in   *)
(* their windows.  And a peek proves nothing: no documents make a quote    *)
(* acceptable that no platform made, whatever they were fetched for.       *)
PeekLeadsRight ==
  /\ verdict.kind = "accepted" => request.quote \in Genuine
  /\ LET c == request.collateral
     IN /\ pc = "returned"
        /\ request.quote = fetchedFor /\ fetchedFor \in Genuine
        /\ \A t \in {c.tcbInfo.issueDate, c.qeIdentity.issueDate} : Timely(t, DocLifetime)
        /\ \A t \in {c.pckCrl.thisUpdate, c.rootCaCrl.thisUpdate} : Timely(t, CrlLifetime)
        /\ \A x \in Relied \cap Revocable : revokedAt[x] = Never
        /\ InStanding(c.tcbInfo, request) /\ c.tcbInfo.tcbEvaluationDataNumber >= request.minRound
        /\ Promise!QeRecognised(c.qeIdentity, request.quote.qeReport)
        /\ c.qeIdentity.tcbEvaluationDataNumber >= request.minRound
        => verdict.kind = "accepted"
=============================================================================
