---------------------------- MODULE DifferProofs ----------------------------
(***************************************************************************)
(* A run of the differ exits with the verdict of its contract, for every   *)
(* corpus, allowlist and pair of verifiers; and a task that succeeds has   *)
(* found exactly the recorded divergences.                                 *)
(***************************************************************************)
EXTENDS DifferTask, FiniteSetTheorems, TLAPS

(* The cases compared so far. *)
Compared == {cases[i] : i \in 1..(pos - 1)}

(* What the tally and the set of reproduced cases say of the cases         *)
(* compared so far; no case before the current one brought the run down.   *)
TallyTells ==
  /\ \A id \in Compared : Qvl(id).kind # "abort"
  /\ \A b \in {"dcapPanic", "standingMismatch"} :
       tally[b] > 0 <=> \E id \in Compared : BucketOf(id) = b
  /\ tally["dangerous"] > 0 <=>
       \E id \in Compared : BucketOf(id) = "dangerous" /\ id \notin allow
  /\ reproduced = {id \in Compared : BucketOf(id) = "dangerous" /\ id \in allow}
  /\ tally["vanished"] = 0

RunArguments == [cases : Seq(CaseId), allow : SUBSET CaseId]

RunInv == TypeOK /\ (run = "comparing" => TallyTells) /\ RunHonest

-----------------------------------------------------------------------------
(* classify puts a case into a failing bucket exactly when it is a defect, *)
(* and calls it dangerous exactly when it diverges.                        *)
LEMMA BucketMeaning ==
  ASSUME NEW id
  PROVE  /\ Defect(id) <=> BucketOf(id) \in {"dcapPanic", "standingMismatch"}
         /\ Qvl(id).kind # "abort" => (Divergent(id) <=> BucketOf(id) = "dangerous") \/ Defect(id)
         /\ Divergent(id) => BucketOf(id) = "dangerous"
         /\ BucketOf(id) = "dangerous" => Divergent(id)
  BY DEF Defect, Divergent, BucketOf, Classify, QvlAccepts, Expired, StandingMatches

(* Every bucket has its counter. *)
LEMMA BucketType ==
  ASSUME NEW id
  PROVE  BucketOf(id) \in Bucket /\ BucketOf(id) \in Counter
  BY DEF BucketOf, Classify, Bucket, Counter

(* A run compares finitely many cases. *)
LEMMA ScopeFinite ==
  ASSUME TypeOK
  PROVE  IsFiniteSet(InScope) /\ InScope \subseteq CaseId
<1>1. cases \in [1..Len(cases) -> CaseId] /\ Len(cases) \in Nat
  BY DEF TypeOK
<1>2. cases \in Surjection(1..Len(cases), InScope)
  BY <1>1 DEF Surjection, InScope
<1>3. IsFiniteSet(1..Len(cases))
  BY <1>1, FS_Interval
<1> QED
  BY <1>1, <1>2, <1>3, FS_Surjection DEF InScope

(* The run starts with nothing compared. *)
LEMMA RunStart == RunInit => RunInv
<1> SUFFICES ASSUME RunInit PROVE RunInv
  OBVIOUS
<1>1. EmptyTally \in Tally
  BY DEF EmptyTally, Tally
<1> QED
  BY <1>1, OutcomesAssumption DEF RunInit, RunInv, TypeOK, RunHonest

(* A new run forgets the last one. *)
LEMMA StartKeeps ==
  ASSUME RunInv, NEW invocation \in RunArguments, Start(invocation)
  PROVE  RunInv'
<1>1. invocation \in [cases : Seq(CaseId), allow : SUBSET CaseId]
  BY DEF RunArguments
<1>2. EmptyTally \in Tally /\ \A c \in Counter : EmptyTally[c] = 0
  BY DEF EmptyTally, Tally
<1>3. TypeOK'
  BY <1>1, <1>2 DEF Start, RunInv, TypeOK
<1>4. Compared' = {}
  BY DEF Start, Compared
<1>5. TallyTells'
  BY <1>2, <1>4 DEF Start, TallyTells, Counter, Bucket
<1> QED
  BY <1>3, <1>5 DEF Start, RunInv, RunHonest

(* Comparing one more case keeps the tally telling. *)
LEMMA CompareKeeps ==
  ASSUME RunInv, CompareCase
  PROVE  RunInv'
<1> DEFINE id == cases[pos]
           known == BucketOf(id) = "dangerous" /\ id \in allow
           counter == IF known THEN "dangerousKnown" ELSE BucketOf(id)
<1>1. /\ TypeOK /\ TallyTells /\ run = "comparing" /\ run' = run
      /\ pos \in 1..Len(cases) /\ pos' = pos + 1
      /\ outcome' = outcome /\ cases' = cases /\ allow' = allow /\ exit' = exit
  BY DEF CompareCase, RunInv, TypeOK
<1>2. tally' = [tally EXCEPT ![counter] = @ + 1] /\ Qvl(id).kind # "abort"
  BY DEF CompareCase
<1>3. counter \in Counter /\ tally \in [Counter -> Nat]
  BY <1>1, BucketType DEF Counter, TypeOK, Tally
<1>4. tally'[counter] = tally[counter] + 1 /\ \A c \in Counter \ {counter} : tally'[c] = tally[c]
  BY <1>2, <1>3
<1>5. Compared' = Compared \cup {id}
  <2>1. 1..(pos' - 1) = 1..(pos - 1) \cup {pos}
    BY <1>1
  <2> QED
    BY <1>1, <2>1 DEF Compared
<1>6. \A x : BucketOf(x)' = BucketOf(x) /\ Qvl(x)' = Qvl(x)
  BY <1>1 DEF BucketOf, Dcap, Qvl
<1>7. TypeOK'
  <2>1. tally' \in Tally
    BY <1>2, <1>3 DEF Tally
  <2>2. reproduced' \subseteq allow'
    BY <1>1 DEF CompareCase, TypeOK
  <2> QED
    BY <1>1, <2>1, <2>2 DEF TypeOK
<1>8. TallyTells'
  <2>1. \A x \in Compared' : Qvl(x)'.kind # "abort"
    BY <1>1, <1>2, <1>5, <1>6 DEF TallyTells
  <2>2. ASSUME NEW b \in {"dcapPanic", "standingMismatch"}
        PROVE  tally'[b] > 0 <=> \E x \in Compared' : BucketOf(x)' = b
    <3>1. b \in Counter /\ b # "dangerousKnown" /\ b # "dangerous"
      BY DEF Counter, Bucket
    <3>2. tally[b] > 0 <=> \E x \in Compared : BucketOf(x) = b
      BY <1>1 DEF TallyTells
    <3>3. counter = b <=> BucketOf(id) = b
      BY <3>1
    <3>4. tally[b] \in Nat
      BY <1>3, <3>1
    <3>5. CASE BucketOf(id) = b
      BY <1>4, <1>5, <1>6, <3>3, <3>4, <3>5
    <3>6. CASE BucketOf(id) # b
      <4>1. tally'[b] = tally[b]
        BY <1>4, <3>1, <3>3, <3>6
      <4> QED
        BY <4>1, <3>2, <3>6, <1>5, <1>6
    <3> QED
      BY <3>5, <3>6
  <2>3. tally'["dangerous"] > 0 <=>
          \E x \in Compared' : BucketOf(x)' = "dangerous" /\ x \notin allow'
    <3>1. "dangerous" \in Counter /\ tally["dangerous"] \in Nat
      BY <1>3 DEF Counter, Bucket
    <3>2. tally["dangerous"] > 0 <=>
            \E x \in Compared : BucketOf(x) = "dangerous" /\ x \notin allow
      BY <1>1 DEF TallyTells
    <3>3. counter = "dangerous" <=> BucketOf(id) = "dangerous" /\ id \notin allow
      OBVIOUS
    <3>4. CASE counter = "dangerous"
      BY <1>1, <1>4, <1>5, <1>6, <3>1, <3>3, <3>4
    <3>5. CASE counter # "dangerous"
      <4>1. tally'["dangerous"] = tally["dangerous"]
        BY <1>4, <3>1, <3>5
      <4> QED
        BY <4>1, <3>2, <3>3, <3>5, <1>1, <1>5, <1>6
    <3> QED
      BY <3>4, <3>5
  <2>4. reproduced' = {x \in Compared' : BucketOf(x)' = "dangerous" /\ x \in allow'}
    <3>1. reproduced = {x \in Compared : BucketOf(x) = "dangerous" /\ x \in allow}
      BY <1>1 DEF TallyTells
    <3>2. reproduced' = IF known THEN reproduced \cup {id} ELSE reproduced
      BY DEF CompareCase
    <3> QED
      BY <1>1, <1>5, <1>6, <3>1, <3>2
  <2>5. tally'["vanished"] = 0
    <3>1. "vanished" \in Counter \ {counter}
      BY BucketType DEF Counter, Bucket
    <3> QED
      BY <1>1, <1>4, <3>1 DEF TallyTells
  <2> QED
    BY <2>1, <2>2, <2>3, <2>4, <2>5 DEF TallyTells
<1> QED
  BY <1>1, <1>7, <1>8 DEF RunInv, RunHonest

(* A run that dies exits as aborted. *)
LEMMA AbortKeeps ==
  ASSUME RunInv, Abort
  PROVE  RunInv'
<1>1. cases[pos] \in InScope /\ Qvl(cases[pos]).kind = "abort"
  BY DEF RunInv, Abort, TypeOK, InScope
<1>2. ContractExit' = ExitAbort
  <2>1. InScope' = InScope /\ \A x : Qvl(x)' = Qvl(x)
    BY DEF Abort, InScope, Qvl
  <2> QED
    BY <1>1, <2>1 DEF ContractExit
<1> QED
  BY <1>2 DEF Abort, RunInv, TypeOK, RunHonest

(* At the end of a run the code of the tally is the contract's verdict:    *)
(* the cases compared are all of the scope, and a recorded case of it has  *)
(* vanished exactly when it does not diverge.                              *)
LEMMA FinishKeeps ==
  ASSUME RunInv, Finish
  PROVE  RunInv'
<1>1. /\ TypeOK /\ TallyTells /\ run' = "exited"
      /\ outcome' = outcome /\ cases' = cases /\ allow' = allow
      /\ reproduced' = reproduced /\ pos' = pos /\ exit' = ExitCode(tally')
      /\ tally' = IF Vanished = {} THEN tally
                  ELSE [tally EXCEPT !["vanished"] = Cardinality(Vanished)]
  BY DEF Finish, RunInv
<1>2. Compared = InScope
  <2>1. pos = Len(cases) + 1 /\ Len(cases) \in Nat /\ DOMAIN cases = 1..Len(cases)
    BY DEF Finish, RunInv, TypeOK
  <2> QED
    BY <2>1 DEF Compared, InScope
<1>3. tally \in [Counter -> Nat] /\ {"vanished", "dangerous", "dcapPanic", "standingMismatch"} \subseteq Counter
  BY <1>1 DEF TypeOK, Tally, Counter, Bucket
<1>4. Cardinality(Vanished) \in Nat /\ (Vanished # {} => Cardinality(Vanished) > 0)
  <2>1. IsFiniteSet(Vanished)
    BY <1>1, ScopeFinite, FS_Subset DEF Vanished
  <2> QED
    BY <2>1, FS_CardinalityType, FS_EmptySet
<1>5. /\ tally' \in [Counter -> Nat]
      /\ tally'["vanished"] > 0 <=> Vanished # {}
      /\ \A c \in Counter \ {"vanished"} : tally'[c] = tally[c]
  <2>1. CASE Vanished = {}
    BY <1>1, <1>3, <2>1 DEF TallyTells
  <2>2. CASE Vanished # {}
    BY <1>1, <1>3, <1>4, <2>2
  <2> QED
    BY <2>1, <2>2
<1>6. tally'["dcapPanic"] > 0 \/ tally'["standingMismatch"] > 0 <=> \E x \in InScope : Defect(x)
  <2>1. \A b \in {"dcapPanic", "standingMismatch"} :
          tally'[b] > 0 <=> \E x \in InScope : BucketOf(x) = b
    BY <1>1, <1>2, <1>3, <1>5 DEF TallyTells
  <2> QED
    BY <2>1, BucketMeaning
<1>7. tally'["dangerous"] > 0 <=> \E x \in InScope : Divergent(x) /\ x \notin allow
  BY <1>1, <1>2, <1>3, <1>5, BucketMeaning DEF TallyTells
<1>8. Vanished # {} <=> \E x \in InScope : ~Divergent(x) /\ x \in allow
  BY <1>1, <1>2, BucketMeaning DEF TallyTells, Vanished
<1>9. exit' = ContractExit
  <2>1. \A x \in InScope : Qvl(x).kind # "abort"
    BY <1>1, <1>2 DEF TallyTells
  <2>2. tally'["dangerous"] > 0 \/ tally'["vanished"] > 0
          <=> \E x \in InScope : ~(Divergent(x) <=> x \in allow)
    BY <1>5, <1>7, <1>8
  <2> QED
    BY <1>1, <1>6, <2>1, <2>2 DEF ExitCode, ContractExit
<1>10. ContractExit' = ContractExit
  <2>1. /\ InScope' = InScope
        /\ \A x : Qvl(x)' = Qvl(x) /\ Defect(x)' = Defect(x) /\ Divergent(x)' = Divergent(x)
    BY <1>1 DEF InScope, Qvl, Dcap, Defect, Divergent
  <2> QED
    BY <1>1, <2>1 DEF ContractExit
<1>11. exit' \in {ExitClean, ExitReview, ExitFail}
  BY <1>1 DEF ExitCode
<1> QED
  BY <1>1, <1>5, <1>9, <1>10, <1>11 DEF RunInv, TypeOK, Tally, RunHonest

(* Taking the exit code, or anything that happens beside the run, leaves   *)
(* it as it is.                                                            *)
LEMMA ReapKeeps ==
  ASSUME RunInv, Reap
  PROVE  RunInv'
  BY DEF Reap, RunInv, TypeOK, RunHonest

LEMMA BesideKeeps ==
  ASSUME RunInv, UNCHANGED <<outcome, runVars>>
  PROVE  RunInv'
  BY DEF runVars, RunInv, TypeOK, RunHonest, TallyTells, Compared, ContractExit,
         InScope, BucketOf, Qvl, Dcap, Defect, Divergent

LEMMA RunStepKeeps ==
  ASSUME RunInv, RunStep
  PROVE  RunInv'
  BY CompareKeeps, AbortKeeps, FinishKeeps DEF RunStep

LEMMA RunInvariant == Spec => []RunInv
<1>1. RunInv /\ [Next]_<<outcome, runVars>> => RunInv'
  <2> SUFFICES ASSUME RunInv, [Next]_<<outcome, runVars>> PROVE RunInv'
    OBVIOUS
  <2>1. CASE \E invocation \in Invocations : Start(invocation)
    BY <2>1, StartKeeps, InvocationsAssumption DEF RunArguments
  <2> QED
    BY <2>1, RunStepKeeps, ReapKeeps, BesideKeeps DEF Next
<1> QED
  BY RunStart, <1>1, PTL DEF Spec

(* For every corpus, allowlist and pair of verifiers the exit code of a    *)
(* run is the verdict its contract gives the cases: no divergence is lost  *)
(* in counting, and none that is recorded is raised.                       *)
THEOREM RunIsHonest == Spec => []RunHonest
<1>1. RunInv => RunHonest
  BY DEF RunInv
<1> QED
  BY RunInvariant, <1>1, PTL

(* The loop stays in its cases, and only what is recorded is excused.      *)
THEOREM RunTypeCorrect == Spec => []TypeOK
<1>1. RunInv => TypeOK
  BY DEF RunInv
<1> QED
  BY RunInvariant, <1>1, PTL

-----------------------------------------------------------------------------
(* The task. *)

LegName == {"oracle corpus", "corpus-committed", "full corpus", "replay", "sweep"}
Leg == {RunLeg(name, invocation) : name \in LegName, invocation \in RunArguments} \cup {CalibrateLeg}
Step == {"all", "calibrate", "fixtures", "replay", "sweep"}

LEMMA LegTypes ==
  ASSUME NEW l \in Leg
  PROVE  l.kind = "run" => l.invocation \in RunArguments
  BY DEF Leg, RunLeg, CalibrateLeg

LEMMA RunLegTyped ==
  ASSUME NEW name \in LegName, NEW invocation \in RunArguments
  PROVE  RunLeg(name, invocation) \in Leg
  BY DEF Leg

LEMMA LegNames ==
  /\ "oracle corpus" \in LegName /\ "corpus-committed" \in LegName /\ "full corpus" \in LegName
  /\ "replay" \in LegName /\ "sweep" \in LegName
  BY DEF LegName

LEMMA CorpusRunTyped ==
  ASSUME NEW corpus \in Seq(CaseId)
  PROVE  CorpusRun(corpus) \in RunArguments
  BY DEF CorpusRun, RunArguments

LEMMA SweepRunTyped ==
  ASSUME NEW seed, NEW ids \in Seq(CaseId)
  PROVE  SweepRun(seed, ids) \in RunArguments
  BY DEF SweepRun, RunArguments

LEMMA SuiteTyped ==
  ASSUME suite \in Suites
  PROVE  /\ suite.oracle \in Seq(CaseId) /\ suite.committed \in Seq(CaseId)
         /\ suite.full \in Seq(CaseId) /\ suite.sweep \in Seq(CaseId)
         /\ suite.recordedSweeps \in Seq(CaseId)
  BY SuitesAssumption

(* Each recorded iteration has a leg of its own. *)
LEMMA ReplayTyped ==
  ASSUME suite \in Suites
  PROVE  /\ ReplayLegs \in Seq(Leg) /\ Len(ReplayLegs) = Len(suite.recordedSweeps)
         /\ \A n \in 1..Len(suite.recordedSweeps) :
              ReplayLegs[n] = RunLeg("replay", SweepRun(suite.recordedSweeps[n][1],
                                                        <<suite.recordedSweeps[n]>>))
<1>1. suite.recordedSweeps \in Seq(CaseId)
  BY SuiteTyped
<1>2. DOMAIN suite.recordedSweeps = 1..Len(suite.recordedSweeps) /\ Len(suite.recordedSweeps) \in Nat
  BY <1>1
<1>3. ASSUME NEW n \in 1..Len(suite.recordedSweeps)
      PROVE  RunLeg("replay", SweepRun(suite.recordedSweeps[n][1], <<suite.recordedSweeps[n]>>)) \in Leg
  <2>1. <<suite.recordedSweeps[n]>> \in Seq(CaseId)
    BY <1>1
  <2>2. SweepRun(suite.recordedSweeps[n][1], <<suite.recordedSweeps[n]>>) \in RunArguments
    BY <2>1, SweepRunTyped
  <2> QED
    BY <2>2, LegNames, RunLegTyped
<1>4. ReplayLegs = [n \in 1..Len(suite.recordedSweeps) |->
                      RunLeg("replay", SweepRun(suite.recordedSweeps[n][1],
                                                <<suite.recordedSweeps[n]>>))]
  BY <1>2 DEF ReplayLegs
<1> QED
  BY <1>2, <1>3, <1>4

LEMMA FixturesTyped ==
  ASSUME suite \in Suites
  PROVE  /\ FixtureLegs \in Seq(Leg)
         /\ FixtureLegs = <<RunLeg("oracle corpus", CorpusRun(suite.oracle)),
                            RunLeg("corpus-committed", CorpusRun(suite.committed))>>
                          \o (IF suite.fullPresent
                              THEN <<RunLeg("full corpus", CorpusRun(suite.full))>> ELSE <<>>)
<1>1. /\ RunLeg("oracle corpus", CorpusRun(suite.oracle)) \in Leg
      /\ RunLeg("corpus-committed", CorpusRun(suite.committed)) \in Leg
      /\ RunLeg("full corpus", CorpusRun(suite.full)) \in Leg
  <2>1. /\ CorpusRun(suite.oracle) \in RunArguments /\ CorpusRun(suite.committed) \in RunArguments
        /\ CorpusRun(suite.full) \in RunArguments
    BY SuiteTyped, CorpusRunTyped
  <2> QED
    BY <2>1, LegNames, RunLegTyped
<1> DEFINE o == RunLeg("oracle corpus", CorpusRun(suite.oracle))
           k == RunLeg("corpus-committed", CorpusRun(suite.committed))
           u == RunLeg("full corpus", CorpusRun(suite.full))
<1>2. FixtureLegs = <<o, k>> \o (IF suite.fullPresent THEN <<u>> ELSE <<>>)
  BY DEF FixtureLegs
<1>3. o \in Leg /\ k \in Leg /\ u \in Leg
  BY <1>1
<1> HIDE DEF o, k, u
<1>4. <<o, k>> \in Seq(Leg) /\ (IF suite.fullPresent THEN <<u>> ELSE <<>>) \in Seq(Leg)
  BY <1>3
<1>5. FixtureLegs \in Seq(Leg)
  BY <1>2, <1>4
<1> QED
  BY <1>2, <1>5 DEF o, k, u

LEMMA SweepLegTyped ==
  ASSUME suite \in Suites
  PROVE  <<RunLeg("sweep", SweepRun(suite.seed, suite.sweep))>> \in Seq(Leg)
<1>1. RunLeg("sweep", SweepRun(suite.seed, suite.sweep)) \in Leg
  <2>1. SweepRun(suite.seed, suite.sweep) \in RunArguments
    BY SuiteTyped, SweepRunTyped
  <2> QED
    BY <2>1, LegNames, RunLegTyped
<1> QED
  BY <1>1

LEMMA LegsTyped ==
  ASSUME suite \in Suites, NEW s
  PROVE  LegsOf(s) \in Seq(Leg)
<1>1. <<CalibrateLeg>> \in Seq(Leg)
  BY DEF Leg
<1>2. FixtureLegs \in Seq(Leg) /\ ReplayLegs \in Seq(Leg)
      /\ <<RunLeg("sweep", SweepRun(suite.seed, suite.sweep))>> \in Seq(Leg)
  BY FixturesTyped, ReplayTyped, SweepLegTyped
<1>3. \A a, b \in Seq(Leg) : a \o b \in Seq(Leg)
  OBVIOUS
<1>4. <<>> \in Seq(Leg)
  OBVIOUS
<1> DEFINE c == IF s \in {"all", "calibrate"} THEN <<CalibrateLeg>> ELSE <<>>
           f == IF s \in {"all", "fixtures"} THEN FixtureLegs ELSE <<>>
           r == IF s \in {"all", "replay"} THEN ReplayLegs ELSE <<>>
           w == IF s \in {"all", "sweep"}
                THEN <<RunLeg("sweep", SweepRun(suite.seed, suite.sweep))>> ELSE <<>>
<1>5. c \in Seq(Leg) /\ f \in Seq(Leg) /\ r \in Seq(Leg) /\ w \in Seq(Leg)
  BY <1>1, <1>2, <1>4
<1>6. LegsOf(s) = c \o f \o r \o w
  BY DEF LegsOf
<1> HIDE DEF c, f, r, w
<1> QED
  BY <1>3, <1>5, <1>6

-----------------------------------------------------------------------------
(* Every case the task looks at is in a leg that excuses it exactly if it  *)
(* is recorded.                                                            *)

Has(legsOfIt, l) == \E n \in 1..Len(legsOfIt) : legsOfIt[n] = l

LEMMA HasEither ==
  ASSUME NEW a \in Seq(Leg), NEW b \in Seq(Leg), NEW l
  PROVE  /\ a \o b \in Seq(Leg)
         /\ Has(a, l) => Has(a \o b, l)
         /\ Has(b, l) => Has(a \o b, l)
<1>1. a \o b \in Seq(Leg) /\ Len(a) \in Nat /\ Len(b) \in Nat /\ Len(a \o b) = Len(a) + Len(b)
  OBVIOUS
<1>2. ASSUME NEW n \in 1..Len(a), a[n] = l PROVE Has(a \o b, l)
  <2>1. n \in 1..Len(a \o b) /\ (a \o b)[n] = a[n]
    BY <1>1
  <2> QED
    BY <1>2, <2>1 DEF Has
<1>3. ASSUME NEW n \in 1..Len(b), b[n] = l PROVE Has(a \o b, l)
  <2>1. Len(a) + n \in 1..Len(a \o b) /\ (a \o b)[Len(a) + n] = b[n]
    BY <1>1
  <2> QED
    BY <1>3, <2>1 DEF Has
<1> QED
  BY <1>1, <1>2, <1>3 DEF Has

LEMMA AllLegs ==
  ASSUME suite \in Suites
  PROVE  /\ \A l : Has(FixtureLegs, l) => Has(LegsOf("all"), l)
         /\ \A l : Has(ReplayLegs, l) => Has(LegsOf("all"), l)
         /\ Has(LegsOf("all"), RunLeg("sweep", SweepRun(suite.seed, suite.sweep)))
<1> DEFINE c == <<CalibrateLeg>>
           w == <<RunLeg("sweep", SweepRun(suite.seed, suite.sweep))>>
<1>1. c \in Seq(Leg)
  BY DEF Leg
<1>2. w \in Seq(Leg)
  BY SweepLegTyped
<1>3. Has(w, RunLeg("sweep", SweepRun(suite.seed, suite.sweep)))
  BY DEF Has
<1>4. LegsOf("all") = c \o FixtureLegs \o ReplayLegs \o w
  BY DEF LegsOf
<1>5. FixtureLegs \in Seq(Leg) /\ ReplayLegs \in Seq(Leg)
  BY FixturesTyped, ReplayTyped
<1> HIDE DEF c, w
<1>6. c \o FixtureLegs \in Seq(Leg) /\ \A l : Has(FixtureLegs, l) => Has(c \o FixtureLegs, l)
  BY <1>1, <1>5, HasEither
<1>7. /\ c \o FixtureLegs \o ReplayLegs \in Seq(Leg)
      /\ \A l : Has(FixtureLegs, l) \/ Has(ReplayLegs, l) => Has(c \o FixtureLegs \o ReplayLegs, l)
  BY <1>5, <1>6, HasEither
<1>8. \A l : Has(FixtureLegs, l) \/ Has(ReplayLegs, l) \/ Has(w, l) => Has(LegsOf("all"), l)
  BY <1>2, <1>4, <1>7, HasEither
<1> QED
  BY <1>3, <1>8

LEMMA CorpusLegs ==
  ASSUME suite \in Suites
  PROVE  /\ Has(FixtureLegs, RunLeg("oracle corpus", CorpusRun(suite.oracle)))
         /\ Has(FixtureLegs, RunLeg("corpus-committed", CorpusRun(suite.committed)))
         /\ suite.fullPresent => Has(FixtureLegs, RunLeg("full corpus", CorpusRun(suite.full)))
<1> DEFINE o == RunLeg("oracle corpus", CorpusRun(suite.oracle))
           k == RunLeg("corpus-committed", CorpusRun(suite.committed))
           u == RunLeg("full corpus", CorpusRun(suite.full))
<1>1. o \in Leg /\ k \in Leg /\ u \in Leg
  <2>1. /\ CorpusRun(suite.oracle) \in RunArguments /\ CorpusRun(suite.committed) \in RunArguments
        /\ CorpusRun(suite.full) \in RunArguments
    BY SuiteTyped, CorpusRunTyped
  <2> QED
    BY <2>1, LegNames, RunLegTyped
<1>2. FixtureLegs = <<o, k>> \o (IF suite.fullPresent THEN <<u>> ELSE <<>>)
  BY FixturesTyped
<1> HIDE DEF o, k, u
<1>3. <<o, k>> \in Seq(Leg) /\ <<u>> \in Seq(Leg) /\ <<>> \in Seq(Leg)
  BY <1>1
<1>4. Len(<<o, k>>) = 2 /\ <<o, k>>[1] = o /\ <<o, k>>[2] = k /\ Len(<<u>>) = 1 /\ <<u>>[1] = u
  OBVIOUS
<1>5. Has(<<o, k>>, o) /\ Has(<<o, k>>, k) /\ Has(<<u>>, u)
  BY <1>4 DEF Has
<1>6. Has(FixtureLegs, o) /\ Has(FixtureLegs, k)
  <2>1. (IF suite.fullPresent THEN <<u>> ELSE <<>>) \in Seq(Leg)
    BY <1>3
  <2> QED
    BY <1>2, <1>3, <1>5, <2>1, HasEither
<1>7. suite.fullPresent => Has(FixtureLegs, u)
  BY <1>2, <1>3, <1>5, HasEither
<1> QED
  BY <1>6, <1>7 DEF o, k, u

(* A leg of the whole task looks at a case if it is in its run's cases.    *)
LooksAt(l, id) ==
  /\ l.kind = "run" /\ \E i \in DOMAIN l.invocation.cases : l.invocation.cases[i] = id
  /\ id \in l.invocation.allow <=> Recorded(id)

LEMMA EveryCaseHasALeg ==
  ASSUME suite \in Suites, NEW id \in Looked
  PROVE  \E n \in 1..Len(LegsOf("all")) : LooksAt(LegsOf("all")[n], id)
<1>1. /\ \A x \in Ids(suite.sweep) : x[1] = suite.seed
      /\ \A x \in Ids(suite.sweep) \cup Ids(suite.recordedSweeps) :
           x[2] \notin suite.recordedCases
           /\ x \notin Ids(suite.oracle) \cup Ids(suite.committed) \cup Ids(suite.full)
  BY SuitesAssumption
<1>2. \A name, invocation : RunLeg(name, invocation).kind = "run"
                            /\ RunLeg(name, invocation).invocation = invocation
  BY DEF RunLeg
<1>3. \A corpus : CorpusRun(corpus).cases = corpus
                  /\ CorpusRun(corpus).allow = {x \in CaseId : x[2] \in suite.recordedCases}
  BY DEF CorpusRun
<1>4. \A seed, ids : SweepRun(seed, ids).cases = ids
                     /\ SweepRun(seed, ids).allow =
                          {x \in CaseId : x[1] = seed /\ x \in Ids(suite.recordedSweeps)}
  BY DEF SweepRun, Ids
<1>5. \A l : Has(LegsOf("all"), l) /\ LooksAt(l, id)
               => \E n \in 1..Len(LegsOf("all")) : LooksAt(LegsOf("all")[n], id)
  BY DEF Has
<1>6. ASSUME NEW name, NEW corpus \in Seq(CaseId), id \in Ids(corpus),
             id \in Ids(suite.oracle) \cup Ids(suite.committed) \cup Ids(suite.full)
      PROVE  LooksAt(RunLeg(name, CorpusRun(corpus)), id)
  <2>1. id \in CaseId /\ \E i \in DOMAIN corpus : corpus[i] = id
    BY <1>6 DEF Ids
  <2>2. id \notin Ids(suite.recordedSweeps)
    BY <1>1, <1>6
  <2> QED
    BY <1>2, <1>3, <2>1, <2>2 DEF LooksAt, Recorded
<1>7. CASE id \in Ids(suite.oracle)
  BY <1>5, <1>6, <1>7, AllLegs, CorpusLegs, SuiteTyped
<1>8. CASE id \in Ids(suite.committed)
  BY <1>5, <1>6, <1>8, AllLegs, CorpusLegs, SuiteTyped
<1>9. CASE suite.fullPresent /\ id \in Ids(suite.full)
  BY <1>5, <1>6, <1>9, AllLegs, CorpusLegs, SuiteTyped
<1>10. CASE id \in Ids(suite.sweep)
  <2> DEFINE l == RunLeg("sweep", SweepRun(suite.seed, suite.sweep))
  <2>1. id \in CaseId /\ id[1] = suite.seed /\ id[2] \notin suite.recordedCases
        /\ \E i \in DOMAIN suite.sweep : suite.sweep[i] = id
    <3>1. \E i \in DOMAIN suite.sweep : suite.sweep[i] = id
      BY <1>10 DEF Ids
    <3>2. suite.sweep \in Seq(CaseId)
      BY SuiteTyped
    <3>3. id \in CaseId
      BY <3>1, <3>2
    <3> QED
      BY <1>1, <1>10, <3>1, <3>3
  <2>2. LooksAt(l, id)
    BY <1>2, <1>4, <2>1 DEF LooksAt, Recorded
  <2> QED
    BY <1>5, <2>2, AllLegs
<1>11. CASE id \in Ids(suite.recordedSweeps)
  <2>1. PICK n \in 1..Len(suite.recordedSweeps) : suite.recordedSweeps[n] = id
    BY <1>11, SuiteTyped DEF Ids
  <2> DEFINE l == RunLeg("replay", SweepRun(id[1], <<id>>))
  <2>2. id \in CaseId /\ id[2] \notin suite.recordedCases
    BY <1>1, <1>11, <2>1, SuiteTyped
  <2>3. 1 \in DOMAIN <<id>> /\ <<id>>[1] = id
    OBVIOUS
  <2>4. l.kind = "run" /\ l.invocation.cases = <<id>>
        /\ l.invocation.allow = {x \in CaseId : x[1] = id[1] /\ x \in Ids(suite.recordedSweeps)}
    BY <1>2, <1>4
  <2> HIDE DEF l
  <2>5. LooksAt(l, id)
    BY <1>11, <2>2, <2>3, <2>4 DEF LooksAt, Recorded
  <2>6. Has(ReplayLegs, l)
    BY <2>1, ReplayTyped DEF Has, l
  <2> QED
    BY <1>5, <2>5, <2>6, AllLegs
<1> QED
  BY <1>7, <1>8, <1>9, <1>10, <1>11 DEF Looked, Corpora

-----------------------------------------------------------------------------
(* A run over these arguments is clean. *)
CleanRun(invocation) ==
  \A i \in DOMAIN invocation.cases :
    LET id == invocation.cases[i]
    IN Qvl(id).kind # "abort" /\ ~Defect(id) /\ (Divergent(id) <=> id \in invocation.allow)

CleanLeg(l) == l.kind = "run" => CleanRun(l.invocation)

(* The legs left are the last ones of the step, and unless a deviation is  *)
(* noted the ones before them were clean.                                  *)
LegsTell ==
  \E d \in Nat :
    /\ Len(LegsOf(step)) = d + Len(legs)
    /\ \A n \in 1..Len(legs) : legs[n] = LegsOf(step)[d + n]
    /\ deviations = {} => \A n \in 1..d : CleanLeg(LegsOf(step)[n])

TaskInv ==
  /\ RunInv
  /\ suite \in Suites
  /\ task \in {"build", "legs", "done"}
  /\ task = "build" => taskExit = NoExit /\ deviations = {}
  /\ run # "ready" => /\ task = "legs" /\ legs # <<>> /\ Head(legs).kind = "run"
                      /\ cases = Head(legs).invocation.cases
                      /\ allow = Head(legs).invocation.allow
  /\ task = "legs" => legs \in Seq(Leg) /\ LegsTell
  /\ task = "done" /\ taskExit = 0 => \A n \in 1..Len(LegsOf(step)) : CleanLeg(LegsOf(step)[n])

(* A run that exits clean was over clean cases. *)
LEMMA CleanExit ==
  ASSUME RunInv, run = "exited", exit = ExitClean,
         NEW invocation, cases = invocation.cases, allow = invocation.allow
  PROVE  CleanRun(invocation)
<1>1. ContractExit = ExitClean
  BY DEF RunInv, RunHonest
<1>2. ExitClean # ExitAbort /\ ExitClean # ExitFail /\ ExitClean # ExitReview
  BY DEF ExitClean, ExitAbort, ExitFail, ExitReview
<1>3. \A id \in InScope : Qvl(id).kind # "abort" /\ ~Defect(id) /\ (Divergent(id) <=> id \in allow)
  BY <1>1, <1>2 DEF ContractExit
<1> QED
  BY <1>3 DEF CleanRun, InScope

(* What is said of legs stays true while the suite and the outcomes stay.  *)
LEMMA LegsStay ==
  ASSUME UNCHANGED <<outcome, suite, step>>
  PROVE  LegsOf(step)' = LegsOf(step) /\ \A l : CleanLeg(l)' <=> CleanLeg(l)
<1>1. LegsOf(step)' = LegsOf(step)
  BY DEF LegsOf, FixtureLegs, ReplayLegs, CorpusRun, SweepRun, RunLeg
<1>2. ASSUME NEW l PROVE CleanLeg(l)' <=> CleanLeg(l)
  BY DEF CleanLeg, CleanRun, Qvl, Dcap, Defect, Divergent
<1> QED
  BY <1>1, <1>2

LEMMA TaskStart == Init => TaskInv
  BY RunStart DEF Init, TaskInv, RunInit, NoExit

(* A leg that ends is clean or noted. *)
LEMMA EndOfLegTells ==
  ASSUME TaskInv, task = "legs", legs # <<>>, NEW code, EndOfLeg(code), UNCHANGED outcome,
         code = ExitClean => CleanLeg(Head(legs))
  PROVE  legs' \in Seq(Leg) /\ LegsTell'
<1>1. legs \in Seq(Leg) /\ legs' = Tail(legs) /\ UNCHANGED <<suite, task, step>>
      /\ deviations' = (IF code = ExitClean THEN deviations ELSE deviations \cup {Head(legs).name})
  BY DEF TaskInv, EndOfLeg
<1>2. PICK d \in Nat : /\ Len(LegsOf(step)) = d + Len(legs)
                       /\ \A n \in 1..Len(legs) : legs[n] = LegsOf(step)[d + n]
                       /\ deviations = {} => \A n \in 1..d : CleanLeg(LegsOf(step)[n])
  BY DEF TaskInv, LegsTell
<1>3. /\ Len(legs) \in Nat \ {0} /\ Len(legs') = Len(legs) - 1 /\ Head(legs) = legs[1]
      /\ \A n \in 1..Len(legs') : legs'[n] = legs[n + 1]
      /\ legs' \in Seq(Leg)
  BY <1>1
<1>4. LegsOf(step)' = LegsOf(step) /\ \A l : CleanLeg(l)' <=> CleanLeg(l)
  BY <1>1, LegsStay
<1>5. Len(LegsOf(step)') = (d + 1) + Len(legs')
  <2>1. Len(LegsOf(step)') = d + Len(legs)
    BY <1>2, <1>4
  <2> QED
    BY <1>2, <1>3, <2>1
<1>6. ASSUME NEW n \in 1..Len(legs') PROVE legs'[n] = LegsOf(step)'[(d + 1) + n]
  <2>1. legs'[n] = legs[n + 1] /\ n + 1 \in 1..Len(legs)
    BY <1>3
  <2>2. legs[n + 1] = LegsOf(step)[d + (n + 1)] /\ d + (n + 1) = (d + 1) + n
    BY <1>2, <2>1
  <2> QED
    BY <1>4, <2>1, <2>2
<1>7. ASSUME deviations' = {}, NEW n \in 1..(d + 1) PROVE CleanLeg(LegsOf(step)[n])
  <2>1. code = ExitClean /\ deviations = {}
    BY <1>1, <1>7
  <2>2. LegsOf(step)[d + 1] = Head(legs)
    BY <1>2, <1>3
  <2>3. n \in 1..d \/ n = d + 1
    BY <1>2
  <2> QED
    BY <1>2, <2>1, <2>2, <2>3
<1>8. deviations' = {} => \A n \in 1..(d + 1) : CleanLeg(LegsOf(step)[n])'
  BY <1>4, <1>7
<1>9. d + 1 \in Nat
  BY <1>2
<1> QED
  BY <1>3, <1>5, <1>6, <1>8, <1>9 DEF LegsTell

LEMMA TaskStep == TaskInv /\ [TaskNext]_vars => TaskInv'
<1> SUFFICES ASSUME TaskInv, [TaskNext]_vars PROVE TaskInv'
  OBVIOUS
<1>1. CASE Build
  <2>1. /\ task = "build" /\ task' = "legs" /\ legs' = LegsOf(step)
        /\ UNCHANGED <<outcome, runVars, suite, step, deviations, taskExit>>
    BY <1>1 DEF Build
  <2>2. RunInv'
    BY <2>1, BesideKeeps DEF TaskInv
  <2>3. run' = "ready"
    BY <2>1 DEF TaskInv, runVars
  <2>4. legs' \in Seq(Leg) /\ Len(legs') \in Nat
    BY <2>1, LegsTyped DEF TaskInv
  <2>5. LegsTell'
    <3>1. LegsOf(step)' = legs'
      BY <2>1, LegsStay
    <3>2. Len(LegsOf(step)') = 0 + Len(legs') /\ \A n \in 1..Len(legs') : legs'[n] = LegsOf(step)'[0 + n]
      BY <2>4, <3>1
    <3>3. 1..0 = {}
      OBVIOUS
    <3> QED
      BY <3>2, <3>3 DEF LegsTell
  <2> QED
    BY <2>1, <2>2, <2>3, <2>4, <2>5 DEF TaskInv
<1>2. CASE BuildFails
  <2>1. /\ task = "build" /\ task' = "done" /\ taskExit' = ExitAbort
        /\ UNCHANGED <<outcome, runVars, suite>>
    BY <1>2 DEF BuildFails
  <2>2. RunInv'
    BY <2>1, BesideKeeps DEF TaskInv
  <2>3. run' = "ready" /\ taskExit' # 0
    BY <2>1 DEF TaskInv, runVars, ExitAbort
  <2> QED
    BY <2>1, <2>2, <2>3 DEF TaskInv
<1>3. CASE Calibrate
  <2>1. /\ task = "legs" /\ legs # <<>> /\ Head(legs).kind = "calibrate"
        /\ EndOfLeg(CalibrateExit) /\ UNCHANGED <<outcome, runVars>>
    BY <1>3 DEF Calibrate
  <2>2. RunInv' /\ UNCHANGED <<suite, task, taskExit>>
    BY <2>1, BesideKeeps DEF TaskInv, EndOfLeg
  <2>3. CleanLeg(Head(legs))
    BY <2>1 DEF CleanLeg
  <2>4. legs' \in Seq(Leg) /\ LegsTell'
    BY <2>1, <2>3, EndOfLegTells
  <2>5. run' = "ready"
    BY <2>1 DEF TaskInv, runVars
  <2> QED
    BY <2>1, <2>2, <2>4, <2>5 DEF TaskInv
<1>4. CASE StartLeg
  <2>1. /\ task = "legs" /\ legs # <<>> /\ Head(legs).kind = "run"
        /\ Start(Head(legs).invocation) /\ UNCHANGED taskVars
    BY <1>4 DEF StartLeg
  <2>2. Head(legs) \in Leg
    BY <2>1 DEF TaskInv
  <2>3. Head(legs).invocation \in RunArguments
    BY <2>1, <2>2, LegTypes
  <2>4. RunInv'
    BY <2>1, <2>3, StartKeeps DEF TaskInv
  <2>5. UNCHANGED <<outcome, suite, task, step, legs, deviations, taskExit>>
        /\ cases' = Head(legs).invocation.cases /\ allow' = Head(legs).invocation.allow
    BY <2>1 DEF Start, taskVars
  <2>6. LegsTell'
    BY <2>1, <2>5, LegsStay DEF TaskInv, LegsTell
  <2> QED
    BY <2>1, <2>4, <2>5, <2>6 DEF TaskInv
<1>5. CASE InLeg
  <2>1. RunStep /\ UNCHANGED taskVars
    BY <1>5 DEF InLeg
  <2>2. RunInv'
    BY <2>1, RunStepKeeps DEF TaskInv
  <2>3. run = "comparing" /\ UNCHANGED <<outcome, cases, allow>>
    BY <2>1 DEF RunStep, CompareCase, Abort, Finish
  <2>4. UNCHANGED <<suite, task, step, legs, deviations, taskExit>>
    BY <2>1 DEF taskVars
  <2>5. task = "legs" /\ legs # <<>> /\ Head(legs).kind = "run"
        /\ cases = Head(legs).invocation.cases /\ allow = Head(legs).invocation.allow
    BY <2>3 DEF TaskInv
  <2>6. LegsTell'
    BY <2>3, <2>4, <2>5, LegsStay DEF TaskInv, LegsTell
  <2> QED
    BY <2>2, <2>3, <2>4, <2>5, <2>6 DEF TaskInv
<1>6. CASE EndLeg
  <2>1. Reap /\ EndOfLeg(exit)
    BY <1>6 DEF EndLeg
  <2>2. run = "exited" /\ run' = "ready" /\ UNCHANGED outcome
    BY <2>1 DEF Reap
  <2>3. task = "legs" /\ legs # <<>>
        /\ cases = Head(legs).invocation.cases /\ allow = Head(legs).invocation.allow
    BY <2>2 DEF TaskInv
  <2>4. exit = ExitClean => CleanLeg(Head(legs))
    BY <2>2, <2>3, CleanExit DEF CleanLeg, TaskInv
  <2>5. legs' \in Seq(Leg) /\ LegsTell'
    BY <2>1, <2>2, <2>3, <2>4, EndOfLegTells
  <2>6. RunInv' /\ UNCHANGED <<suite, task, taskExit>>
    BY <2>1, ReapKeeps DEF TaskInv, EndOfLeg
  <2> QED
    BY <2>2, <2>3, <2>5, <2>6 DEF TaskInv
<1>7. CASE End
  <2>1. /\ task = "legs" /\ legs = <<>> /\ task' = "done"
        /\ taskExit' = (IF deviations = {} THEN 0 ELSE 1)
        /\ UNCHANGED <<outcome, runVars, suite, step>>
    BY <1>7 DEF End
  <2>2. RunInv' /\ run' = "ready"
    BY <2>1, BesideKeeps DEF TaskInv, runVars
  <2>3. ASSUME taskExit' = 0 PROVE \A n \in 1..Len(LegsOf(step)) : CleanLeg(LegsOf(step)[n])
    <3>1. PICK d \in Nat : /\ Len(LegsOf(step)) = d + Len(legs)
                           /\ deviations = {} => \A n \in 1..d : CleanLeg(LegsOf(step)[n])
      BY <2>1 DEF TaskInv, LegsTell
    <3>2. deviations = {} /\ Len(legs) = 0
      BY <2>1, <2>3
    <3> QED
      BY <3>1, <3>2
  <2>4. taskExit' = 0 => (\A n \in 1..Len(LegsOf(step)) : CleanLeg(LegsOf(step)[n]))'
    BY <2>1, <2>3, LegsStay
  <2> QED
    BY <2>1, <2>2, <2>4 DEF TaskInv
<1>8. CASE UNCHANGED vars
  <2>1. UNCHANGED <<outcome, runVars, suite, task, step, legs, deviations, taskExit, run, cases, allow>>
    BY <1>8 DEF vars, taskVars, runVars
  <2>2. RunInv'
    BY <2>1, BesideKeeps DEF TaskInv
  <2>3. task = "legs" => LegsTell'
    BY <2>1, LegsStay DEF TaskInv, LegsTell
  <2>4. task = "done" /\ taskExit = 0
          => (\A n \in 1..Len(LegsOf(step)) : CleanLeg(LegsOf(step)[n]))'
    BY <2>1, LegsStay DEF TaskInv
  <2> QED
    BY <2>1, <2>2, <2>3, <2>4 DEF TaskInv
<1> QED
  BY <1>1, <1>2, <1>3, <1>4, <1>5, <1>6, <1>7, <1>8 DEF TaskNext

(* A task that succeeds has run every leg to a clean end, and the legs     *)
(* reach every case it looks at.                                           *)
LEMMA SuccessIsHonest == TaskInv => TaskHonest
<1> SUFFICES ASSUME TaskInv, task = "done", step = "all", taskExit = 0, NEW id \in Looked
             PROVE  Qvl(id).kind # "abort" /\ ~Defect(id) /\ (Divergent(id) <=> Recorded(id))
  BY DEF TaskHonest, Succeeded
<1>1. PICK n \in 1..Len(LegsOf("all")) : LooksAt(LegsOf("all")[n], id)
  BY EveryCaseHasALeg DEF TaskInv
<1>2. CleanLeg(LegsOf("all")[n])
  BY DEF TaskInv
<1> QED
  BY <1>1, <1>2 DEF CleanLeg, CleanRun, LooksAt

(* When the task succeeds, every case of its corpora, of its sweep and of  *)
(* the recorded iterations was compared to the end, none is a defect, and  *)
(* exactly the recorded ones diverge, for all suites and outcomes: no leg  *)
(* is skipped, none is taken for clean that is not, and together they      *)
(* reach every case under the excuse that is its own.                      *)
THEOREM TaskIsHonest == TaskSpec => []TaskHonest
  BY TaskStart, TaskStep, SuccessIsHonest, PTL DEF TaskSpec

(* The outcomes of a success leave prod-1 no other than the expected one:  *)
(* it is compared in the oracle corpus, and nothing excuses it.            *)
LEMMA HonestSuccessTrusts ==
  ASSUME TaskInv
  PROVE  DefaultTrusted
<1> SUFFICES ASSUME Succeeded, Dcap(Base).kind = "accept",
                    Dcap(Base).standing = "ConfigurationAndSWHardeningNeeded"
             PROVE  Qvl(Base) = Trusted
  BY DEF DefaultTrusted
<1>1. Base \in Ids(suite.oracle) /\ ~Recorded(Base) /\ Base \in CaseId
  <2>1. /\ Base \in Ids(suite.oracle) /\ Base[2] \notin suite.recordedCases
        /\ \A id \in Ids(suite.recordedSweeps) : id \notin Ids(suite.oracle)
    BY SuitesAssumption DEF TaskInv
  <2>2. Base \in CaseId
    BY <2>1, SuiteTyped DEF TaskInv, Ids
  <2> QED
    BY <2>1, <2>2 DEF Recorded
<1>2. ~Defect(Base) /\ ~Divergent(Base)
  BY <1>1, SuccessIsHonest DEF TaskHonest, Looked, Corpora
<1>3. /\ Qvl(Base).kind = "verdict" /\ Qvl(Base).result # "other" /\ ~Qvl(Base).expired
      /\ Qvl(Base).result = ResultOf["ConfigurationAndSWHardeningNeeded"]
  BY <1>2 DEF Defect, Divergent, QvlAccepts, Expired
<1>4. Qvl(Base) \in QvlOutcome
  BY <1>1 DEF TaskInv, RunInv, TypeOK, Qvl
<1> QED
  BY <1>3, <1>4 DEF Trusted, QvlOutcome, ResultOf

(* A task that succeeds while dcap-verify gives prod-1 its recorded        *)
(* standing has seen QVL agree, unexpired, under the default marshaling:   *)
(* the oracle leg sees to what the calibration leg leaves open.            *)
THEOREM DefaultIsTrusted == TaskSpec => []DefaultTrusted
  BY TaskStart, TaskStep, HonestSuccessTrusts, PTL DEF TaskSpec
=============================================================================
