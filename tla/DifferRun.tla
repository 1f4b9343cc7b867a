------------------------------ MODULE DifferRun ------------------------------
(***************************************************************************)
(* One invocation of the differ: fixtures_cmd over the cases of a corpus   *)
(* (dcap-differ/src/main.rs) or sweep::run over the mutations of a seed    *)
(* (dcap-differ/src/sweep.rs).  Both compare case after case, excuse the   *)
(* recorded dangerous ones, look for recorded ones that did not fire, and  *)
(* exit with the code of the tally.                                        *)
(***************************************************************************)
EXTENDS Comparison, Sequences, FiniteSets

CONSTANTS
  CaseId,       \* a corpus and a case of it, or a seed and an iteration
  Outcomes,     \* what the two verifiers make of each case
  Invocations   \* the cases of a run, and those recorded as dangerous

ExitAbort == 101      \* a panic of the harness itself
NoExit == -1

ASSUME OutcomesAssumption ==
  Outcomes \subseteq [CaseId -> [dcap : DcapOutcome, qvl : QvlOutcome]]
ASSUME InvocationsAssumption ==
  Invocations \subseteq [cases : Seq(CaseId), allow : SUBSET CaseId]

VARIABLES
  outcome,      \* both verifiers are deterministic
  run,          \* phase of the invocation
  cases, allow, \* its arguments
  pos,          \* the case it is at
  tally, reproduced, exit

runVars == <<run, cases, allow, pos, tally, reproduced, exit>>

InScope == {cases[i] : i \in DOMAIN cases}
Dcap(id) == outcome[id].dcap
Qvl(id) == outcome[id].qvl
BucketOf(id) == Classify(Dcap(id), Qvl(id))

-----------------------------------------------------------------------------
RunInit ==
  /\ outcome \in Outcomes
  /\ run = "ready" /\ cases = <<>> /\ allow = {} /\ pos = 1
  /\ tally = EmptyTally /\ reproduced = {} /\ exit = NoExit

Start(invocation) ==
  /\ run = "ready" /\ run' = "comparing"
  /\ cases' = invocation.cases /\ allow' = invocation.allow
  /\ pos' = 1 /\ tally' = EmptyTally /\ reproduced' = {} /\ exit' = NoExit
  /\ UNCHANGED outcome

(* A variant that remembers every dangerous case as reproduced.            *)
CompareCaseUnchecked ==
  LET id == cases[pos]
      dangerous == BucketOf(id) = "dangerous"
      known == dangerous /\ id \in allow
  IN /\ run = "comparing" /\ pos <= Len(cases)
     /\ Qvl(id).kind # "abort"
     /\ tally' = [tally EXCEPT ![IF known THEN "dangerousKnown" ELSE BucketOf(id)] = @ + 1]
     /\ reproduced' = IF dangerous THEN reproduced \cup {id} ELSE reproduced
     /\ pos' = pos + 1
     /\ UNCHANGED <<outcome, run, cases, allow, exit>>

(* A dangerous case that is recorded counts as known, whatever its kind. *)
CompareCase ==
  LET id == cases[pos]
      known == BucketOf(id) = "dangerous" /\ id \in allow
  IN /\ run = "comparing" /\ pos <= Len(cases)
     /\ Qvl(id).kind # "abort"
     /\ tally' = [tally EXCEPT ![IF known THEN "dangerousKnown" ELSE BucketOf(id)] = @ + 1]
     /\ reproduced' = IF known THEN reproduced \cup {id} ELSE reproduced
     /\ pos' = pos + 1
     /\ UNCHANGED <<outcome, run, cases, allow, exit>>

(* The harness dies at the case; nothing is tallied any more. *)
Abort ==
  /\ run = "comparing" /\ pos <= Len(cases)
  /\ Qvl(cases[pos]).kind = "abort"
  /\ run' = "exited" /\ exit' = ExitAbort
  /\ UNCHANGED <<outcome, cases, allow, pos, tally, reproduced>>

Vanished == (allow \cap InScope) \ reproduced

(* Recorded cases of the run's scope that did not fire are counted, and    *)
(* the verdict is given.                                                   *)
Finish ==
  /\ run = "comparing" /\ pos > Len(cases)
  /\ tally' = IF Vanished = {} THEN tally ELSE [tally EXCEPT !["vanished"] = Cardinality(Vanished)]
  /\ exit' = ExitCode(tally') /\ run' = "exited"
  /\ UNCHANGED <<outcome, cases, allow, pos, reproduced>>

(* The caller has taken the exit code. *)
Reap ==
  /\ run = "exited" /\ run' = "ready"
  /\ UNCHANGED <<outcome, cases, allow, pos, tally, reproduced, exit>>

RunStep == CompareCase \/ Abort \/ Finish

Next == (\E invocation \in Invocations : Start(invocation)) \/ RunStep \/ Reap

Spec == RunInit /\ [][Next]_<<outcome, runVars>>

-----------------------------------------------------------------------------
TypeOK ==
  /\ outcome \in [CaseId -> [dcap : DcapOutcome, qvl : QvlOutcome]]
  /\ run \in {"ready", "comparing", "exited"}
  /\ cases \in Seq(CaseId) /\ allow \subseteq CaseId /\ reproduced \subseteq allow
  /\ pos \in 1..(Len(cases) + 1)
  /\ tally \in Tally
  /\ exit \in {NoExit, ExitClean, ExitReview, ExitFail, ExitAbort}

(* What a case really shows. *)
Defect(id) ==
  \/ Dcap(id).kind = "panic"
  \/ /\ Dcap(id).kind = "accept" /\ QvlAccepts(Qvl(id)) /\ ~Expired(Qvl(id))
     /\ Qvl(id).result # ResultOf[Dcap(id).standing]

(* dcap-verify accepts what QVL does not accept as current. *)
Divergent(id) ==
  Dcap(id).kind = "accept" /\ (QvlAccepts(Qvl(id)) => Expired(Qvl(id)))

(* The verdict the documentation promises for a run that was not aborted:  *)
(* a defect fails it; otherwise it is clean exactly when the recorded      *)
(* cases in its scope are the ones that diverge.                           *)
ContractExit ==
  IF \E id \in InScope : Qvl(id).kind = "abort" THEN ExitAbort
  ELSE IF \E id \in InScope : Defect(id) THEN ExitFail
  ELSE IF \E id \in InScope : ~(Divergent(id) <=> id \in allow) THEN ExitReview
  ELSE ExitClean

(* The exit code of a run is the verdict of its contract, whatever order   *)
(* the cases come in and however often one is repeated: the counting loop, *)
(* the excuse of recorded cases and the scan for vanished ones neither     *)
(* lose a divergence nor raise one that is recorded.                       *)
RunHonest == run = "exited" => exit = ContractExit
=============================================================================
