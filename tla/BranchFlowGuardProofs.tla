------------------------ MODULE BranchFlowGuardProofs ------------------------
(***************************************************************************)
(* A pull request is mergeable only by the rules, and is if it follows     *)
(* them, for every set of heads and descriptions and any number of pushes, *)
(* edits, reruns and switches.                                             *)
(***************************************************************************)
EXTENDS BranchFlowGuard, TLAPS

StepName == {"read", "branch", "key", "passed", "failed", "skipped"}

JobAttempt ==
  [job : {"guard", "staging-test"}, event : PullRequest, required : Required,
   step : StepName,
   tries : 0..(RETRIES - 1), unanswered : SUBSET Question]

(* What the step an attempt is at says of the pull request as it is now,   *)
(* if that has not changed since the attempt started.  The verdict is the  *)
(* guard's, the confirming questions are those that speak for the branch,  *)
(* and recorded says whether a record that may be needed is there.         *)
Tells(a, verdict, confirming, recorded) ==
  /\ a.job = "guard" =>
       /\ a.step # "skipped"
       /\ a.step = "passed" => verdict = "passed" \/ (verdict = "branch" /\ confirming # {})
       /\ a.step \in {"branch", "key"} => verdict = "branch"
       /\ a.step = "key" => confirming \subseteq a.unanswered \cup {"key"}
       /\ a.step = "failed" /\ "read" \notin a.unanswered =>
            verdict = "failed" \/ (verdict = "branch" /\ confirming \subseteq a.unanswered)
  /\ a.job = "staging-test" =>
       /\ a.step \notin {"branch", "key"}
       /\ a.step = "skipped" => ~a.required
       /\ a.step = "passed" /\ a.required => recorded
       /\ a.step = "failed" /\ "read" \notin a.unanswered => a.required /\ ~recorded

Recorded == pr.base = "main" /\ head.name = "staging" => TestedCommit(pr.body) = pr.sha

(* Every attempt after the first m started since the last change, and each *)
(* job was started for the head commit among them.                         *)
FreshAfter(m) ==
  /\ \A i \in (m + 1)..Len(attempts) : Tells(attempts[i], Enforce(pr), Confirming, Recorded)
  /\ \A j \in 1..Len(Jobs) : \E i \in (m + 1)..Len(attempts) :
       attempts[i].job = Jobs[j] /\ attempts[i].event.sha = pr.sha

GuardInv ==
  /\ attempts \in Seq(JobAttempt) /\ TypeOK
  /\ head.name \in Flow => head.name # pr.base
  /\ \A i \in (switchedAt + 1)..Len(attempts) : attempts[i].required = required
  /\ pr.base \in Flow => \E m \in 0..Len(attempts) : FreshAfter(m)

-----------------------------------------------------------------------------
(* A branch that names an issue has a question that confirms it.           *)
LEMMA ConfirmingSays ==
  /\ Confirming \subseteq {"branch", "key"}
  /\ "branch" \in Confirming <=> head.linked
  /\ "key" \in Confirming <=> head.keyed
  /\ Confirming # {} <=> head.linked \/ head.keyed
  BY DEF Confirming

(* The branches stand in the order of the flow. *)
LEMMA Positions ==
  /\ Position("dev") = 1 /\ Position("staging") = 2 /\ Position("main") = 3
  /\ Order[1] = "dev" /\ Order[2] = "staging" /\ Order[3] = "main"
<1>1. Len(Order) = 3 /\ Order[1] = "dev" /\ Order[2] = "staging" /\ Order[3] = "main"
  BY DEF Order
<1>2. \A i \in 1..3 : i = 1 \/ i = 2 \/ i = 3
  OBVIOUS
<1>3. Position("dev") = 1
  BY <1>1, <1>2 DEF Position
<1>4. Position("staging") = 2
  BY <1>1, <1>2 DEF Position
<1>5. Position("main") = 3
  BY <1>1, <1>2 DEF Position
<1> QED
  BY <1>1, <1>3, <1>4, <1>5

(* The rules give one of three verdicts. *)
LEMMA EnforceVerdict ==
  ASSUME NEW seen
  PROVE  Enforce(seen) \in {"passed", "failed", "branch"}
  BY DEF Enforce, CheckFirstHop

LEMMA StagingVerdict ==
  ASSUME NEW seen, NEW on
  PROVE  StagingTest(seen, on) \in {"passed", "failed"}
  BY DEF StagingTest

LEMMA StagingSays ==
  ASSUME NEW on \in BOOLEAN
  PROVE  StagingTest(pr, on) = IF on => Recorded THEN "passed" ELSE "failed"
  BY DEF StagingTest, Recorded

(* What the guard job says when Linear knows no issue, or an issue: it     *)
(* passes exactly what the header of the workflow allows.                  *)
LEMMA EnforceIsAllowed ==
  ASSUME TypeOK, pr.base \in Flow, head.name \in Flow => head.name # pr.base,
         Enforce(pr) = "passed" \/ (Enforce(pr) = "branch" /\ Confirming # {}),
         pr.base = "main" /\ head.name = "staging" /\ required => TestedCommit(pr.body) = pr.sha
  PROVE  Allowed
<1>1. head \in HeadBranch /\ pr.base \in {"dev", "staging", "main"}
  BY GuardAssumption DEF TypeOK, Flow
<1>2. head.name \in {"dev", "staging", "main", "nolinear", "nolinear/reason", "dependabot", "topic"}
  BY <1>1 DEF HeadBranch, Flow
<1>3. CASE head.name \in Flow
  <2>1. head.same_repo
    BY <1>3 DEF Enforce, Impostor
  <2>2. CASE pr.base = "dev"
    BY <1>2, <1>3, <2>1, <2>2 DEF Allowed, Flow
  <2>3. CASE pr.base = "staging"
    BY <1>2, <1>3, <2>1, <2>3 DEF Allowed, Flow
  <2>4. CASE pr.base = "main"
    <3>1. Position(pr.base) = 3 /\ ~BackMerge(pr.base)
      BY <1>2, <1>3, <2>4, Positions DEF BackMerge, Flow
    <3>2. head.name = "staging"
      BY <1>3, <2>1, <2>4, <3>1, Positions DEF Enforce, Impostor
    <3> QED
      BY <2>1, <2>4, <3>2 DEF Allowed
  <2> QED
    BY <1>1, <2>2, <2>3, <2>4
<1>4. CASE head.name \notin Flow
  <2>1. ~Impostor /\ ~BackMerge(pr.base)
    BY <1>4 DEF Impostor, BackMerge
  <2>2. pr.base = "dev"
    <3>1. ASSUME pr.base \in {"staging", "main"} PROVE FALSE
      <4>1. Position(pr.base) # 1 /\ Order[Position(pr.base) - 1] \in Flow
        BY <3>1, Positions DEF Flow
      <4> QED
        BY <1>4, <2>1, <4>1 DEF Enforce
    <3> QED
      BY <1>1, <3>1
  <2>3. Enforce(pr) = CheckFirstHop(pr)
    BY <2>1, <2>2, Positions DEF Enforce, Flow
  <2>4. FirstHop
    BY <1>2, <1>4, <2>3, ConfirmingSays DEF CheckFirstHop, FirstHop, NamesIssue, Flow
  <2> QED
    BY <1>4, <2>2, <2>4 DEF Allowed
<1> QED
  BY <1>3, <1>4

(* It fails nothing that the header allows. *)
LEMMA AllowedIsEnforced ==
  ASSUME TypeOK, pr.base \in Flow, Allowed, api_key
  PROVE  /\ Enforce(pr) # "failed"
         /\ Enforce(pr) = "branch" => NamesIssue
         /\ StagingTest(pr, required) = "passed"
<1>1. head \in HeadBranch /\ pr.base \in {"dev", "staging", "main"}
  BY GuardAssumption DEF TypeOK, Flow
<1>2. CASE pr.base = "dev" /\ head.name \notin Flow /\ FirstHop
  <2>1. Enforce(pr) = CheckFirstHop(pr)
    BY <1>2, Positions DEF Enforce, Impostor, BackMerge, Flow
  <2>2. StagingTest(pr, required) = "passed"
    BY <1>2 DEF StagingTest
  <2> QED
    BY <1>2, <2>1, <2>2 DEF CheckFirstHop, FirstHop, NamesIssue
<1>3. CASE /\ head.same_repo
           /\ <<head.name, pr.base>> \in {<<"main", "staging">>, <<"main", "dev">>, <<"staging", "dev">>}
  <2>1. BackMerge(pr.base) /\ ~Impostor
    BY <1>3, Positions DEF BackMerge, Impostor, Flow
  <2>2. Enforce(pr) = "passed"
    BY <1>1, <2>1 DEF Enforce
  <2> QED
    BY <1>3, <2>2 DEF StagingTest
<1>4. CASE head.same_repo /\ head.name = "dev" /\ pr.base = "staging"
  <2>1. ~BackMerge(pr.base) /\ ~Impostor
    BY <1>4, Positions DEF BackMerge, Impostor, Flow
  <2>2. Enforce(pr) = "passed"
    BY <1>4, <2>1, Positions DEF Enforce, Flow
  <2> QED
    BY <1>4, <2>2 DEF StagingTest
<1>5. CASE /\ head.same_repo /\ head.name = "staging" /\ pr.base = "main"
           /\ required => TestedCommit(pr.body) = pr.sha
  <2>1. ~BackMerge(pr.base) /\ ~Impostor
    BY <1>5, Positions DEF BackMerge, Impostor, Flow
  <2>2. Enforce(pr) = "passed"
    BY <1>5, <2>1, Positions DEF Enforce, Flow
  <2> QED
    BY <1>5, <2>2 DEF StagingTest
<1> QED
  BY <1>2, <1>3, <1>4, <1>5 DEF Allowed

-----------------------------------------------------------------------------
(* The jobs of a start are each job's attempt, for the pull request as it  *)
(* is at the time.                                                         *)
LEMMA AttemptTyped ==
  ASSUME required \in Required, NEW job \in {"guard", "staging-test"}, NEW event \in PullRequest
  PROVE  /\ Attempt(job, event) \in JobAttempt
         /\ Attempt(job, event).job = job /\ Attempt(job, event).event = event
         /\ Attempt(job, event).required = required
         /\ Attempt(job, event).step \in {"read", "skipped"}
         /\ Attempt(job, event).step = "skipped" => job = "staging-test" /\ ~required
<1>1. 0 \in 0..(RETRIES - 1) /\ required \in Required
  BY GuardAssumption
<1> QED
  BY <1>1 DEF Attempt, JobAttempt, StepName

LEMMA JobsTyped ==
  /\ Jobs \in Seq({"guard", "staging-test"}) /\ Len(Jobs) \in 1..2 /\ Jobs[1] = "guard"
  /\ head.name = "staging" => Len(Jobs) = 2 /\ Jobs[2] = "staging-test"
<1>1. CASE head.name = "staging"
  <2>1. Jobs = <<"guard", "staging-test">>
    BY <1>1 DEF Jobs
  <2> QED
    BY <2>1
<1>2. CASE head.name # "staging"
  <2>1. Jobs = <<"guard">>
    BY <1>2 DEF Jobs
  <2> QED
    BY <1>2, <2>1
<1> QED
  BY <1>1, <1>2

LEMMA StartedFresh ==
  ASSUME required \in Required, NEW event \in PullRequest
  PROVE  /\ Started(event) \in Seq(JobAttempt) /\ Len(Started(event)) \in 0..2
         /\ \A k \in 1..Len(Started(event)) :
              /\ Started(event)[k].required = required
              /\ \A v, i, r : Tells(Started(event)[k], v, i, r)
         /\ event.base \in Flow => \A j \in 1..Len(Jobs) :
              /\ j \in 1..Len(Started(event))
              /\ Started(event)[j].job = Jobs[j] /\ Started(event)[j].event = event
<1>1. CASE event.base \notin Flow
  <2>1. Started(event) = <<>>
    BY <1>1 DEF Started
  <2> QED
    BY <1>1, <2>1
<1>2. CASE event.base \in Flow
  <2>1. Started(event) = [i \in 1..Len(Jobs) |-> Attempt(Jobs[i], event)]
    BY <1>2 DEF Started
  <2>2. Len(Jobs) \in 0..2 /\ \A i \in 1..Len(Jobs) : Jobs[i] \in {"guard", "staging-test"}
    BY JobsTyped
  <2>3. \A i \in 1..Len(Jobs) : Attempt(Jobs[i], event) \in JobAttempt
    BY <2>2, AttemptTyped
  <2>4. Started(event) \in Seq(JobAttempt) /\ Len(Started(event)) = Len(Jobs)
    BY <2>1, <2>2, <2>3
  <2>5. \A k \in 1..Len(Jobs) : /\ Started(event)[k].required = required
                                /\ Started(event)[k].job = Jobs[k]
                                /\ Started(event)[k].event = event
    BY <2>1, <2>2, AttemptTyped
  <2>6. ASSUME NEW k \in 1..Len(Jobs), NEW v, NEW i, NEW r
        PROVE  Tells(Started(event)[k], v, i, r)
    <3> DEFINE a == Attempt(Jobs[k], event)
    <3>1. /\ a.step \in {"read", "skipped"} /\ a.job \in {"guard", "staging-test"}
          /\ a.step = "skipped" => a.job = "staging-test" /\ ~a.required
      BY <2>2, AttemptTyped
    <3>2. Started(event)[k] = a
      BY <2>1
    <3> HIDE DEF a
    <3>3. Tells(a, v, i, r)
      BY <3>1 DEF Tells
    <3> QED
      BY <3>2, <3>3
  <2> QED
    BY <2>2, <2>4, <2>5, <2>6
<1> QED
  BY <1>1, <1>2

-----------------------------------------------------------------------------
(* What the rules say depends on the pull request and the settings alone.  *)
LEMMA VerdictsStay ==
  ASSUME UNCHANGED <<head, api_key, pr>>
  PROVE  /\ Enforce(pr)' = Enforce(pr) /\ (Recorded' <=> Recorded) /\ Jobs' = Jobs
         /\ Confirming' = Confirming
<1>1. head' = head /\ api_key' = api_key /\ pr' = pr
  OBVIOUS
<1>2. Impostor' <=> Impostor
  BY <1>1 DEF Impostor
<1>3. BackMerge(pr.base)' <=> BackMerge(pr.base)
  BY <1>1 DEF BackMerge
<1>4. CheckFirstHop(pr)' = CheckFirstHop(pr)
  BY <1>1 DEF CheckFirstHop
<1>5. Enforce(pr)' = Enforce(pr)
  BY <1>1, <1>2, <1>3, <1>4 DEF Enforce
<1> QED
  BY <1>1, <1>5 DEF Recorded, Jobs, Confirming

(* A first run starts what it is about. *)
LEMMA GuardStart == Init => GuardInv
<1> SUFFICES ASSUME Init PROVE GuardInv
  OBVIOUS
<1>1. /\ head \in Heads /\ api_key \in Keys /\ required \in Required /\ switchedAt = 0
      /\ pr \in PullRequest /\ attempts = Started(pr)
      /\ head.name \in Flow => head.name # pr.base
  BY DEF Init
<1>2. attempts \in Seq(JobAttempt) /\ Len(attempts) \in 0..2
  BY <1>1, StartedFresh
<1>3. TypeOK
  <2>1. \A k \in DOMAIN attempts : attempts[k] \in JobAttempt
    BY <1>2
  <2>2. switchedAt \in 0..Len(attempts) /\ Len(attempts) <= MaxAttempts
    <3>1. MaxAttempts \in Nat /\ MaxAttempts >= 2
      BY GuardAssumption
    <3>2. PICK n \in 0..2 : n = Len(attempts)
      BY <1>2
    <3>3. n <= MaxAttempts /\ 0 \in 0..n
      BY <3>1
    <3> QED
      BY <1>1, <3>2, <3>3
  <2> QED
    BY <1>1, <2>1, <2>2 DEF TypeOK, JobAttempt, StepName, Question
<1>4. \A k \in (switchedAt + 1)..Len(attempts) : attempts[k].required = required
  BY <1>1, StartedFresh
<1>5. ASSUME pr.base \in Flow PROVE FreshAfter(0)
  <2>1. \A k \in (0 + 1)..Len(attempts) : Tells(attempts[k], Enforce(pr), Confirming, Recorded)
    BY <1>1, StartedFresh
  <2>2. \A j \in 1..Len(Jobs) : \E k \in (0 + 1)..Len(attempts) :
          attempts[k].job = Jobs[j] /\ attempts[k].event.sha = pr.sha
    BY <1>1, <1>5, StartedFresh
  <2> QED
    BY <2>1, <2>2 DEF FreshAfter
<1>6. 0 \in 0..Len(attempts)
  BY <1>2
<1> QED
  BY <1>1, <1>2, <1>3, <1>4, <1>5, <1>6 DEF GuardInv

LEMMA ChangeKeeps ==
  ASSUME GuardInv, Change
  PROVE  GuardInv'
<1>1. /\ pr' \in PullRequest
      /\ head.name \in Flow => head.name # pr'.base
      /\ Len(attempts) + Len(Started(pr')) <= MaxAttempts
      /\ attempts' = attempts \o Started(pr') /\ UNCHANGED settings
      /\ head' = head /\ api_key' = api_key /\ required' = required /\ switchedAt' = switchedAt
  BY DEF Change, Room, settings
<1>2. attempts \in Seq(JobAttempt) /\ TypeOK /\ required \in Required /\ Len(attempts) \in Nat
  BY DEF GuardInv, TypeOK
<1>3. Started(pr') \in Seq(JobAttempt) /\ Len(Started(pr')) \in 0..2
  BY <1>1, <1>2, StartedFresh
<1>4. /\ attempts' \in Seq(JobAttempt) /\ Len(attempts') = Len(attempts) + Len(Started(pr'))
      /\ \A k \in 1..Len(attempts) : attempts'[k] = attempts[k]
  BY <1>1, <1>2, <1>3
<1>5. \A k \in 1..Len(Started(pr')) : attempts'[Len(attempts) + k] = Started(pr')[k]
  BY <1>1, <1>2, <1>3
<1>6. TypeOK'
  <2>1. \A k \in DOMAIN attempts' : attempts'[k] \in JobAttempt
    BY <1>4
  <2>2. switchedAt' \in 0..Len(attempts') /\ Len(attempts') <= MaxAttempts
    BY <1>1, <1>2, <1>3, <1>4 DEF TypeOK
  <2> QED
    BY <1>1, <1>2, <2>1, <2>2 DEF TypeOK, JobAttempt, StepName, Question
<1>7. \A k \in (Len(attempts) + 1)..Len(attempts') :
        /\ k - Len(attempts) \in 1..Len(Started(pr'))
        /\ attempts'[k] = Started(pr')[k - Len(attempts)]
  <2>1. ASSUME NEW k \in (Len(attempts) + 1)..Len(attempts')
        PROVE  /\ k - Len(attempts) \in 1..Len(Started(pr'))
               /\ k = Len(attempts) + (k - Len(attempts))
    BY <1>2, <1>3, <1>4
  <2> QED
    BY <1>5, <2>1
<1>8. \A k \in (switchedAt' + 1)..Len(attempts') : attempts'[k].required = required'
  <2>1. ASSUME NEW k \in (switchedAt + 1)..Len(attempts') PROVE attempts'[k].required = required
    <3>1. switchedAt \in Nat
      BY <1>2 DEF TypeOK
    <3>2. k \in (Len(attempts) + 1)..Len(attempts')
          \/ (k \in (switchedAt + 1)..Len(attempts) /\ k \in 1..Len(attempts))
      BY <1>2, <1>3, <1>4, <3>1
    <3>3. CASE k \in (Len(attempts) + 1)..Len(attempts')
      BY <1>1, <1>2, <1>7, <3>3, StartedFresh
    <3>4. CASE k \in (switchedAt + 1)..Len(attempts) /\ k \in 1..Len(attempts)
      BY <1>4, <3>4 DEF GuardInv
    <3> QED
      BY <3>2, <3>3, <3>4
  <2> QED
    BY <1>1, <2>1
<1>9. ASSUME pr'.base \in Flow PROVE \E m \in 0..Len(attempts') : FreshAfter(m)'
  <2>1. Len(attempts) \in 0..Len(attempts')
    BY <1>2, <1>3, <1>4
  <2>2. ASSUME NEW k \in (Len(attempts) + 1)..Len(attempts'), NEW v, NEW i, NEW r
        PROVE  Tells(attempts'[k], v, i, r)
    BY <1>1, <1>2, <1>7, StartedFresh
  <2>3. Jobs' = Jobs
    BY <1>1 DEF Jobs
  <2>4. ASSUME NEW j \in 1..Len(Jobs)
        PROVE  \E k \in (Len(attempts) + 1)..Len(attempts') :
                 attempts'[k].job = Jobs[j] /\ attempts'[k].event.sha = pr'.sha
    <3>1. /\ j \in 1..Len(Started(pr')) /\ Started(pr')[j].job = Jobs[j]
          /\ Started(pr')[j].event = pr'
      BY <1>1, <1>2, <1>9, StartedFresh
    <3>2. Len(attempts) + j \in (Len(attempts) + 1)..Len(attempts')
      BY <1>2, <1>3, <1>4, <3>1
    <3> QED
      BY <1>5, <3>1, <3>2
  <2>5. PICK m \in Nat : m = Len(attempts)
    BY <1>2
  <2>6. FreshAfter(m)'
    BY <2>2, <2>3, <2>4, <2>5 DEF FreshAfter
  <2> QED
    BY <2>1, <2>5, <2>6
<1> QED
  BY <1>1, <1>4, <1>6, <1>8, <1>9 DEF GuardInv

LEMMA RerunKeeps ==
  ASSUME GuardInv, Rerun
  PROVE  GuardInv'
<1>1. PICK i \in DOMAIN attempts :
        /\ Len(attempts) + 1 <= MaxAttempts
        /\ attempts' = Append(attempts, Attempt(attempts[i].job, attempts[i].event))
        /\ UNCHANGED <<settings, pr>>
  BY DEF Rerun, Room
<1> DEFINE a == Attempt(attempts[i].job, attempts[i].event)
<1>2. /\ attempts \in Seq(JobAttempt) /\ TypeOK /\ attempts[i] \in JobAttempt
      /\ head' = head /\ api_key' = api_key /\ required' = required
      /\ switchedAt' = switchedAt /\ pr' = pr
  BY <1>1 DEF GuardInv, settings
<1>3. /\ a \in JobAttempt /\ a.required = required /\ a.step \in {"read", "skipped"}
      /\ a.step = "skipped" => a.job = "staging-test" /\ ~required
  <2>1. attempts[i].job \in {"guard", "staging-test"} /\ attempts[i].event \in PullRequest
    BY <1>2 DEF JobAttempt
  <2>2. required \in Required
    BY <1>2 DEF TypeOK
  <2> QED
    BY <2>1, <2>2, AttemptTyped
<1> HIDE DEF a
<1>4. /\ attempts' \in Seq(JobAttempt) /\ Len(attempts') = Len(attempts) + 1
      /\ attempts'[Len(attempts) + 1] = a
      /\ \A k \in 1..Len(attempts) : attempts'[k] = attempts[k]
  BY <1>1, <1>2, <1>3 DEF a
<1>5. TypeOK'
  <2>1. \A k \in DOMAIN attempts' : attempts'[k] \in JobAttempt
    BY <1>4
  <2>2. switchedAt' \in 0..Len(attempts') /\ Len(attempts') <= MaxAttempts
    BY <1>1, <1>2, <1>4 DEF TypeOK
  <2> QED
    BY <1>2, <2>1, <2>2 DEF TypeOK, JobAttempt, StepName, Question
<1>6. \A k \in (switchedAt' + 1)..Len(attempts') : attempts'[k].required = required'
  <2>1. ASSUME NEW k \in (switchedAt' + 1)..Len(attempts') PROVE attempts'[k].required = required
    <3>1. switchedAt \in Nat /\ Len(attempts) \in Nat
      BY <1>2 DEF TypeOK
    <3>2. k = Len(attempts) + 1 \/ (k \in (switchedAt + 1)..Len(attempts) /\ k \in 1..Len(attempts))
      BY <1>2, <1>4, <3>1
    <3> QED
      BY <1>3, <1>4, <3>2 DEF GuardInv
  <2> QED
    BY <1>2, <2>1
<1>7. ASSUME pr'.base \in Flow PROVE \E m \in 0..Len(attempts') : FreshAfter(m)'
  <2>1. PICK m \in 0..Len(attempts) : FreshAfter(m)
    BY <1>2, <1>7 DEF GuardInv
  <2>2. Len(attempts) \in Nat /\ m \in 0..Len(attempts')
    BY <1>2, <1>4
  <2>3. \A k \in (m + 1)..Len(attempts') : k = Len(attempts) + 1
                                            \/ (k \in (m + 1)..Len(attempts) /\ k \in 1..Len(attempts))
    BY <1>4, <2>2
  <2>4. Tells(a, Enforce(pr), Confirming, Recorded)
    BY <1>3 DEF Tells
  <2>5. \A k \in (m + 1)..Len(attempts') : Tells(attempts'[k], Enforce(pr), Confirming, Recorded)
    BY <1>4, <2>1, <2>3, <2>4 DEF FreshAfter
  <2>6. ASSUME NEW j \in 1..Len(Jobs)
        PROVE  \E k \in (m + 1)..Len(attempts') : attempts'[k].job = Jobs[j] /\ attempts'[k].event.sha = pr.sha
    <3>1. PICK k \in (m + 1)..Len(attempts) : attempts[k].job = Jobs[j] /\ attempts[k].event.sha = pr.sha
      BY <2>1 DEF FreshAfter
    <3>2. k \in 1..Len(attempts) /\ k \in (m + 1)..Len(attempts')
      BY <1>4, <2>2
    <3> QED
      BY <1>4, <3>1, <3>2
  <2>7. Enforce(pr)' = Enforce(pr) /\ (Recorded' <=> Recorded) /\ Jobs' = Jobs
        /\ Confirming' = Confirming
    BY <1>2, VerdictsStay
  <2>8. FreshAfter(m)'
    BY <1>2, <2>5, <2>6, <2>7 DEF FreshAfter
  <2> QED
    BY <2>2, <2>8
<1> QED
  BY <1>2, <1>4, <1>5, <1>6, <1>7 DEF GuardInv

LEMMA SwitchKeeps ==
  ASSUME GuardInv, Switch
  PROVE  GuardInv'
<1>1. /\ required' \in Required /\ switchedAt' = Len(attempts)
      /\ head' = head /\ api_key' = api_key /\ pr' = pr /\ attempts' = attempts
      /\ attempts \in Seq(JobAttempt) /\ TypeOK
  BY DEF Switch, GuardInv
<1>2. Len(attempts) \in Nat
  BY <1>1
<1>3. TypeOK'
  BY <1>1, <1>2 DEF TypeOK
<1>4. \A k \in (switchedAt' + 1)..Len(attempts') : attempts'[k].required = required'
  BY <1>1, <1>2
<1>5. \A m : FreshAfter(m)' <=> FreshAfter(m)
  <2>1. Enforce(pr)' = Enforce(pr) /\ (Recorded' <=> Recorded) /\ Jobs' = Jobs
        /\ Confirming' = Confirming
    BY <1>1, VerdictsStay
  <2> QED
    BY <1>1, <2>1 DEF FreshAfter
<1> QED
  BY <1>1, <1>3, <1>4, <1>5 DEF GuardInv

-----------------------------------------------------------------------------
(* One step of a job. *)
MovedTo(a, step, unanswered) == [a EXCEPT !.step = step, !.tries = 0, !.unanswered = unanswered]

LEMMA LeaveIs ==
  ASSUME attempts \in Seq(JobAttempt), NEW i \in DOMAIN attempts, NEW step, NEW unanswered,
         Leave(i, step, unanswered)
  PROVE  /\ DOMAIN attempts' = DOMAIN attempts /\ Len(attempts') = Len(attempts)
         /\ \A k \in DOMAIN attempts \ {i} : attempts'[k] = attempts[k]
         /\ attempts'[i] = MovedTo(attempts[i], step, unanswered)
  BY DEF Leave, MovedTo

(* A step keeps what the attempt is about, and it tells as much as before. *)
Advances(a, b) ==
  /\ b \in JobAttempt
  /\ b.job = a.job /\ b.event = a.event /\ b.required = a.required
  /\ Tells(a, Enforce(pr), Confirming, Recorded) => Tells(b, Enforce(pr), Confirming, Recorded)

LEMMA Moved ==
  ASSUME NEW a \in JobAttempt, NEW step \in StepName,
         NEW unanswered \in SUBSET Question
  PROVE  /\ MovedTo(a, step, unanswered) \in JobAttempt
         /\ MovedTo(a, step, unanswered).job = a.job /\ MovedTo(a, step, unanswered).event = a.event
         /\ MovedTo(a, step, unanswered).required = a.required
         /\ MovedTo(a, step, unanswered).step = step
         /\ MovedTo(a, step, unanswered).unanswered = unanswered
<1>1. 0 \in 0..(RETRIES - 1)
  BY GuardAssumption
<1> QED
  BY <1>1 DEF JobAttempt, MovedTo

LEMMA StepAdvances ==
  ASSUME GuardInv, NEW i \in DOMAIN attempts, Step(i)
  PROVE  /\ DOMAIN attempts' = DOMAIN attempts /\ Len(attempts') = Len(attempts)
         /\ \A k \in DOMAIN attempts \ {i} : attempts'[k] = attempts[k]
         /\ Advances(attempts[i], attempts'[i])
<1> DEFINE a == attempts[i]
<1>1. /\ attempts \in Seq(JobAttempt) /\ a \in JobAttempt /\ head \in HeadBranch
      /\ a.required \in BOOLEAN /\ a.job \in {"guard", "staging-test"}
      /\ a.unanswered \in SUBSET Question
  BY GuardAssumption DEF GuardInv, TypeOK, JobAttempt, StepName, Question
<1>2. ASSUME NEW step \in StepName,
             NEW unanswered \in SUBSET Question, Leave(i, step, unanswered),
             Tells(a, Enforce(pr), Confirming, Recorded)
               => Tells(MovedTo(a, step, unanswered), Enforce(pr), Confirming, Recorded)
      PROVE  /\ DOMAIN attempts' = DOMAIN attempts /\ Len(attempts') = Len(attempts)
             /\ \A k \in DOMAIN attempts \ {i} : attempts'[k] = attempts[k]
             /\ Advances(attempts[i], attempts'[i])
  <2> DEFINE b == MovedTo(a, step, unanswered)
  <2>1. /\ DOMAIN attempts' = DOMAIN attempts /\ Len(attempts') = Len(attempts)
        /\ \A k \in DOMAIN attempts \ {i} : attempts'[k] = attempts[k]
        /\ attempts'[i] = b
    BY <1>1, <1>2, LeaveIs
  <2>2. b \in JobAttempt /\ b.job = a.job /\ b.event = a.event /\ b.required = a.required
    BY <1>1, Moved
  <2>3. Tells(a, Enforce(pr), Confirming, Recorded) => Tells(b, Enforce(pr), Confirming, Recorded)
    BY <1>2
  <2> HIDE DEF b
  <2> QED
    BY <2>1, <2>2, <2>3 DEF Advances
<1>3. CASE Transient(i)
  <2> DEFINE b == [a EXCEPT !.tries = @ + 1]
  <2>1. /\ DOMAIN attempts' = DOMAIN attempts /\ Len(attempts') = Len(attempts)
        /\ \A k \in DOMAIN attempts \ {i} : attempts'[k] = attempts[k]
        /\ attempts'[i] = b /\ a.tries + 1 < RETRIES
    BY <1>1, <1>3 DEF Transient
  <2>2. a.tries + 1 \in 0..(RETRIES - 1)
    BY <1>1, <2>1, GuardAssumption DEF JobAttempt
  <2>3. b \in JobAttempt /\ b.job = a.job /\ b.event = a.event /\ b.required = a.required
        /\ b.step = a.step /\ b.unanswered = a.unanswered
    BY <1>1, <2>2 DEF JobAttempt
  <2> HIDE DEF b
  <2>4. Tells(a, Enforce(pr), Confirming, Recorded) => Tells(b, Enforce(pr), Confirming, Recorded)
    BY <2>3 DEF Tells
  <2> QED
    BY <2>1, <2>3, <2>4 DEF Advances
<1>4. CASE GiveUp(i)
  <2> DEFINE step == AfterFailure(a.step)
             unanswered == a.unanswered \cup {a.step}
             b == MovedTo(a, step, unanswered)
  <2>1. Leave(i, step, unanswered)
    BY <1>4 DEF GiveUp
  <2>2. /\ step \in {"key", "failed"} /\ unanswered \in SUBSET Question
        /\ a.step \in Question /\ step = "key" <=> a.step = "branch"
        /\ unanswered = a.unanswered \cup {a.step}
    BY <1>1 DEF AfterFailure, Step, Running
  <2>3. step \in StepName
    BY <2>2 DEF StepName
  <2>4. b.step = step /\ b.unanswered = unanswered /\ b.job = a.job /\ b.required = a.required
    BY <1>1, <2>2, <2>3, Moved
  <2>5. Tells(a, Enforce(pr), Confirming, Recorded) => Tells(b, Enforce(pr), Confirming, Recorded)
    <3> HIDE DEF b, step, unanswered
    <3> QED
      BY <1>1, <2>2, <2>4, ConfirmingSays DEF Tells, Question
  <2> QED
    BY <1>1, <1>2, <2>1, <2>2, <2>3, <2>5
<1>5. CASE ReadPullRequest(i)
  <2> DEFINE step == Decide(a, pr)
             b == MovedTo(a, step, a.unanswered)
  <2>1. Leave(i, step, a.unanswered)
    BY <1>5 DEF ReadPullRequest, Goto
  <2>2. /\ a.job = "guard" => step = Enforce(pr)
        /\ a.job = "staging-test" => step = IF a.required => Recorded THEN "passed" ELSE "failed"
    <3>1. a.job = "staging-test" => step = StagingTest(pr, a.required)
      BY DEF Decide
    <3> QED
      BY <1>1, <3>1, StagingSays DEF Decide
  <2>3. step \in {"passed", "failed", "branch"}
    BY <1>1, <2>2, EnforceVerdict
  <2>4. step \in StepName
    BY <2>3 DEF StepName
  <2>5. b.step = step /\ b.unanswered = a.unanswered /\ b.job = a.job /\ b.required = a.required
    BY <1>1, <2>4, Moved
  <2>6. Tells(a, Enforce(pr), Confirming, Recorded) => Tells(b, Enforce(pr), Confirming, Recorded)
    <3> HIDE DEF b, step
    <3> QED
      BY <1>1, <2>2, <2>3, <2>5 DEF Tells
  <2> QED
    BY <1>1, <1>2, <2>1, <2>4, <2>6
<1>6. CASE LinearBranch(i)
  <2> DEFINE step == IF head.linked THEN "passed" ELSE "key"
             b == MovedTo(a, step, a.unanswered)
  <2>1. a.step = "branch" /\ Leave(i, step, a.unanswered)
    BY <1>6 DEF LinearBranch, Goto
  <2>2. step \in {"passed", "key"} /\ (step = "passed" <=> head.linked)
    OBVIOUS
  <2>3. step \in StepName
    BY <2>2 DEF StepName
  <2>4. b.step = step /\ b.unanswered = a.unanswered /\ b.job = a.job /\ b.required = a.required
    BY <1>1, <2>3, Moved
  <2>5. Tells(a, Enforce(pr), Confirming, Recorded) => Tells(b, Enforce(pr), Confirming, Recorded)
    <3> HIDE DEF b, step
    <3> QED
      BY <1>1, <2>1, <2>2, <2>4, ConfirmingSays DEF Tells
  <2> QED
    BY <1>1, <1>2, <2>1, <2>2, <2>3, <2>5
<1>7. CASE LinearKey(i)
  <2> DEFINE step == IF head.keyed THEN "passed" ELSE "failed"
             b == MovedTo(a, step, a.unanswered)
  <2>1. a.step = "key" /\ Leave(i, step, a.unanswered)
    BY <1>7 DEF LinearKey, Goto
  <2>2. step \in {"passed", "failed"} /\ (step = "passed" <=> head.keyed)
    OBVIOUS
  <2>3. step \in StepName
    BY <2>2 DEF StepName
  <2>4. b.step = step /\ b.unanswered = a.unanswered /\ b.job = a.job /\ b.required = a.required
    BY <1>1, <2>3, Moved
  <2>5. Tells(a, Enforce(pr), Confirming, Recorded) => Tells(b, Enforce(pr), Confirming, Recorded)
    <3> HIDE DEF b, step
    <3> QED
      BY <1>1, <2>1, <2>2, <2>4, ConfirmingSays DEF Tells
  <2> QED
    BY <1>1, <1>2, <2>1, <2>2, <2>3, <2>5
<1> QED
  BY <1>3, <1>4, <1>5, <1>6, <1>7 DEF Step

LEMMA StepKeeps ==
  ASSUME GuardInv, NEW i \in DOMAIN attempts, Step(i)
  PROVE  GuardInv'
<1>1. /\ head' = head /\ api_key' = api_key /\ required' = required
      /\ switchedAt' = switchedAt /\ pr' = pr
  BY DEF Step, Transient, GiveUp, ReadPullRequest, LinearBranch, LinearKey, Goto, Leave, settings
<1>2. /\ DOMAIN attempts' = DOMAIN attempts /\ Len(attempts') = Len(attempts)
      /\ \A k \in DOMAIN attempts \ {i} : attempts'[k] = attempts[k]
      /\ Advances(attempts[i], attempts'[i])
  BY StepAdvances
<1>3. attempts \in Seq(JobAttempt) /\ TypeOK /\ DOMAIN attempts = 1..Len(attempts) /\ Len(attempts) \in Nat
  BY DEF GuardInv
<1>4. \A k \in 1..Len(attempts) :
        /\ attempts'[k] \in JobAttempt
        /\ attempts'[k].job = attempts[k].job /\ attempts'[k].event = attempts[k].event
        /\ attempts'[k].required = attempts[k].required
        /\ Tells(attempts[k], Enforce(pr), Confirming, Recorded)
             => Tells(attempts'[k], Enforce(pr), Confirming, Recorded)
  BY <1>2, <1>3 DEF Advances
<1>5. attempts' \in Seq(JobAttempt)
  <2>1. attempts' = [attempts EXCEPT ![i] = attempts'[i]]
    BY <1>3 DEF Step, Transient, GiveUp, ReadPullRequest, LinearBranch, LinearKey, Goto, Leave
  <2> QED
    BY <1>3, <1>4, <2>1
<1>6. TypeOK'
  BY <1>1, <1>2, <1>3, <1>4 DEF TypeOK, JobAttempt, StepName, Question
<1>7. \A k \in (switchedAt' + 1)..Len(attempts') : attempts'[k].required = required'
  <2>1. switchedAt \in Nat
    BY <1>3 DEF TypeOK
  <2>2. \A k \in (switchedAt + 1)..Len(attempts) : k \in 1..Len(attempts)
    BY <1>3, <2>1
  <2>3. \A k \in (switchedAt + 1)..Len(attempts) : attempts'[k].required = required
    BY <1>4, <2>2 DEF GuardInv
  <2> QED
    BY <1>1, <1>2, <2>3
<1>8. ASSUME NEW m \in 0..Len(attempts), FreshAfter(m) PROVE FreshAfter(m)'
  <2>1. Enforce(pr)' = Enforce(pr) /\ (Recorded' <=> Recorded) /\ Jobs' = Jobs
        /\ Confirming' = Confirming
    BY <1>1, VerdictsStay
  <2>2. \A k \in (m + 1)..Len(attempts) : k \in 1..Len(attempts)
    BY <1>3
  <2>3. \A k \in (m + 1)..Len(attempts) : Tells(attempts'[k], Enforce(pr), Confirming, Recorded)
    BY <1>4, <1>8, <2>2 DEF FreshAfter
  <2>4. \A j \in 1..Len(Jobs) : \E k \in (m + 1)..Len(attempts) :
          attempts'[k].job = Jobs[j] /\ attempts'[k].event.sha = pr.sha
    <3>1. ASSUME NEW j \in 1..Len(Jobs)
          PROVE  \E k \in (m + 1)..Len(attempts) :
                   attempts'[k].job = Jobs[j] /\ attempts'[k].event.sha = pr.sha
      <4>1. PICK k \in (m + 1)..Len(attempts) :
              attempts[k].job = Jobs[j] /\ attempts[k].event.sha = pr.sha
        BY <1>8 DEF FreshAfter
      <4>2. attempts'[k].job = attempts[k].job /\ attempts'[k].event = attempts[k].event
        BY <1>4, <2>2
      <4> QED
        BY <4>1, <4>2
    <3> QED
      BY <3>1
  <2> QED
    BY <1>1, <1>2, <2>1, <2>3, <2>4 DEF FreshAfter
<1> QED
  BY <1>1, <1>2, <1>3, <1>5, <1>6, <1>7, <1>8 DEF GuardInv

LEMMA GuardInvariant == Spec => []GuardInv
<1>1. GuardInv /\ [Next]_vars => GuardInv'
  <2> SUFFICES ASSUME GuardInv, [Next]_vars PROVE GuardInv'
    OBVIOUS
  <2>1. CASE Change
    BY <2>1, ChangeKeeps
  <2>2. CASE Rerun
    BY <2>2, RerunKeeps
  <2>3. CASE Switch
    BY <2>3, SwitchKeeps
  <2>4. ASSUME NEW i \in DOMAIN attempts, Step(i) PROVE GuardInv'
    BY <2>4, StepKeeps
  <2>5. CASE UNCHANGED vars
    <3>1. /\ head' = head /\ api_key' = api_key /\ required' = required
          /\ switchedAt' = switchedAt /\ pr' = pr /\ attempts' = attempts
      BY <2>5 DEF vars, settings
    <3>2. Enforce(pr)' = Enforce(pr) /\ (Recorded' <=> Recorded) /\ Jobs' = Jobs
          /\ Confirming' = Confirming
      BY <3>1, VerdictsStay
    <3>3. \A m : FreshAfter(m)' <=> FreshAfter(m)
      BY <3>1, <3>2 DEF FreshAfter
    <3>4. TypeOK' <=> TypeOK
      BY <3>1 DEF TypeOK
    <3> QED
      BY <3>1, <3>3, <3>4 DEF GuardInv
  <2> QED
    BY <2>1, <2>2, <2>3, <2>4, <2>5 DEF Next
<1> QED
  BY GuardStart, <1>1, PTL DEF Spec

-----------------------------------------------------------------------------
(* Each job has an attempt that decides, and it started since the last     *)
(* change: what it says is about the pull request as it is now.            *)
LEMMA DecisiveTells ==
  ASSUME GuardInv, pr.base \in Flow, NEW j \in 1..Len(Jobs), NEW i \in Of(Jobs[j]),
         Decisive(Jobs[j], i)
  PROVE  /\ attempts[i] \in JobAttempt /\ attempts[i].job = Jobs[j]
         /\ Tells(attempts[i], Enforce(pr), Confirming, Recorded)
         /\ i > switchedAt => attempts[i].required = required
<1>1. attempts \in Seq(JobAttempt) /\ TypeOK /\ i \in DOMAIN attempts /\ attempts[i].job = Jobs[j]
  BY DEF GuardInv, Of
<1>2. PICK m \in 0..Len(attempts) : FreshAfter(m)
  BY DEF GuardInv
<1>3. PICK k \in (m + 1)..Len(attempts) : attempts[k].job = Jobs[j] /\ attempts[k].event.sha = pr.sha
  BY <1>2 DEF FreshAfter
<1>4. Len(attempts) \in Nat /\ DOMAIN attempts = 1..Len(attempts) /\ k \in DOMAIN attempts
  BY <1>1
<1>5. k <= i
  BY <1>3, <1>4 DEF Decisive, Of
<1>6. i \in (m + 1)..Len(attempts)
  BY <1>1, <1>4, <1>5
<1>7. i > switchedAt => attempts[i].required = required
  <2>1. switchedAt \in Nat
    BY <1>1, <1>4 DEF TypeOK
  <2>2. i > switchedAt => i \in (switchedAt + 1)..Len(attempts)
    BY <1>1, <1>4, <2>1
  <2> QED
    BY <2>2 DEF GuardInv
<1> QED
  BY <1>1, <1>2, <1>6, <1>7 DEF FreshAfter

(* The guard job is the first, and staging-test the second of a pull       *)
(* request from staging.                                                   *)
LEMMA MergesIf ==
  ASSUME GuardInv, Mergeable, UnderPresentSwitch
  PROVE  Allowed
<1>1. /\ pr.base \in Flow /\ TypeOK
      /\ head.name \in Flow => head.name # pr.base
  BY DEF Mergeable, GuardInv
<1>2. Enforce(pr) = "passed" \/ (Enforce(pr) = "branch" /\ Confirming # {})
  <2>1. 1 \in 1..Len(Jobs) /\ Jobs[1] = "guard"
    BY JobsTyped
  <2>2. PICK i \in Of(Jobs[1]) : Decisive(Jobs[1], i) /\ attempts[i].step \in {"passed", "skipped"}
    BY <2>1 DEF Mergeable
  <2>3. attempts[i].job = "guard" /\ Tells(attempts[i], Enforce(pr), Confirming, Recorded)
    BY <1>1, <2>1, <2>2, DecisiveTells
  <2> QED
    BY <2>2, <2>3 DEF Tells
<1>3. ASSUME head.name = "staging", required PROVE Recorded
  <2>1. 2 \in 1..Len(Jobs) /\ Jobs[2] = "staging-test"
    BY <1>3, JobsTyped
  <2>2. PICK i \in Of(Jobs[2]) : Decisive(Jobs[2], i) /\ attempts[i].step \in {"passed", "skipped"}
    BY <2>1 DEF Mergeable
  <2>3. i > switchedAt
    BY <2>1, <2>2 DEF UnderPresentSwitch
  <2>4. /\ attempts[i].job = "staging-test" /\ Tells(attempts[i], Enforce(pr), Confirming, Recorded)
        /\ attempts[i].required = required
    BY <1>1, <2>1, <2>2, <2>3, DecisiveTells
  <2> QED
    BY <1>3, <2>2, <2>4 DEF Tells
<1> QED
  BY <1>1, <1>2, <1>3, EnforceIsAllowed DEF Recorded

LEMMA GoodIf ==
  ASSUME GuardInv, pr.base \in Flow, Allowed, api_key, UnderPresentSwitch,
         \A j \in 1..Len(Jobs) : \E i \in Of(Jobs[j]) :
           Decisive(Jobs[j], i) /\ ~Running(i) /\ Heard(attempts[i])
  PROVE  Mergeable
<1>1. TypeOK /\ required \in BOOLEAN
  BY GuardAssumption DEF GuardInv, TypeOK
<1>2. /\ Enforce(pr) # "failed" /\ (Enforce(pr) = "branch" => NamesIssue)
      /\ required => Recorded
  <2>1. StagingTest(pr, required) = "passed"
    BY <1>1, AllowedIsEnforced
  <2>2. required => Recorded
    BY <1>1, <2>1, StagingSays
  <2> QED
    BY <1>1, <2>2, AllowedIsEnforced
<1>3. ASSUME NEW j \in 1..Len(Jobs)
      PROVE  \E i \in Of(Jobs[j]) : Decisive(Jobs[j], i) /\ attempts[i].step \in {"passed", "skipped"}
  <2>1. PICK i \in Of(Jobs[j]) : Decisive(Jobs[j], i) /\ ~Running(i) /\ Heard(attempts[i])
    OBVIOUS
  <2>2. /\ attempts[i] \in JobAttempt /\ attempts[i].job = Jobs[j]
        /\ Tells(attempts[i], Enforce(pr), Confirming, Recorded)
        /\ attempts[i].required = required
    <3>1. i > switchedAt
      BY <2>1 DEF UnderPresentSwitch
    <3> QED
      BY <2>1, <3>1, DecisiveTells
  <2>3. attempts[i].step \in {"passed", "failed", "skipped"}
    BY <2>1, <2>2 DEF Running, JobAttempt, StepName, Question
  <2>4. attempts[i].step # "failed"
    <3>1. CASE attempts[i].job = "guard"
      BY <1>2, <2>1, <2>2, <3>1 DEF Tells, Heard
    <3>2. CASE attempts[i].job = "staging-test"
      BY <1>2, <2>1, <2>2, <3>2 DEF Tells, Heard
    <3> QED
      BY <2>2, <3>1, <3>2 DEF JobAttempt
  <2> QED
    BY <2>1, <2>3, <2>4
<1> QED
  BY <1>3 DEF Mergeable

(* Job attempts and the pull request keep their types, and the attempts    *)
(* their bound.                                                            *)
THEOREM GuardTypeCorrect == Spec => []TypeOK
<1>1. GuardInv => TypeOK
  BY DEF GuardInv
<1> QED
  BY <1>1, GuardInvariant, PTL

(* A pull request that the ruleset lets through follows the rules of the   *)
(* workflow's header as it is now, however pushes, edits, reruns, switches *)
(* and failing services fall between the steps of its jobs.                *)
THEOREM MergesFollowTheRules == Spec => []MergesByTheRules
<1>1. GuardInv => MergesByTheRules
  BY MergesIf DEF MergesByTheRules
<1> QED
  BY <1>1, GuardInvariant, PTL

(* One that follows them is let through unless the pull request could not  *)
(* be read, or every query to Linear that would have confirmed the branch  *)
(* failed: one failed query does not hold up a branch the other confirms.  *)
THEOREM GoodOnesMerge == Spec => []GoodIsMergeable
<1>1. GuardInv => GoodIsMergeable
  BY GoodIf DEF GoodIsMergeable
<1> QED
  BY <1>1, GuardInvariant, PTL

-----------------------------------------------------------------------------
(* At most this many steps are left of a job: every question may be asked  *)
(* RETRIES times, and the read, the branch query and the key query follow  *)
(* each other.                                                             *)
QuestionsLeft(a) ==
  CASE a.step = "read" -> 3
    [] a.step = "branch" -> 2
    [] a.step = "key" -> 1
    [] OTHER -> 0

TriesLeft(a) == QuestionsLeft(a) * RETRIES - (IF QuestionsLeft(a) = 0 THEN 0 ELSE a.tries)

(* An attempt that has ended stays as it is, and a step of one that runs   *)
(* brings its end nearer.                                                  *)
NearerTheEnd(i) ==
  \/ attempts'[i] = attempts[i]
  \/ Running(i) /\ TriesLeft(attempts'[i]) < TriesLeft(attempts[i])

(* A job has tries left as long as it runs. *)
LEMMA TriesLeftTyped ==
  ASSUME NEW a \in JobAttempt
  PROVE  /\ TriesLeft(a) \in 0..(3 * RETRIES)
         /\ TriesLeft(a) # 0 <=> a.step \in {"read", "branch", "key"}
<1>1. RETRIES \in Nat \ {0} /\ a.tries \in 0..(RETRIES - 1) /\ a.step \in StepName
  BY GuardAssumption DEF JobAttempt
<1>2. CASE a.step = "read"
  BY <1>1, <1>2 DEF TriesLeft, QuestionsLeft
<1>3. CASE a.step = "branch"
  BY <1>1, <1>3 DEF TriesLeft, QuestionsLeft
<1>4. CASE a.step = "key"
  BY <1>1, <1>4 DEF TriesLeft, QuestionsLeft
<1>5. CASE a.step \in {"passed", "failed", "skipped"}
  <2>1. QuestionsLeft(a) = 0
    BY <1>5 DEF QuestionsLeft
  <2> QED
    BY <1>1, <1>5, <2>1 DEF TriesLeft
<1> QED
  BY <1>1, <1>2, <1>3, <1>4, <1>5 DEF StepName

(* One question fewer is left, however often this one was tried. *)
LEMMA FewerQuestions ==
  ASSUME NEW a \in JobAttempt, NEW b, QuestionsLeft(a) \in 1..3, QuestionsLeft(b) \in 0..2,
         QuestionsLeft(b) < QuestionsLeft(a), b.tries = 0
  PROVE  TriesLeft(b) < TriesLeft(a)
<1>1. RETRIES \in Nat \ {0} /\ a.tries \in 0..(RETRIES - 1)
  BY GuardAssumption DEF JobAttempt
<1>2. PICK m \in 1..3 : m = QuestionsLeft(a)
  OBVIOUS
<1>3. PICK n \in 0..2 : n = QuestionsLeft(b)
  OBVIOUS
<1>4. TriesLeft(a) = m * RETRIES - a.tries
  BY <1>1, <1>2 DEF TriesLeft
<1>5. TriesLeft(b) = n * RETRIES
  BY <1>1, <1>3 DEF TriesLeft
<1>6. n * RETRIES < m * RETRIES - a.tries
  <2>1. n < m
    BY <1>2, <1>3
  <2>2. (m = 1 \/ m = 2 \/ m = 3) /\ (n = 0 \/ n = 1 \/ n = 2)
    OBVIOUS
  <2> QED
    BY <1>1, <2>1, <2>2
<1> QED
  BY <1>4, <1>5, <1>6

(* A step of a job brings its own end nearer and leaves the others alone. *)
LEMMA StepNearer ==
  ASSUME GuardInv, NEW i \in DOMAIN attempts, Step(i)
  PROVE  \A j \in DOMAIN attempts : NearerTheEnd(j)
<1> DEFINE a == attempts[i]
<1>1. /\ attempts \in Seq(JobAttempt) /\ a \in JobAttempt /\ a.unanswered \in SUBSET Question
      /\ a.step \in {"read", "branch", "key"} /\ Running(i)
  <2>1. attempts \in Seq(JobAttempt) /\ Running(i)
    BY DEF GuardInv, Step
  <2>2. a \in JobAttempt
    BY <2>1
  <2> QED
    BY <2>1, <2>2 DEF JobAttempt, Running, Question
<1>2. \A j \in DOMAIN attempts \ {i} : attempts'[j] = attempts[j]
  BY StepAdvances
<1>3. ASSUME NEW step \in StepName, NEW unanswered \in SUBSET Question, Leave(i, step, unanswered),
             step \in {"passed", "failed"} \/ (a.step = "read" /\ step = "branch")
                \/ (a.step = "branch" /\ step = "key")
      PROVE  TriesLeft(attempts'[i]) < TriesLeft(attempts[i])
  <2> DEFINE b == MovedTo(a, step, unanswered)
  <2>1. attempts'[i] = b
    BY <1>1, <1>3, LeaveIs
  <2>2. b.step = step /\ b.tries = 0
    BY <1>1 DEF MovedTo, JobAttempt
  <2> HIDE DEF b
  <2>3. /\ QuestionsLeft(a) \in 1..3 /\ QuestionsLeft(b) \in 0..2
        /\ QuestionsLeft(b) < QuestionsLeft(a)
    BY <1>1, <1>3, <2>2 DEF QuestionsLeft
  <2> QED
    BY <1>1, <2>1, <2>2, <2>3, FewerQuestions
<1>4. CASE Transient(i)
  <2> DEFINE b == [a EXCEPT !.tries = @ + 1]
  <2>1. attempts'[i] = b
    BY <1>1, <1>4 DEF Transient
  <2>2. b.step = a.step /\ b.tries = a.tries + 1
    BY <1>1 DEF JobAttempt
  <2>3. a.tries \in Nat /\ RETRIES \in Nat
    BY <1>1, GuardAssumption DEF JobAttempt
  <2> HIDE DEF b
  <2>4. QuestionsLeft(b) = QuestionsLeft(a) /\ QuestionsLeft(a) \in 1..3
    BY <1>1, <2>2 DEF QuestionsLeft
  <2>5. PICK m \in 1..3 : m = QuestionsLeft(a)
    BY <2>4
  <2>6. TriesLeft(a) = m * RETRIES - a.tries /\ TriesLeft(b) = m * RETRIES - (a.tries + 1)
    BY <2>2, <2>4, <2>5 DEF TriesLeft
  <2>7. m * RETRIES \in Int
    BY <2>3
  <2> QED
    BY <1>1, <1>2, <2>1, <2>3, <2>6, <2>7 DEF NearerTheEnd
<1>5. CASE GiveUp(i)
  <2>1. PICK unanswered : unanswered = a.unanswered \cup {a.step}
    OBVIOUS
  <2>2. Leave(i, AfterFailure(a.step), unanswered) /\ unanswered \in SUBSET Question
    BY <1>1, <1>5, <2>1 DEF GiveUp, Question
  <2>3. /\ AfterFailure(a.step) \in StepName
        /\ AfterFailure(a.step) = "failed" \/ (a.step = "branch" /\ AfterFailure(a.step) = "key")
    BY DEF AfterFailure, StepName
  <2> QED
    BY <1>1, <1>2, <1>3, <2>2, <2>3 DEF NearerTheEnd
<1>6. CASE ReadPullRequest(i)
  <2>1. a.step = "read" /\ Leave(i, Decide(a, pr), a.unanswered)
    BY <1>6 DEF ReadPullRequest, Goto
  <2>2. Decide(a, pr) \in {"passed", "failed", "branch"}
    BY EnforceVerdict, StagingVerdict DEF Decide
  <2>3. Decide(a, pr) \in StepName
    BY <2>2 DEF StepName
  <2> QED
    BY <1>1, <1>2, <1>3, <2>1, <2>2, <2>3 DEF NearerTheEnd
<1>7. CASE LinearBranch(i)
  <2>1. PICK step : step = (IF head.linked THEN "passed" ELSE "key")
    OBVIOUS
  <2>2. a.step = "branch" /\ Leave(i, step, a.unanswered)
    BY <1>7, <2>1 DEF LinearBranch, Goto
  <2>3. step \in {"passed", "key"} /\ step \in StepName
    BY <2>1 DEF StepName
  <2> QED
    BY <1>1, <1>2, <1>3, <2>2, <2>3 DEF NearerTheEnd
<1>8. CASE LinearKey(i)
  <2>1. PICK step : step = (IF head.keyed THEN "passed" ELSE "failed")
    OBVIOUS
  <2>2. Leave(i, step, a.unanswered)
    BY <1>8, <2>1 DEF LinearKey, Goto
  <2>3. step \in {"passed", "failed"} /\ step \in StepName
    BY <2>1 DEF StepName
  <2> QED
    BY <1>1, <1>2, <1>3, <2>2, <2>3 DEF NearerTheEnd
<1> QED
  BY <1>4, <1>5, <1>6, <1>7, <1>8 DEF Step

(* Starts and reruns are appended. *)
LEMMA OthersLeaveAttempts ==
  ASSUME GuardInv, Change \/ Rerun \/ Switch
  PROVE  \A j \in DOMAIN attempts : j \in DOMAIN attempts' /\ attempts'[j] = attempts[j]
<1>1. attempts \in Seq(JobAttempt) /\ required \in Required
  BY DEF GuardInv, TypeOK
<1>2. CASE Change
  <2>1. pr' \in PullRequest /\ attempts' = attempts \o Started(pr')
    BY <1>2 DEF Change
  <2>2. Started(pr') \in Seq(JobAttempt)
    BY <1>1, <2>1, StartedFresh
  <2> QED
    BY <1>1, <2>1, <2>2
<1>3. CASE Rerun
  <2>1. PICK i \in DOMAIN attempts :
          attempts' = Append(attempts, Attempt(attempts[i].job, attempts[i].event))
    BY <1>3 DEF Rerun
  <2> QED
    BY <1>1, <2>1
<1>4. CASE Switch
  BY <1>4 DEF Switch
<1> QED
  BY <1>2, <1>3, <1>4

(* No attempt at an answer is lost or made twice over, and no verdict is   *)
(* withdrawn: whatever services fail, a job that runs has tries left, each *)
(* step of it uses one up or moves to the next question, and once it has   *)
(* ended nothing changes what it said.  What AttemptsEnd needs beside it   *)
(* is that the runner takes a step at all.                                 *)
THEOREM JobsRunOut ==
  Spec => /\ [](\A i \in DOMAIN attempts :
                  /\ TriesLeft(attempts[i]) \in 0..(3 * RETRIES)
                  /\ TriesLeft(attempts[i]) # 0 <=> Running(i))
          /\ [][\A i \in DOMAIN attempts : i \in DOMAIN attempts' /\ NearerTheEnd(i)]_vars
<1>1. GuardInv => \A i \in DOMAIN attempts :
                    /\ TriesLeft(attempts[i]) \in 0..(3 * RETRIES)
                    /\ TriesLeft(attempts[i]) # 0 <=> Running(i)
  <2>1. GuardInv => \A i \in DOMAIN attempts : attempts[i] \in JobAttempt
    BY DEF GuardInv
  <2> QED
    BY <2>1, TriesLeftTyped DEF Running, Question
<1>2. GuardInv /\ [Next]_vars
        => [\A i \in DOMAIN attempts : i \in DOMAIN attempts' /\ NearerTheEnd(i)]_vars
  <2> SUFFICES ASSUME GuardInv, Next
               PROVE  \A i \in DOMAIN attempts : i \in DOMAIN attempts' /\ NearerTheEnd(i)
    OBVIOUS
  <2>1. CASE Change \/ Rerun \/ Switch
    BY <2>1, OthersLeaveAttempts DEF NearerTheEnd
  <2>2. ASSUME NEW i \in DOMAIN attempts, Step(i)
        PROVE  \A j \in DOMAIN attempts : j \in DOMAIN attempts' /\ NearerTheEnd(j)
    BY <2>2, StepAdvances, StepNearer
  <2> QED
    BY <2>1, <2>2 DEF Next
<1> QED
  BY <1>1, <1>2, GuardInvariant, PTL DEF Spec
=============================================================================
