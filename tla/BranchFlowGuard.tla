---------------------------- MODULE BranchFlowGuard ----------------------------
(***************************************************************************)
(* .github/scripts/branch_flow_guard.py and the workflow that runs it: the *)
(* check that decides whether a pull request may be merged.  Every change  *)
(* of the pull request starts the jobs anew; a job runs beside the author, *)
(* the other jobs and reruns of old events, reads the pull request once,   *)
(* and asks Linear.  GitHub and Linear are external.                       *)
(***************************************************************************)
EXTENDS ChangeRecord

CONSTANTS
  Heads,       \* head branches, with their author and what Linear knows of them
  Bodies,      \* descriptions
  Keys,        \* may the workflow use Linear?  subset of BOOLEAN
  Required,    \* values REQUIRE_STAGING_TEST takes.  subset of BOOLEAN
  RETRIES,     \* 3 in the script, a variable its tests set
  MaxAttempts  \* bounds the job attempts

(* FLOWS["three"], the flow the workflow names. *)
Order == <<"dev", "staging", "main">>
Flow == {"dev", "staging", "main"}
Base == Flow \cup {"elsewhere"}
Position(branch) == CHOOSE i \in 1..Len(Order) : Order[i] = branch

HeadBranch ==
  [name : Flow \cup {"nolinear", "nolinear/reason", "dependabot", "topic"},
   key : BOOLEAN,     \* does the name contain what looks like a Linear key?
   linked : BOOLEAN,  \* does Linear link the branch to an issue, by rules of its own?
   keyed : BOOLEAN,   \* is the first such key in the name, the only one looked up, an issue's?
   bot : BOOLEAN, same_repo : BOOLEAN]

ASSUME GuardAssumption ==
  Heads \subseteq HeadBranch /\ Keys \subseteq BOOLEAN /\ Required \subseteq BOOLEAN
  /\ RETRIES \in Nat \ {0}
  /\ MaxAttempts \in Nat /\ MaxAttempts >= 2  \* a first run fits

PullRequest == [base : Base, sha : Sha, body : Bodies]

VARIABLES
  head,      \* the head branch, which a pull request keeps
  api_key,
  required,   \* REQUIRE_STAGING_TEST as it is now
  switchedAt, \* the attempts before it was last switched
  pr,         \* the pull request as it is now
  attempts    \* job attempts, in the order they started

settings == <<head, api_key, required, switchedAt>>
vars == <<settings, pr, attempts>>

-----------------------------------------------------------------------------
(* The rules, as the script applies them to what it read. *)

Described(body) == \E i \in 1..Len(body) : body[i].kind # "blank"

(* A dependabot/ branch of another author is a branch like any other.      *)
CheckFirstHop(seen) ==
  CASE head.name = "dependabot" /\ head.bot -> "passed"
    [] head.name = "nolinear" -> "failed"
    [] head.name = "nolinear/reason" -> IF Described(seen.body) THEN "passed" ELSE "failed"
    [] OTHER -> IF head.key /\ api_key THEN "branch" ELSE "failed"

(* A fork can name its branch as it likes. *)
Impostor == head.name \in Flow /\ ~head.same_repo

BackMerge(base) == head.name \in Flow /\ Position(head.name) > Position(base)

Enforce(seen) ==
  IF seen.base \notin Flow THEN "passed"
  ELSE IF Impostor THEN "failed"
  ELSE IF BackMerge(seen.base) THEN "passed"
  ELSE IF Position(seen.base) = 1 THEN CheckFirstHop(seen)
  ELSE IF head.name = Order[Position(seen.base) - 1] THEN "passed" ELSE "failed"

StagingTest(seen, on) ==
  IF seen.base = "main" /\ head.name = "staging" /\ on
  THEN IF TestedCommit(seen.body) = seen.sha THEN "passed" ELSE "failed"
  ELSE "passed"

(* What follows the read: a verdict, or the question to ask Linear next.   *)
Decide(attempt, seen) ==
  IF attempt.job = "guard" THEN Enforce(seen) ELSE StagingTest(seen, attempt.required)

-----------------------------------------------------------------------------
(* What a job has to learn from a service.                                 *)
Question == {"read", "branch", "key"}

Jobs == IF head.name = "staging" THEN <<"guard", "staging-test">> ELSE <<"guard">>

(* External: a job reads the variable when it starts; staging-test is      *)
(* skipped when it is off.                                                 *)
Attempt(job, event) ==
  [job |-> job, event |-> event, required |-> required,
   step |-> IF job = "staging-test" /\ ~required THEN "skipped" ELSE "read",
   tries |-> 0, unanswered |-> {}]

(* External: opened, synchronize and edited each start a run, if the base  *)
(* is one the workflow names.                                              *)
Started(event) ==
  IF event.base \in Flow THEN [i \in 1..Len(Jobs) |-> Attempt(Jobs[i], event)] ELSE <<>>

Init ==
  /\ head \in Heads /\ api_key \in Keys /\ required \in Required /\ switchedAt = 0
  /\ pr \in PullRequest
  /\ head.name \in Flow => head.name # pr.base
  /\ attempts = Started(pr)

Room(n) == Len(attempts) + n <= MaxAttempts

(* External: the author pushes, edits the description or the title,        *)
(* retargets, or reopens.                                                  *)
Change ==
  /\ pr' \in PullRequest
  /\ \/ pr' = [pr EXCEPT !.sha = pr'.sha]
     \/ pr' = [pr EXCEPT !.body = pr'.body]
     \/ pr' = [pr EXCEPT !.base = pr'.base]
  /\ head.name \in Flow => head.name # pr'.base
  /\ Room(Len(Started(pr')))
  /\ attempts' = attempts \o Started(pr')
  /\ UNCHANGED settings

Running(i) == attempts[i].step \in Question

(* External: a rerun starts a job again, with the event of the first run.  *)
Rerun ==
  \E i \in DOMAIN attempts :
    /\ ~Running(i) /\ Room(1)
    /\ attempts' = Append(attempts, Attempt(attempts[i].job, attempts[i].event))
    /\ UNCHANGED <<settings, pr>>

(* External: an administrator sets the variable; no job starts. *)
Switch ==
  /\ required' \in Required \ {required}
  /\ switchedAt' = Len(attempts)
  /\ UNCHANGED <<head, api_key, pr, attempts>>

-----------------------------------------------------------------------------
(* One attempt at an answer, and what becomes of it: the next step, and    *)
(* the questions the job has given up.                                     *)
Leave(i, step, unanswered) ==
  /\ attempts' = [attempts EXCEPT ![i].step = step, ![i].tries = 0, ![i].unanswered = unanswered]
  /\ UNCHANGED <<settings, pr>>

Goto(i, step) == Leave(i, step, attempts[i].unanswered)

(* A variant that tries once more than it says. *)
TransientOnceMore(i) ==
  /\ attempts[i].tries < RETRIES
  /\ attempts' = [attempts EXCEPT ![i].tries = @ + 1]
  /\ UNCHANGED <<settings, pr>>

(* A variant that never counts. *)
TransientForever(i) ==
  /\ attempts' = [attempts EXCEPT ![i].tries = (@ + 1) % RETRIES]
  /\ UNCHANGED <<settings, pr>>

(* 429, a server error or no connection: again, up to RETRIES times.       *)
Transient(i) ==
  /\ attempts[i].tries + 1 < RETRIES
  /\ attempts' = [attempts EXCEPT ![i].tries = @ + 1]
  /\ UNCHANGED <<settings, pr>>

(* A variant without the second chance. *)
AfterFailureNothing(step) == "failed"

(* The last retry failed too, or the answer is an error of another kind.   *)
(* A failed branch query leaves the key query; no other failure passes.    *)
AfterFailure(step) == IF step = "branch" THEN "key" ELSE "failed"

GiveUp(i) ==
  Leave(i, AfterFailure(attempts[i].step), attempts[i].unanswered \cup {attempts[i].step})

(* A variant that takes the pull request from the event. *)
ReadPullRequestEvent(i) ==
  attempts[i].step = "read" /\ Goto(i, Decide(attempts[i], attempts[i].event))

(* The pull request as it is now, whatever the event said. *)
ReadPullRequest(i) == attempts[i].step = "read" /\ Goto(i, Decide(attempts[i], pr))

LinearBranch(i) ==
  attempts[i].step = "branch" /\ Goto(i, IF head.linked THEN "passed" ELSE "key")

(* Only the first key of the name is looked up: a branch that is linked by *)
(* another gets no second chance here.                                     *)
LinearKey(i) ==
  attempts[i].step = "key" /\ Goto(i, IF head.keyed THEN "passed" ELSE "failed")

Step(i) ==
  /\ Running(i)
  /\ Transient(i) \/ GiveUp(i) \/ ReadPullRequest(i) \/ LinearBranch(i) \/ LinearKey(i)

Next == Change \/ Rerun \/ Switch \/ \E i \in DOMAIN attempts : Step(i)

(* The runner runs every job it starts. *)
Fairness == \A i \in 1..MaxAttempts : WF_vars(i \in DOMAIN attempts /\ Step(i))

Spec == Init /\ [][Next]_vars /\ Fairness

-----------------------------------------------------------------------------
TypeOK ==
  /\ head \in Heads /\ api_key \in Keys /\ required \in Required /\ pr \in PullRequest
  /\ switchedAt \in 0..Len(attempts)
  /\ Len(attempts) <= MaxAttempts
  /\ \A i \in DOMAIN attempts :
       attempts[i] \in [job : {"guard", "staging-test"}, event : PullRequest,
                       required : Required,
                       step : Question \cup {"passed", "failed", "skipped"},
                       tries : 0..(RETRIES - 1), unanswered : SUBSET Question]

(* What the workflow's header promises of a merge into dev, staging, main. *)
NamesIssue ==
  head.name \in {"topic", "dependabot"} /\ head.key /\ (head.linked \/ head.keyed)

FirstHop ==
  \/ head.name = "nolinear/reason" /\ Described(pr.body)
  \/ head.name = "dependabot" /\ head.bot
  \/ NamesIssue

Allowed ==
  \/ pr.base = "dev" /\ head.name \notin Flow /\ FirstHop
  \/ /\ head.same_repo
     /\ <<head.name, pr.base>> \in {<<"dev", "staging">>, <<"staging", "main">>, <<"main", "staging">>,
                                    <<"main", "dev">>, <<"staging", "dev">>}
     /\ pr.base = "main" /\ required => TestedCommit(pr.body) = pr.sha

(* External: what decides is, of each job the ruleset requires, the        *)
(* attempt for the head commit that started last.  A skipped job passes.   *)
Of(job) == {i \in DOMAIN attempts : attempts[i].job = job /\ attempts[i].event.sha = pr.sha}

Decisive(job, i) == i \in Of(job) /\ \A k \in Of(job) : k <= i

Mergeable ==
  /\ pr.base \in Flow
  /\ \A j \in 1..Len(Jobs) : \E i \in Of(Jobs[j]) : Decisive(Jobs[j], i) /\ attempts[i].step \in {"passed", "skipped"}

(* The decisive attempts started under the variable as it is now. *)
UnderPresentSwitch ==
  \A j \in 1..Len(Jobs) : \A i \in Of(Jobs[j]) : Decisive(Jobs[j], i) => i > switchedAt

(* Whatever the author does while jobs run, and whatever is rerun: a pull  *)
(* request can be merged only if the rules hold of it as it is now.  A     *)
(* switch of the variable counts from the next start of the jobs, be it a  *)
(* rerun of one it had skipped.                                            *)
MergesByTheRules == Mergeable /\ UnderPresentSwitch => Allowed

(* The questions whose answer confirms that the branch names an issue.     *)
Confirming == {q \in {"branch", "key"} : IF q = "branch" THEN head.linked ELSE head.keyed}

(* The services told the job enough: the pull request, and of a branch     *)
(* that names an issue, one of the answers that say so.                    *)
Heard(attempt) ==
  "read" \notin attempt.unanswered /\ (NamesIssue => ~(Confirming \subseteq attempt.unanswered))

(* A pull request that follows the rules is not held up by the order of    *)
(* pushes, edits, switches and reruns, nor by one failed query to Linear   *)
(* when the other confirms it.  A branch that one query alone confirms is  *)
(* held up when that one fails, until a rerun: the second chance looks up  *)
(* the first key of the name and no other.                                 *)
GoodIsMergeable ==
  /\ pr.base \in Flow /\ Allowed /\ api_key /\ UnderPresentSwitch
  /\ \A j \in 1..Len(Jobs) : \E i \in Of(Jobs[j]) :
       Decisive(Jobs[j], i) /\ ~Running(i) /\ Heard(attempts[i])
  => Mergeable

(* Every attempt comes to an end, however often the services fail. *)
AttemptsEnd ==
  \A i \in 1..MaxAttempts :
    (i \in DOMAIN attempts /\ Running(i)) ~> (i \in DOMAIN attempts /\ ~Running(i))
=============================================================================
