------------------------------ MODULE SweepRun ------------------------------
(***************************************************************************)
(* dcap-differ sweep (main.rs sweep_cmd, sweep.rs run): an iteration draws *)
(* a base and a mutation of it from the seed and its own number, compares  *)
(* the two verifiers, appends a line to the report of the seed when they   *)
(* do not agree, and dumps the three files of the case when that is a      *)
(* finding.  Runs follow each other over the same output directories, and  *)
(* one can die at any step with the file it is writing torn.  What the     *)
(* verdict of a run is, whatever the files, is DifferRun.                  *)
(***************************************************************************)
EXTENDS Comparison, Sequences, FiniteSets

CONSTANTS
  Base,          \* case directories a sweep mutates
  DefaultBases,  \* prod-1 and base-debug-enclave
  Draw,          \* the first number of an iteration's generator, Draw[seed][iter]
  Recorded,      \* the sweep entries of known-dangerous.json: <<seed, iter>>
  Commands,      \* command lines
  Outcomes,      \* what the two verifiers make of each mutant
  Iter,          \* the iterations the commands below can draw
  Torn, Absent,  \* a file or line cut off, a file that was never written
  MaxDeaths      \* bound on the runs that die of something else than QVL

NoIter == -1
NoExit == -1
ExitAbort == 101

Mutants == [seed : DOMAIN Draw, iter : Iter, base : Base]
DumpFiles == {"quote", "collateral", "meta"}

ASSUME SweepAssumption ==
  /\ Iter \subseteq Nat
  /\ DefaultBases \in Base \X Base
  /\ Draw \in [DOMAIN Draw -> [Iter -> Nat]]
  /\ MaxDeaths \in Nat

VARIABLES
  outcome,        \* both verifiers are deterministic
  phase, cmd,     \* of the run
  pos,            \* the iteration it is at
  tally, reproduced, exit,
  reports,        \* the lines of sweep-<seed>.jsonl in an output directory
  dumps,          \* the files of case-<iter> in an output directory
  deaths

vars == <<outcome, phase, cmd, pos, tally, reproduced, exit, reports, dumps, deaths>>

-----------------------------------------------------------------------------
(* --only-iter replaces the range. *)
Indices(c) == IF c.only # NoIter THEN <<c.only>> ELSE [k \in 1..c.iters |-> k - 1]

(* By default four in five iterations mutate the first base. *)
BaseOf(c, i) ==
  LET n == Draw[c.seed][i]
  IN IF c.bases = <<>>
     THEN DefaultBases[IF n % 10 < 8 THEN 1 ELSE 2]
     ELSE c.bases[(n % Len(c.bases)) + 1]

(* The rest of the mutation is a function of the generator and the base.   *)
Mutant(c, i) == [seed |-> c.seed, iter |-> i, base |-> BaseOf(c, i)]

(* A variant that takes the entries of every seed. *)
AllowItersOfAnySeed(c) == IF c.allow THEN {r[2] : r \in Recorded} ELSE {}

(* Entries of the allowlist count for the runs of their seed. *)
AllowIters(c) == IF c.allow THEN {r[2] : r \in {s \in Recorded : s[1] = c.seed}} ELSE {}

BucketOf(m) == Classify(outcome[m].dcap, outcome[m].qvl)
IsAgreement(bucket) == bucket \in {"agreeAccept", "agreeReject"}
IsFinding(bucket) ==
  bucket \in {"standingMismatch", "dangerous", "unexplainedSafe", "dcapPanic"}

Current == Mutant(cmd, Indices(cmd)[pos])
Report == <<cmd.out, cmd.seed>>
CaseDir == <<cmd.out, Current.iter>>

(* The command a line says it can be reproduced with. *)
Repro(m) ==
  [seed |-> m.seed, iters |-> 1, bases |-> <<>>, only |-> m.iter,
   out |-> "default", allow |-> FALSE]

-----------------------------------------------------------------------------
NoCommand == [seed |-> "none", iters |-> 0, bases |-> <<>>, only |-> NoIter,
              out |-> "none", allow |-> FALSE]
(* clap reads --iters and --only-iter as u64, as serde does an entry's iter. *)
ASSUME CommandsAssumption ==
  /\ \A c \in Commands : /\ c # NoCommand /\ c.seed \in DOMAIN Draw
                          /\ c.iters \in Nat /\ c.only \in Nat \cup {NoIter}
                          /\ \A k \in DOMAIN Indices(c) : Indices(c)[k] \in Iter
  /\ \A r \in Recorded : r[2] \in Nat

Outs == {c.out : c \in Commands}
NoDump == [f \in DumpFiles |-> Absent]

Init ==
  /\ outcome \in Outcomes
  /\ phase = "idle" /\ cmd = NoCommand /\ pos = 1
  /\ tally = EmptyTally /\ reproduced = {} /\ exit = NoExit /\ deaths = 0
  /\ reports = [r \in Outs \X DOMAIN Draw |-> <<>>]
  /\ dumps = [d \in Outs \X Iter |-> NoDump]

Begin(c) ==
  /\ phase = "idle" /\ phase' = "compare" /\ cmd' = c /\ pos' = 1
  /\ tally' = EmptyTally /\ reproduced' = {} /\ exit' = NoExit
  /\ UNCHANGED <<outcome, dumps, deaths>>

(* A variant that opens the report for appending. *)
StartAppending(c) == Begin(c) /\ UNCHANGED reports

(* The report of the seed is created anew; the case directories stay. *)
Start(c) == Begin(c) /\ reports' = [reports EXCEPT ![<<c.out, c.seed>>] = <<>>]

Advance == phase' = "compare" /\ pos' = pos + 1
Write(file) == phase' = file /\ UNCHANGED pos

(* A recorded dangerous iteration is excused from the verdict, not from    *)
(* the report.                                                             *)
Compare ==
  LET bucket == BucketOf(Current)
      known == bucket = "dangerous" /\ Current.iter \in AllowIters(cmd)
  IN /\ phase = "compare" /\ pos <= Len(Indices(cmd))
     /\ outcome[Current].qvl.kind # "abort"
     /\ tally' = [tally EXCEPT ![IF known THEN "dangerousKnown" ELSE bucket] = @ + 1]
     /\ reproduced' = IF known THEN reproduced \cup {Current.iter} ELSE reproduced
     /\ IF IsAgreement(bucket) THEN Advance ELSE Write("line")
     /\ UNCHANGED <<outcome, cmd, exit, reports, dumps, deaths>>

WriteLine ==
  /\ phase = "line"
  /\ reports' = [reports EXCEPT ![Report] = Append(@, Current)]
  /\ IF IsFinding(BucketOf(Current)) THEN Write("quote") ELSE Advance
  /\ UNCHANGED <<outcome, cmd, tally, reproduced, exit, dumps, deaths>>

(* Writes a file of the case and goes on to what comes after it. *)
Dump(file, GoOn) ==
  /\ phase = file /\ GoOn
  /\ dumps' = [dumps EXCEPT ![CaseDir][file] = Current]
  /\ UNCHANGED <<outcome, cmd, tally, reproduced, exit, reports, deaths>>

DumpQuote == Dump("quote", Write("collateral"))
DumpCollateral == Dump("collateral", Write("meta"))
DumpMeta == Dump("meta", Advance)

-----------------------------------------------------------------------------
InWindow(c, i) == IF c.only # NoIter THEN i = c.only ELSE i < c.iters
Vanished == {i \in AllowIters(cmd) : InWindow(cmd, i)} \ reproduced

Finish ==
  /\ phase = "compare" /\ pos > Len(Indices(cmd))
  /\ tally' = IF Vanished = {} THEN tally ELSE [tally EXCEPT !["vanished"] = Cardinality(Vanished)]
  /\ exit' = ExitCode(tally') /\ phase' = "exited"
  /\ UNCHANGED <<outcome, cmd, pos, reproduced, reports, dumps, deaths>>

Dead == exit' = ExitAbort /\ phase' = "exited" /\ UNCHANGED <<outcome, cmd, pos, tally, reproduced>>

(* QVL takes the process down at a mutant. *)
Abort ==
  /\ phase = "compare" /\ pos <= Len(Indices(cmd))
  /\ outcome[Current].qvl.kind = "abort"
  /\ Dead /\ UNCHANGED <<reports, dumps, deaths>>

(* The process is killed, or a write fails: what it was writing is whole,  *)
(* untouched or torn.                                                      *)
Die ==
  /\ phase \notin {"idle", "exited"} /\ deaths < MaxDeaths /\ deaths' = deaths + 1
  /\ Dead
  /\ \/ UNCHANGED <<reports, dumps>>
     \/ /\ phase = "line" /\ UNCHANGED dumps
        /\ reports' = [reports EXCEPT ![Report] = Append(@, Torn)]
     \/ /\ phase \in DumpFiles /\ UNCHANGED reports
        /\ dumps' = [dumps EXCEPT ![CaseDir][phase] = Torn]

(* The caller has taken the exit code. *)
Reap ==
  /\ phase = "exited" /\ phase' = "idle"
  /\ UNCHANGED <<outcome, cmd, pos, tally, reproduced, exit, reports, dumps, deaths>>

Next ==
  \/ \E c \in Commands : Start(c)
  \/ Compare \/ WriteLine \/ DumpQuote \/ DumpCollateral \/ DumpMeta
  \/ Finish \/ Abort \/ Die \/ Reap

Spec == Init /\ [][Next]_vars

-----------------------------------------------------------------------------
Differs(m) == ~IsAgreement(BucketOf(m))
Nth(c, n) == Mutant(c, Indices(c)[n])
Whole(out, m) == dumps[<<out, m.iter>>] = [f \in DumpFiles |-> m]

(* Entry k of the report is the divergence of the at[k]-th mutant.         *)
Lists(report, c, n) ==
  \E at \in [DOMAIN report -> 1..n] :
    /\ \A j, k \in DOMAIN report : j < k => at[j] < at[k]
    /\ \A k \in DOMAIN report : report[k] = Nth(c, at[k])
    /\ \A i \in 1..n : Differs(Nth(c, i)) <=> \E k \in DOMAIN report : at[k] = i

(* What a run leaves on disk can be relied on, whatever earlier runs left  *)
(* there and wherever it died: its report has exactly the divergences of   *)
(* the iterations it has done, in their order, with at most one line more, *)
(* whole or torn, and every finding among them has a case directory that   *)
(* is whole and its own.  A run that gave its verdict reported them all.   *)
ReportKept ==
  cmd # NoCommand =>
    LET report == reports[Report]
    IN /\ \E n \in {Len(report) - 1, Len(report)} : Lists(SubSeq(report, 1, n), cmd, pos - 1)
       /\ exit \in {ExitClean, ExitReview, ExitFail} => Lists(report, cmd, Len(Indices(cmd)))
       /\ \A k \in 1..(pos - 1) :
            IsFinding(BucketOf(Nth(cmd, k))) => Whole(cmd.out, Nth(cmd, k))

(* FINDINGS.md: a sweep case is reproduced by the command line its report  *)
(* gives for it, that is, the command draws the very mutant again.         *)
ReproReplays ==
  \A r \in DOMAIN reports : \A k \in DOMAIN reports[r] :
    LET m == reports[r][k]
    IN m # Torn => Mutant(Repro(m), m.iter) = m

(* The verdict of a run is the one of DifferRun over the mutants it draws, *)
(* whatever it writes in between: the recorded iterations of its seed      *)
(* stand for the mutants they are of.  Only being killed is a step that a  *)
(* run does not have.                                                      *)
Invocation(c) ==
  [cases |-> [k \in 1..Len(Indices(c)) |-> Mutant(c, Indices(c)[k])],
   allow |-> {Mutant(c, r[2]) : r \in {s \in Recorded : c.allow /\ s[1] = c.seed}}]

Run == INSTANCE DifferRun WITH
  CaseId <- Mutants,
  Outcomes <- Outcomes,
  Invocations <- {Invocation(c) : c \in Commands},
  run <- CASE phase = "idle" -> "ready" [] phase = "exited" -> "exited" [] OTHER -> "comparing",
  cases <- IF cmd = NoCommand THEN <<>> ELSE Invocation(cmd).cases,
  allow <- IF cmd = NoCommand THEN {} ELSE Invocation(cmd).allow,
  pos <- IF phase \in {"line"} \cup DumpFiles THEN pos + 1 ELSE pos,
  reproduced <- {Mutant(cmd, i) : i \in reproduced}

Implements == Run!RunInit /\ [][Run!Next \/ Die]_<<outcome, Run!runVars>>
=============================================================================
