----------------------------- MODULE DifferTask -----------------------------
(***************************************************************************)
(* scripts/test-dcap-differ.mts: the task that runs the differ's legs one  *)
(* after the other - calibration, the fixture corpora, the replay of every *)
(* recorded iteration, the sweep - collects the legs that are not clean,   *)
(* and turns them into one exit code.  Each leg is an invocation of        *)
(* DifferRun, but calibration, which tries QVL on one case of the oracle   *)
(* corpus under several marshaling configurations.                         *)
(***************************************************************************)
EXTENDS DifferRun

CONSTANTS
  Suites,        \* what is on disk: corpora, sweep and known-dangerous.json
  Base,          \* fixtures/prod-1, the case calibration tries
  Cell,          \* marshaling configurations it tries it under
  DefaultMarshal \* DEFAULT_MARSHAL, the one every comparison uses

Ids(corpus) == {corpus[i] : i \in DOMAIN corpus}

(* A sweep is of its seed, and an iteration is neither a corpus case nor   *)
(* named like one.  prod-1 is in the oracle corpus and is not recorded.    *)
ASSUME SuitesAssumption ==
  \A s \in Suites :
    /\ Base \in Ids(s.oracle) /\ Base[2] \notin s.recordedCases
    /\ {s.oracle, s.committed, s.full, s.sweep, s.recordedSweeps} \subseteq Seq(CaseId)
    /\ \A id \in Ids(s.sweep) : id[1] = s.seed
    /\ \A id \in Ids(s.sweep) \cup Ids(s.recordedSweeps) :
         id[2] \notin s.recordedCases /\ id \notin Ids(s.oracle) \cup Ids(s.committed) \cup Ids(s.full)

ASSUME CellsAssumption == DefaultMarshal \in Cell

VARIABLES
  suite,               \* what the task finds on disk
  calibration,         \* what QVL makes of Base under each cell but the default
  task,                \* phase of the task
  step,                \* its argument
  legs, deviations,    \* legs left, legs that were not clean
  taskExit

taskVars == <<suite, calibration, task, step, legs, deviations, taskExit>>
vars == <<outcome, runVars, taskVars>>

-----------------------------------------------------------------------------
(* known-dangerous.json names a corpus case without its corpus; a sweep    *)
(* entry counts for the runs of its seed.                                  *)
CorpusRun(corpus) ==
  [cases |-> corpus, allow |-> {id \in CaseId : id[2] \in suite.recordedCases}]

SweepRun(seed, ids) ==
  [cases |-> ids,
   allow |-> {id \in CaseId : id[1] = seed /\ \E i \in DOMAIN suite.recordedSweeps :
                                                suite.recordedSweeps[i] = id}]

RunLeg(name, invocation) == [name |-> name, kind |-> "run", invocation |-> invocation]
CalibrateLeg == [name |-> "calibrate", kind |-> "calibrate"]

FixtureLegs ==
  <<RunLeg("oracle corpus", CorpusRun(suite.oracle)),
    RunLeg("corpus-committed", CorpusRun(suite.committed))>>
  \o (IF suite.fullPresent THEN <<RunLeg("full corpus", CorpusRun(suite.full))>> ELSE <<>>)

ReplayLegs ==
  [i \in DOMAIN suite.recordedSweeps |->
     RunLeg("replay", SweepRun(suite.recordedSweeps[i][1], <<suite.recordedSweeps[i]>>))]

(* A variant that replays nothing. *)
LegsWithoutReplay(s) ==
  (IF s \in {"all", "calibrate"} THEN <<CalibrateLeg>> ELSE <<>>)
  \o (IF s \in {"all", "fixtures"} THEN FixtureLegs ELSE <<>>)
  \o (IF s \in {"all", "sweep"} THEN <<RunLeg("sweep", SweepRun(suite.seed, suite.sweep))>> ELSE <<>>)

LegsOf(s) ==
  (IF s \in {"all", "calibrate"} THEN <<CalibrateLeg>> ELSE <<>>)
  \o (IF s \in {"all", "fixtures"} THEN FixtureLegs ELSE <<>>)
  \o (IF s \in {"all", "replay"} THEN ReplayLegs ELSE <<>>)
  \o (IF s \in {"all", "sweep"} THEN <<RunLeg("sweep", SweepRun(suite.seed, suite.sweep))>> ELSE <<>>)

(* Under the default, calibration makes the call a comparison makes.       *)
Calibrated(cell) == IF cell = DefaultMarshal THEN Qvl(Base) ELSE calibration[cell]

(* The expiration status is not looked at. *)
Yields(qvl) == qvl.kind = "verdict" /\ qvl.result = "CONFIG_AND_SW_HARDENING_NEEDED"

(* calibrate_cmd: it dies of collateral that does not parse, for which a   *)
(* comparison does not run QVL, and with QVL; else any cell will do, and   *)
(* the cell found is not used.                                             *)
CalibrateExit ==
  IF Qvl(Base).kind = "notRun" \/ \E c \in Cell : Calibrated(c).kind = "abort" THEN ExitAbort
  ELSE IF \E c \in Cell : Yields(Calibrated(c)) THEN ExitClean
  ELSE 1

-----------------------------------------------------------------------------
Init ==
  /\ RunInit
  /\ suite \in Suites /\ calibration \in [Cell \ {DefaultMarshal} -> QvlOutcome]
  /\ step \in {"all", "calibrate", "fixtures", "replay", "sweep"}
  /\ task = "build" /\ legs = <<>> /\ deviations = {} /\ taskExit = NoExit

Build ==
  /\ task = "build" /\ task' = "legs" /\ legs' = LegsOf(step)
  /\ UNCHANGED <<outcome, runVars, suite, calibration, step, deviations, taskExit>>

(* Without a binary the task ends with cargo's exit code. *)
BuildFails ==
  /\ task = "build" /\ task' = "done" /\ taskExit' = ExitAbort
  /\ UNCHANGED <<outcome, runVars, suite, calibration, step, legs, deviations>>

EndOfLeg(code) ==
  /\ deviations' = IF code = ExitClean THEN deviations ELSE deviations \cup {Head(legs).name}
  /\ legs' = Tail(legs)
  /\ UNCHANGED <<suite, calibration, task, step, taskExit>>

Calibrate ==
  /\ task = "legs" /\ legs # <<>> /\ Head(legs).kind = "calibrate"
  /\ EndOfLeg(CalibrateExit)
  /\ UNCHANGED <<outcome, runVars>>

StartLeg ==
  /\ task = "legs" /\ legs # <<>> /\ Head(legs).kind = "run"
  /\ Start(Head(legs).invocation)
  /\ UNCHANGED taskVars

InLeg == RunStep /\ UNCHANGED taskVars

EndLeg == Reap /\ EndOfLeg(exit)

End ==
  /\ task = "legs" /\ legs = <<>>
  /\ task' = "done" /\ taskExit' = IF deviations = {} THEN 0 ELSE 1
  /\ UNCHANGED <<outcome, runVars, suite, calibration, step, legs, deviations>>

TaskNext == Build \/ BuildFails \/ Calibrate \/ StartLeg \/ InLeg \/ EndLeg \/ End

TaskSpec == Init /\ [][TaskNext]_vars

-----------------------------------------------------------------------------
Corpora == Ids(suite.oracle) \cup Ids(suite.committed)
           \cup (IF suite.fullPresent THEN Ids(suite.full) ELSE {})

Recorded(id) == id[2] \in suite.recordedCases \/ id \in Ids(suite.recordedSweeps)

Looked == Corpora \cup Ids(suite.sweep) \cup Ids(suite.recordedSweeps)

Succeeded == task = "done" /\ step = "all" /\ taskExit = 0

(* When the whole task succeeds, every case it looked at was compared to   *)
(* the end, none is a defect, and the cases that diverge are exactly the   *)
(* recorded ones: every recorded iteration still reproduces, although the  *)
(* sweep itself may not reach it, and every recorded corpus case found     *)
(* still does.                                                             *)
TaskHonest ==
  Succeeded => \A id \in Looked :
    Qvl(id).kind # "abort" /\ ~Defect(id) /\ (Divergent(id) <=> Recorded(id))

(* README.md: the task exits 0 only when the recorded findings still       *)
(* reproduce.  A recorded case that is in no corpus is never looked for.   *)
RecordedReproduce ==
  Succeeded => \A name \in suite.recordedCases :
    \E id \in Corpora : id[2] = name /\ Divergent(id)

Trusted == [kind |-> "verdict", expired |-> FALSE, result |-> "CONFIG_AND_SW_HARDENING_NEEDED"]

(* pipeline.rs: the marshaling every comparison uses was chosen by         *)
(* calibration, and yields the expected result without an expiration.      *)
CalibrationTrusted ==
  task = "done" /\ step = "calibrate" /\ taskExit = 0 => Qvl(Base) = Trusted

(* What calibrating does not establish, the whole task does: as long as    *)
(* dcap-verify gives prod-1 its recorded standing, a task that succeeds    *)
(* has seen QVL give it the same, unexpired, under the default marshaling. *)
DefaultTrusted ==
  /\ Succeeded
  /\ Dcap(Base) = [kind |-> "accept", standing |-> "ConfigurationAndSWHardeningNeeded"]
  => Qvl(Base) = Trusted
=============================================================================
