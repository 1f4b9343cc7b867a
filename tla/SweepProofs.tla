---------------------------- MODULE SweepProofs ----------------------------
(***************************************************************************)
(* A sweep is a run of the differ over the mutants it draws, whatever it   *)
(* writes in between, for all command lines, recorded iterations and       *)
(* verifiers; being killed is the only step it has beside.  And what it    *)
(* has written by then can be relied on: its report lists the divergences  *)
(* in their order, and the findings have whole directories.                *)
(***************************************************************************)
EXTENDS SweepRun, FiniteSetTheorems, SequenceTheorems, TLAPS

Writing == {"line"} \cup DumpFiles

(* A run has a command, and writes only for a mutant it compared. *)
RunInv ==
  /\ phase \in {"idle", "compare", "exited"} \cup Writing
  /\ cmd \in Commands \cup {NoCommand}
  /\ phase # "idle" => cmd \in Commands
  /\ pos \in Nat \ {0}

-----------------------------------------------------------------------------
(* The iterations of a command are numbers, and counted ones. *)
LEMMA IndicesType ==
  ASSUME NEW c \in Commands
  PROVE  /\ Len(Indices(c)) \in Nat /\ DOMAIN Indices(c) = 1..Len(Indices(c))
         /\ \A n \in 1..Len(Indices(c)) : Indices(c)[n] \in Nat
         /\ \A i \in Nat : InWindow(c, i) <=> \E n \in 1..Len(Indices(c)) : i = Indices(c)[n]
<1>1. c.iters \in Nat /\ c.only \in Nat \cup {NoIter} /\ NoIter \notin Nat
  BY CommandsAssumption DEF NoIter
<1>2. CASE c.only # NoIter
  <2>1. Indices(c) = <<c.only>> /\ c.only \in Nat
    BY <1>1, <1>2 DEF Indices
  <2>2. Len(Indices(c)) = 1 /\ Indices(c)[1] = c.only /\ DOMAIN Indices(c) = 1..1
    BY <2>1
  <2> QED
    BY <1>2, <2>1, <2>2 DEF InWindow
<1>3. CASE c.only = NoIter
  <2>1. Indices(c) = [k \in 1..c.iters |-> k - 1]
    BY <1>3 DEF Indices
  <2>2. Len(Indices(c)) = c.iters /\ \A n \in 1..c.iters : Indices(c)[n] = n - 1
    BY <1>1, <2>1
  <2>3. \A i \in Nat : i < c.iters => i + 1 \in 1..c.iters /\ Indices(c)[i + 1] = i
    BY <1>1, <2>2
  <2>4. \A i \in Nat : InWindow(c, i) <=> i < c.iters
    BY <1>3 DEF InWindow
  <2> QED
    BY <1>1, <2>1, <2>2, <2>3, <2>4
<1> QED
  BY <1>2, <1>3

(* A run's cases are the mutants of its iterations, in their order. *)
LEMMA CasesOf ==
  ASSUME NEW c \in Commands
  PROVE  /\ Len(Invocation(c).cases) = Len(Indices(c))
         /\ DOMAIN Invocation(c).cases = 1..Len(Indices(c))
         /\ \A n \in 1..Len(Indices(c)) : Invocation(c).cases[n] = Mutant(c, Indices(c)[n])
<1>1. Invocation(c).cases = [n \in 1..Len(Indices(c)) |-> Mutant(c, Indices(c)[n])]
  BY DEF Invocation
<1> QED
  BY <1>1, IndicesType

(* Different iterations are different mutants. *)
LEMMA MutantInjective ==
  ASSUME NEW c, NEW i, NEW j, Mutant(c, i) = Mutant(c, j)
  PROVE  i = j
  BY DEF Mutant

(* The recorded mutants are those of the recorded iterations. *)
LEMMA AllowOf ==
  ASSUME NEW c
  PROVE  /\ Invocation(c).allow = {Mutant(c, i) : i \in AllowIters(c)}
         /\ \A i : Mutant(c, i) \in Invocation(c).allow <=> i \in AllowIters(c)
<1>1. Invocation(c).allow = {Mutant(c, i) : i \in AllowIters(c)}
  BY DEF Invocation, AllowIters
<1> QED
  BY <1>1, MutantInjective

(* Both specifications classify alike. *)
LEMMA SameBuckets ==
  ASSUME NEW m
  PROVE  Run!BucketOf(m) = BucketOf(m) /\ Run!Qvl(m) = outcome[m].qvl
  BY DEF Run!BucketOf, Run!Qvl, Run!Dcap, Run!Classify, Run!QvlAccepts, Run!Expired,
         Run!StandingMatches, Run!ResultOf, Run!IsKnownDelta, Run!StalenessCategories,
         BucketOf, Classify, QvlAccepts, Expired,
         StandingMatches, ResultOf, IsKnownDelta, StalenessCategories

(* As many iterations as mutants have vanished. *)
LEMMA VanishedAlike ==
  ASSUME RunInv, cmd \in Commands,
         NEW gone, gone = (Invocation(cmd).allow \cap
                             {Invocation(cmd).cases[n] : n \in DOMAIN Invocation(cmd).cases})
                            \ {Mutant(cmd, i) : i \in reproduced}
  PROVE  Cardinality(gone) = Cardinality(Vanished) /\ (gone = {} <=> Vanished = {})
<1>1. AllowIters(cmd) \subseteq Nat
  BY CommandsAssumption DEF AllowIters
<1>2. gone = {Mutant(cmd, i) : i \in Vanished}
  <2>1. \A m : m \in {Invocation(cmd).cases[n] : n \in DOMAIN Invocation(cmd).cases}
                <=> \E n \in 1..Len(Indices(cmd)) : m = Mutant(cmd, Indices(cmd)[n])
    BY CasesOf
  <2>2. \A i \in Nat : InWindow(cmd, i) <=>
                         \E n \in 1..Len(Indices(cmd)) : i = Indices(cmd)[n]
    BY IndicesType
  <2>3. \A i \in Nat : InWindow(cmd, i) <=>
          Mutant(cmd, i) \in {Invocation(cmd).cases[n] : n \in DOMAIN Invocation(cmd).cases}
    <3> DEFINE All == {Invocation(cmd).cases[n] : n \in DOMAIN Invocation(cmd).cases}
    <3>1. \A m : m \in All <=> \E n \in 1..Len(Indices(cmd)) : m = Mutant(cmd, Indices(cmd)[n])
      BY <2>1
    <3>2. \A i, j : Mutant(cmd, i) = Mutant(cmd, j) => i = j
      BY MutantInjective
    <3> HIDE DEF All
    <3>3. \A i \in Nat : InWindow(cmd, i) <=> Mutant(cmd, i) \in All
      BY <2>2, <3>1, <3>2
    <3> QED
      BY <3>3 DEF All
  <2>4. \A i : Mutant(cmd, i) \in {Mutant(cmd, j) : j \in reproduced} <=> i \in reproduced
    BY MutantInjective
  <2> HIDE DEF Mutant
  <2>5. \A i : Mutant(cmd, i) \in gone <=> i \in Vanished
    <3> SUFFICES ASSUME NEW i PROVE Mutant(cmd, i) \in gone <=> i \in Vanished
      OBVIOUS
    <3>1. Mutant(cmd, i) \in Invocation(cmd).allow <=> i \in AllowIters(cmd)
      BY AllowOf
    <3>2. i \in Vanished <=> i \in AllowIters(cmd) /\ InWindow(cmd, i) /\ i \notin reproduced
      BY DEF Vanished
    <3>3. i \in AllowIters(cmd) => i \in Nat
      BY <1>1
    <3> QED
      BY <2>3, <2>4, <3>1, <3>2, <3>3
  <2>6. \A m \in gone : \E i \in AllowIters(cmd) : m = Mutant(cmd, i)
    BY AllowOf
  <2>7. \A m : m \in gone <=> \E i \in Vanished : m = Mutant(cmd, i)
    BY <2>5, <2>6
  <2> QED
    BY <2>7
<1>3. IsFiniteSet(Vanished)
  <2> DEFINE f == [n \in 1..Len(Indices(cmd)) |-> Indices(cmd)[n]]
             all == {Indices(cmd)[n] : n \in 1..Len(Indices(cmd))}
  <2>1. f \in Surjection(1..Len(Indices(cmd)), all)
    BY DEF Surjection
  <2>2. IsFiniteSet(1..Len(Indices(cmd)))
    BY IndicesType, FS_Interval
  <2>3. IsFiniteSet(all)
    BY <2>1, <2>2, FS_Surjection
  <2>4. Vanished \subseteq all
    BY <1>1, IndicesType DEF Vanished
  <2> QED
    BY <2>3, <2>4, FS_Subset
<1>4. ExistsBijection(Vanished, gone)
  <2> DEFINE f == [i \in Vanished |-> Mutant(cmd, i)]
  <2>1. f \in [Vanished -> gone] /\ \A i \in Vanished : f[i] = Mutant(cmd, i)
    BY <1>2
  <2>2. \A i, j \in Vanished : f[i] = f[j] => i = j
    BY <2>1, MutantInjective
  <2>3. \A m \in gone : \E i \in Vanished : f[i] = m
    BY <1>2, <2>1
  <2> HIDE DEF f
  <2>4. f \in Bijection(Vanished, gone)
    BY <2>1, <2>2, <2>3 DEF Bijection, Injection, Surjection, IsInjective
  <2> QED
    BY <2>4 DEF ExistsBijection
<1> QED
  BY <1>2, <1>3, <1>4, FS_Bijection

-----------------------------------------------------------------------------
(* The two specifications start alike. *)
LEMMA SweepStart == Init => RunInv /\ Run!RunInit
<1> SUFFICES ASSUME Init PROVE RunInv /\ Run!RunInit
  OBVIOUS
<1>1. RunInv
  BY DEF Init, RunInv
<1>2. Run!EmptyTally = EmptyTally
  BY DEF Run!EmptyTally, EmptyTally, Run!Counter, Counter, Run!Bucket, Bucket
<1>3. {Mutant(cmd, i) : i \in reproduced} = {}
  BY DEF Init
<1>4. phase = "idle" /\ cmd = NoCommand /\ pos = 1 /\ exit = NoExit /\ tally = EmptyTally
  BY DEF Init
<1>5. phase \notin {"line"} \cup DumpFiles
  BY <1>4 DEF DumpFiles
<1> QED
  BY <1>1, <1>2, <1>3, <1>4, <1>5 DEF Init, Run!RunInit, Run!NoExit, NoExit

(* A run keeps its command. *)
LEMMA InvStep == RunInv /\ [Next]_vars => RunInv'
<1> SUFFICES ASSUME RunInv, [Next]_vars PROVE RunInv'
  OBVIOUS
<1> USE DEF RunInv, Writing, DumpFiles
<1>1. CASE \E c \in Commands : Start(c)
  BY <1>1 DEF Start, Begin
<1>2. CASE Compare
  BY <1>2 DEF Compare, Advance, Write
<1>3. CASE WriteLine
  BY <1>3 DEF WriteLine, Advance, Write
<1>4. CASE DumpQuote \/ DumpCollateral \/ DumpMeta
  BY <1>4 DEF DumpQuote, DumpCollateral, DumpMeta, Dump, Advance, Write
<1>5. CASE Finish
  BY <1>5 DEF Finish
<1>6. CASE Abort \/ Die
  BY <1>6 DEF Abort, Die, Dead
<1>7. CASE Reap
  BY <1>7 DEF Reap
<1>8. CASE UNCHANGED vars
  BY <1>8 DEF vars
<1> QED
  BY <1>1, <1>2, <1>3, <1>4, <1>5, <1>6, <1>7, <1>8 DEF Next

-----------------------------------------------------------------------------
(* A sweep is started as a run over its mutants is. *)
LEMMA StartsARun ==
  ASSUME NEW c \in Commands, RunInv, Start(c)
  PROVE  Run!Start(Invocation(c))
<1>1. phase = "idle" /\ phase' = "compare" /\ cmd' = c /\ pos' = 1 /\ tally' = EmptyTally
      /\ reproduced' = {} /\ exit' = NoExit /\ UNCHANGED outcome
  BY DEF Start, Begin
<1>2. Run!EmptyTally = EmptyTally
  BY DEF Run!EmptyTally, EmptyTally, Run!Counter, Counter, Run!Bucket, Bucket
<1>3. c # NoCommand
  BY CommandsAssumption
<1>4. {Mutant(cmd', i) : i \in reproduced'} = {}
  BY <1>1
<1>5. phase' \notin {"line"} \cup DumpFiles
  BY <1>1 DEF DumpFiles
<1> QED
  BY <1>1, <1>2, <1>3, <1>4, <1>5 DEF Run!Start, Run!NoExit, NoExit

(* Where a run is comparing, it is at the same mutant. *)
LEMMA AtTheSameMutant ==
  ASSUME RunInv, phase = "compare", pos <= Len(Indices(cmd))
  PROVE  /\ cmd \in Commands /\ cmd # NoCommand
         /\ pos <= Len(Invocation(cmd).cases) /\ Invocation(cmd).cases[pos] = Current
<1>1. cmd \in Commands /\ cmd # NoCommand /\ pos \in Nat \ {0}
  BY CommandsAssumption DEF RunInv
<1>2. Len(Indices(cmd)) \in Nat /\ Len(Invocation(cmd).cases) = Len(Indices(cmd))
      /\ \A n \in 1..Len(Indices(cmd)) : Invocation(cmd).cases[n] = Mutant(cmd, Indices(cmd)[n])
  BY <1>1, IndicesType, CasesOf
<1>3. pos \in 1..Len(Indices(cmd))
  BY <1>1, <1>2
<1> QED
  BY <1>1, <1>2, <1>3 DEF Current

(* An iteration compared is a case compared, even before it is reported. *)
LEMMA ComparesACase ==
  ASSUME RunInv, Compare
  PROVE  Run!CompareCase
<1> DEFINE known == BucketOf(Current) = "dangerous" /\ Current.iter \in AllowIters(cmd)
<1>1. /\ phase = "compare" /\ pos <= Len(Indices(cmd)) /\ outcome[Current].qvl.kind # "abort"
      /\ tally' = [tally EXCEPT ![IF known THEN "dangerousKnown" ELSE BucketOf(Current)] = @ + 1]
      /\ reproduced' = (IF known THEN reproduced \cup {Current.iter} ELSE reproduced)
      /\ UNCHANGED <<outcome, cmd, exit>>
  BY DEF Compare
<1>2. /\ cmd \in Commands /\ cmd # NoCommand
      /\ pos <= Len(Invocation(cmd).cases) /\ Invocation(cmd).cases[pos] = Current
  BY <1>1, AtTheSameMutant
<1>3. phase' \in {"compare", "line"} /\ pos' = (IF phase' = "compare" THEN pos + 1 ELSE pos)
  BY DEF Compare, Advance, Write
<1>4. Current = Mutant(cmd, Current.iter)
  BY DEF Current, Mutant
<1>5. known <=> BucketOf(Current) = "dangerous" /\ Current \in Invocation(cmd).allow
  BY <1>4, AllowOf
<1>6. {Mutant(cmd', i) : i \in reproduced'}
        = IF known THEN {Mutant(cmd, i) : i \in reproduced} \cup {Current}
          ELSE {Mutant(cmd, i) : i \in reproduced}
  <2>1. cmd' = cmd
    BY <1>1
  <2>2. {Mutant(cmd, i) : i \in reproduced \cup {Current.iter}}
          = {Mutant(cmd, i) : i \in reproduced} \cup {Current}
    BY <1>4
  <2> HIDE DEF known
  <2> QED
    BY <1>1, <2>1, <2>2
<1>7. (IF phase' \in {"line"} \cup DumpFiles THEN pos' + 1 ELSE pos') = pos + 1
  BY <1>3 DEF DumpFiles
<1>8. /\ "compare" \notin {"line"} \cup DumpFiles /\ phase' \notin {"idle", "exited"}
      /\ phase \notin {"idle", "exited"} \cup {"line"} \cup DumpFiles
  BY <1>1, <1>3 DEF DumpFiles
<1>9. Run!BucketOf(Current) = BucketOf(Current) /\ Run!Qvl(Current) = outcome[Current].qvl
  BY SameBuckets
<1> HIDE DEF known
<1> QED
  BY <1>1, <1>2, <1>5, <1>6, <1>7, <1>8, <1>9 DEF Run!CompareCase

(* A run QVL takes down is aborted. *)
LEMMA AbortsTheRun ==
  ASSUME RunInv, Abort
  PROVE  Run!Abort
<1>1. /\ phase = "compare" /\ pos <= Len(Indices(cmd)) /\ outcome[Current].qvl.kind = "abort"
      /\ exit' = ExitAbort /\ phase' = "exited"
      /\ UNCHANGED <<outcome, cmd, pos, tally, reproduced>>
  BY DEF Abort, Dead
<1>2. /\ cmd \in Commands /\ cmd # NoCommand
      /\ pos <= Len(Invocation(cmd).cases) /\ Invocation(cmd).cases[pos] = Current
  BY <1>1, AtTheSameMutant
<1>3. phase \notin {"line"} \cup DumpFiles /\ phase' \notin {"line"} \cup DumpFiles
  BY <1>1 DEF DumpFiles
<1>4. Run!Qvl(Current) = outcome[Current].qvl
  BY SameBuckets
<1>5. {Mutant(cmd', i) : i \in reproduced'} = {Mutant(cmd, i) : i \in reproduced}
  BY <1>1
<1> QED
  BY <1>1, <1>2, <1>3, <1>4, <1>5 DEF Run!Abort, Run!ExitAbort, ExitAbort

(* The verdict of a sweep is the verdict of the run. *)
LEMMA FinishesTheRun ==
  ASSUME RunInv, Finish
  PROVE  Run!Finish
<1>1. /\ phase = "compare" /\ pos > Len(Indices(cmd))
      /\ tally' = (IF Vanished = {} THEN tally
                   ELSE [tally EXCEPT !["vanished"] = Cardinality(Vanished)])
      /\ exit' = ExitCode(tally') /\ phase' = "exited"
      /\ UNCHANGED <<outcome, cmd, pos, reproduced>>
  BY DEF Finish
<1>2. cmd \in Commands /\ cmd # NoCommand
  BY <1>1, CommandsAssumption DEF RunInv
<1>3. Len(Invocation(cmd).cases) = Len(Indices(cmd))
  BY <1>2, CasesOf
<1>4. phase \notin {"line"} \cup DumpFiles /\ phase' \notin {"line"} \cup DumpFiles
  BY <1>1 DEF DumpFiles
<1>5. Cardinality(Run!Vanished) = Cardinality(Vanished) /\ (Run!Vanished = {} <=> Vanished = {})
  BY <1>2, VanishedAlike DEF Run!Vanished, Run!InScope
<1>6. Run!ExitCode(tally') = ExitCode(tally')
  BY DEF Run!ExitCode, ExitCode, Run!ExitFail, ExitFail, Run!ExitReview, ExitReview,
         Run!ExitClean, ExitClean
<1>7. {Mutant(cmd', i) : i \in reproduced'} = {Mutant(cmd, i) : i \in reproduced}
  BY <1>1
<1>8. Run!Cardinality(Run!Vanished) = Cardinality(Run!Vanished)
  BY DEF Run!Cardinality, Cardinality
<1> QED
  BY <1>1, <1>2, <1>3, <1>4, <1>5, <1>6, <1>7, <1>8 DEF Run!Finish

(* Reporting a mutant is no step of the run. *)
LEMMA ReportingStutters ==
  ASSUME RunInv, WriteLine \/ DumpQuote \/ DumpCollateral \/ DumpMeta
  PROVE  UNCHANGED <<outcome, Run!runVars>>
<1>1. /\ phase \in Writing /\ phase' \in Writing \cup {"compare"}
      /\ pos' = (IF phase' = "compare" THEN pos + 1 ELSE pos)
      /\ UNCHANGED <<outcome, cmd, tally, reproduced, exit>>
  BY DEF WriteLine, DumpQuote, DumpCollateral, DumpMeta, Dump, Advance, Write, Writing, DumpFiles
<1>2. "compare" \notin {"line"} \cup DumpFiles
  BY DEF DumpFiles
<1>3. phase \notin {"idle", "exited"} /\ phase' \notin {"idle", "exited"}
  BY <1>1 DEF Writing, DumpFiles
<1>4. (IF phase' \in {"line"} \cup DumpFiles THEN pos' + 1 ELSE pos')
        = (IF phase \in {"line"} \cup DumpFiles THEN pos + 1 ELSE pos)
  BY <1>1, <1>2 DEF Writing
<1> QED
  BY <1>1, <1>3, <1>4 DEF Run!runVars

(* A step of a sweep is a step of the run, or its death. *)
LEMMA SweepStep ==
  ASSUME RunInv, [Next]_vars
  PROVE  [Run!Next \/ Die]_<<outcome, Run!runVars>>
<1>1. CASE \E c \in Commands : Start(c)
  BY <1>1, StartsARun DEF Run!Next
<1>2. CASE Compare
  BY <1>2, ComparesACase DEF Run!Next, Run!RunStep
<1>3. CASE WriteLine \/ DumpQuote \/ DumpCollateral \/ DumpMeta
  BY <1>3, ReportingStutters
<1>4. CASE Finish
  BY <1>4, FinishesTheRun DEF Run!Next, Run!RunStep
<1>5. CASE Abort
  BY <1>5, AbortsTheRun DEF Run!Next, Run!RunStep
<1>6. CASE Die
  BY <1>6
<1>7. CASE Reap
  <2>1. phase = "exited" /\ phase' = "idle"
        /\ UNCHANGED <<outcome, cmd, pos, tally, reproduced, exit>>
    BY <1>7 DEF Reap
  <2>2. phase \notin {"line"} \cup DumpFiles /\ phase' \notin {"line"} \cup DumpFiles
    BY <2>1 DEF DumpFiles
  <2>3. Run!Reap
    BY <2>1, <2>2 DEF Run!Reap
  <2> QED
    BY <2>3 DEF Run!Next
<1>8. CASE UNCHANGED vars
  BY <1>8 DEF vars, Run!runVars
<1> QED
  BY <1>1, <1>2, <1>3, <1>4, <1>5, <1>6, <1>7, <1>8 DEF Next

(* dcap-differ sweep gives the verdict of DifferRun over the mutants it    *)
(* draws: the report and the case directories it writes in between change  *)
(* nothing of it, and the recorded iterations of its seed excuse exactly   *)
(* the mutants they are of, for every draw, command line and outcome.      *)
THEOREM SweepIsARun == Spec => Implements
<1>1. Init => RunInv /\ Run!RunInit
  BY SweepStart
<1>2. RunInv /\ [Next]_vars => RunInv'
  BY InvStep
<1>3. RunInv /\ [Next]_vars => [Run!Next \/ Die]_<<outcome, Run!runVars>>
  BY SweepStep
<1> QED
  BY <1>1, <1>2, <1>3, PTL DEF Spec, Implements

(* A sweep that nobody kills is a run of DifferRun and nothing else. *)
THEOREM UnkilledSweepIsARun == Spec /\ [](deaths = 0) => Run!Spec
<1>1. Init => RunInv /\ Run!RunInit
  BY SweepStart
<1>2. RunInv /\ [Next]_vars => RunInv'
  BY InvStep
<1>3. deaths = 0 /\ (deaths = 0)' => ~Die
  BY DEF Die
<1>4. /\ RunInv /\ [Next]_vars /\ deaths = 0 /\ (deaths = 0)'
      => [Run!Next]_<<outcome, Run!runVars>>
  <2> SUFFICES ASSUME RunInv, [Next]_vars, ~Die
               PROVE  [Run!Next]_<<outcome, Run!runVars>>
    BY <1>3
  <2>1. [Run!Next \/ Die]_<<outcome, Run!runVars>>
    BY SweepStep
  <2> QED
    BY <2>1
<1> QED
  BY <1>1, <1>2, <1>4, PTL DEF Spec, Run!Spec

-----------------------------------------------------------------------------
(* What a sweep has on disk, with the verifiers' outcomes as a parameter,  *)
(* for a step changes none of them.                                        *)

BucketIn(out, m) == Classify(out[m].dcap, out[m].qvl)

Listed(out, report, c, n) ==
  \E at \in [DOMAIN report -> 1..n] :
    /\ \A j, k \in DOMAIN report : j < k => at[j] < at[k]
    /\ \A k \in DOMAIN report : report[k] = Nth(c, at[k])
    /\ \A i \in 1..n : ~IsAgreement(BucketIn(out, Nth(c, i))) <=> \E k \in DOMAIN report : at[k] = i

Dumped(out, files, c, n) ==
  \A k \in 1..n :
    IsFinding(BucketIn(out, Nth(c, k))) =>
      files[<<c.out, Nth(c, k).iter>>] = [f \in DumpFiles |-> Nth(c, k)]

LEMMA ListedIsLists ==
  ASSUME NEW report, NEW c, NEW n
  PROVE  Lists(report, c, n) <=> Listed(outcome, report, c, n)
  BY DEF Lists, Listed, Differs, BucketOf, BucketIn

(* Nothing is listed of no mutants. *)
LEMMA NothingListed == \A out, c : Listed(out, <<>>, c, 0)
<1> SUFFICES ASSUME NEW out, NEW c PROVE Listed(out, <<>>, c, 0)
  OBVIOUS
<1> DEFINE at == [k \in {} |-> 1]
<1>1. DOMAIN <<>> = {} /\ at \in [{} -> 1..0] /\ 1..0 = {}
  OBVIOUS
<1> QED
  BY <1>1 DEF Listed

(* A mutant on which the verifiers agree adds no line. *)
LEMMA AgreementListed ==
  ASSUME NEW out, NEW S, NEW r \in Seq(S), NEW c, NEW n \in Nat,
         Listed(out, r, c, n), IsAgreement(BucketIn(out, Nth(c, n + 1)))
  PROVE  Listed(out, r, c, n + 1)
<1>1. PICK at \in [DOMAIN r -> 1..n] :
         /\ \A j, k \in DOMAIN r : j < k => at[j] < at[k]
         /\ \A k \in DOMAIN r : r[k] = Nth(c, at[k])
         /\ \A i \in 1..n : ~IsAgreement(BucketIn(out, Nth(c, i))) <=> \E k \in DOMAIN r : at[k] = i
  BY DEF Listed
<1>2. at \in [DOMAIN r -> 1..(n + 1)]
  BY <1>1
<1>3. \A i \in 1..(n + 1) : i \in 1..n \/ i = n + 1
  OBVIOUS
<1>4. \A k \in DOMAIN r : at[k] # n + 1
  BY <1>1
<1>5. \A i \in 1..(n + 1) :
        ~IsAgreement(BucketIn(out, Nth(c, i))) <=> \E k \in DOMAIN r : at[k] = i
  BY <1>1, <1>3, <1>4
<1> QED
  BY <1>1, <1>2, <1>5 DEF Listed

(* A mutant on which they do not agree adds its own. *)
LEMMA DivergenceListed ==
  ASSUME NEW out, NEW S, NEW r \in Seq(S), NEW c, NEW n \in Nat, Nth(c, n + 1) \in S,
         Listed(out, r, c, n), ~IsAgreement(BucketIn(out, Nth(c, n + 1)))
  PROVE  Listed(out, Append(r, Nth(c, n + 1)), c, n + 1)
<1> DEFINE m == Nth(c, n + 1)
           rr == Append(r, m)
<1>1. PICK at \in [DOMAIN r -> 1..n] :
         /\ \A j, k \in DOMAIN r : j < k => at[j] < at[k]
         /\ \A k \in DOMAIN r : r[k] = Nth(c, at[k])
         /\ \A i \in 1..n : ~IsAgreement(BucketIn(out, Nth(c, i))) <=> \E k \in DOMAIN r : at[k] = i
  BY DEF Listed
<1>2. /\ Len(r) \in Nat /\ DOMAIN r = 1..Len(r) /\ DOMAIN rr = 1..(Len(r) + 1)
      /\ rr[Len(r) + 1] = m /\ \A k \in 1..Len(r) : rr[k] = r[k]
  OBVIOUS
<1> HIDE DEF rr
<1> DEFINE new == [k \in DOMAIN rr |-> IF k = Len(r) + 1 THEN n + 1 ELSE at[k]]
<1>3. \A k \in DOMAIN rr : k = Len(r) + 1 \/ (k \in DOMAIN r /\ k < Len(r) + 1 /\ k # Len(r) + 1)
  BY <1>2
<1>4. \A k \in DOMAIN r : k \in DOMAIN rr /\ new[k] = at[k] /\ at[k] \in 1..n
  BY <1>1, <1>2
<1>5. Len(r) + 1 \in DOMAIN rr /\ new[Len(r) + 1] = n + 1
  BY <1>2
<1>6. new \in [DOMAIN rr -> 1..(n + 1)]
  <2>1. \A k \in DOMAIN rr : new[k] \in 1..(n + 1)
    BY <1>3, <1>4, <1>5
  <2> QED
    BY <2>1
<1> HIDE DEF new
<1>7. \A j, k \in DOMAIN rr : j < k => new[j] < new[k]
  <2> SUFFICES ASSUME NEW j \in DOMAIN rr, NEW k \in DOMAIN rr, j < k PROVE new[j] < new[k]
    OBVIOUS
  <2>1. j \in DOMAIN r
    BY <1>2, <1>3
  <2>2. CASE k \in DOMAIN r
    BY <1>1, <1>4, <2>1, <2>2
  <2>3. CASE k = Len(r) + 1
    BY <1>4, <1>5, <2>1, <2>3
  <2> QED
    BY <1>3, <2>2, <2>3
<1>8. \A k \in DOMAIN rr : rr[k] = Nth(c, new[k])
  BY <1>1, <1>2, <1>3, <1>4, <1>5
<1>9. \A i \in 1..(n + 1) :
        ~IsAgreement(BucketIn(out, Nth(c, i))) <=> \E k \in DOMAIN rr : new[k] = i
  <2> SUFFICES ASSUME NEW i \in 1..(n + 1)
               PROVE  ~IsAgreement(BucketIn(out, Nth(c, i))) <=> \E k \in DOMAIN rr : new[k] = i
    OBVIOUS
  <2>1. CASE i = n + 1
    BY <1>5, <2>1
  <2>2. CASE i \in 1..n
    <3>1. \A k \in DOMAIN rr : new[k] = i => k \in DOMAIN r
      BY <1>3, <1>5, <2>2
    <3> QED
      BY <1>1, <1>4, <2>2, <3>1
  <2> QED
    BY <2>1, <2>2
<1>10. Listed(out, rr, c, n + 1)
  BY <1>6, <1>7, <1>8, <1>9 DEF Listed
<1> QED
  BY <1>10 DEF rr
-----------------------------------------------------------------------------
Lines == {Torn} \cup {Mutant(c, i) : c \in Commands, i \in Iter}

(* Reports are sequences of lines, and every directory has its three files. *)
DiskTyped ==
  /\ reports \in [Outs \X DOMAIN Draw -> Seq(Lines)]
  /\ DOMAIN dumps = Outs \X Iter
  /\ \A d \in Outs \X Iter : dumps[d] = [f \in DumpFiles |-> dumps[d][f]]

Running == phase \in {"compare"} \cup Writing

(* Where a run is: at one of its mutants, reporting only a divergence and  *)
(* dumping only a finding.                                                 *)
Place ==
  /\ pos \in 1..(Len(Indices(cmd)) + 1)
  /\ phase \in Writing => pos <= Len(Indices(cmd)) /\ ~IsAgreement(BucketIn(outcome, Current))
  /\ Running => exit = NoExit

(* What the report holds: the divergences up to the mutant the run is at,  *)
(* and, once it is written, the line of that one, whole or torn.           *)
Reported ==
  /\ phase \in {"compare", "line"} => Listed(outcome, reports[Report], cmd, pos - 1)
  /\ phase \in DumpFiles =>
       \E r \in Seq(Lines) : /\ Listed(outcome, r, cmd, pos - 1)
                             /\ reports[Report] = Append(r, Current)
  /\ ~Running =>
       \E r \in Seq(Lines) : /\ Listed(outcome, r, cmd, pos - 1)
                             /\ \/ reports[Report] = r
                                \/ \E x \in Lines : reports[Report] = Append(r, x)
  /\ exit \in {ExitClean, ExitReview, ExitFail} =>
       Listed(outcome, reports[Report], cmd, Len(Indices(cmd)))

(* What the directories hold: the findings before the mutant the run is    *)
(* at, and of that one the files written so far.                           *)
Filed ==
  /\ Dumped(outcome, dumps, cmd, pos - 1)
  /\ phase \in {"collateral", "meta"} => dumps[CaseDir]["quote"] = Current
  /\ phase = "meta" => dumps[CaseDir]["collateral"] = Current

KeptInv ==
  /\ RunInv /\ DiskTyped
  /\ cmd # NoCommand => Place /\ Reported /\ Filed

(* A command draws no iteration twice. *)
LEMMA IndicesDistinct ==
  ASSUME NEW c \in Commands, NEW j \in 1..Len(Indices(c)), NEW k \in 1..Len(Indices(c)),
         Indices(c)[j] = Indices(c)[k]
  PROVE  j = k
<1>1. CASE c.only # NoIter
  BY <1>1 DEF Indices
<1>2. CASE c.only = NoIter
  <2>1. c.iters \in Nat /\ Indices(c) = [i \in 1..c.iters |-> i - 1]
    BY <1>2, CommandsAssumption DEF Indices
  <2> QED
    BY <2>1
<1> QED
  BY <1>1, <1>2

(* The mutant a run is at. *)
LEMMA AtMutant ==
  ASSUME RunInv, DiskTyped, cmd # NoCommand, pos \in 1..Len(Indices(cmd))
  PROVE  /\ cmd \in Commands /\ Len(Indices(cmd)) \in Nat
         /\ Report \in Outs \X DOMAIN Draw /\ CaseDir \in Outs \X Iter
         /\ Current = Nth(cmd, pos) /\ Current \in Lines
         /\ CaseDir = <<cmd.out, Nth(cmd, pos).iter>>
<1>1. cmd \in Commands
  BY DEF RunInv
<1>2. Indices(cmd)[pos] \in Iter /\ Len(Indices(cmd)) \in Nat /\ cmd.seed \in DOMAIN Draw
  BY <1>1, IndicesType, CommandsAssumption
<1>3. cmd.out \in Outs
  BY <1>1 DEF Outs
<1>4. Current.iter = Indices(cmd)[pos]
  BY DEF Current, Mutant
<1> QED
  BY <1>1, <1>2, <1>3, <1>4 DEF Report, CaseDir, Current, Nth, Lines

(* The report of a run is one of the reports. *)
LEMMA ReportTyped ==
  ASSUME RunInv, DiskTyped, cmd # NoCommand
  PROVE  Report \in Outs \X DOMAIN Draw /\ reports[Report] \in Seq(Lines)
<1>1. cmd \in Commands /\ cmd.seed \in DOMAIN Draw
  BY CommandsAssumption DEF RunInv
<1> QED
  BY <1>1 DEF Report, Outs, DiskTyped

LEMMA KeptStart == Init => KeptInv
<1> SUFFICES ASSUME Init PROVE KeptInv
  OBVIOUS
<1>1. RunInv /\ cmd = NoCommand
  BY SweepStart DEF Init
<1>2. DiskTyped
  BY DEF Init, DiskTyped, NoDump
<1> QED
  BY <1>1, <1>2 DEF KeptInv

LEMMA KeptOnStart ==
  ASSUME KeptInv, NEW c \in Commands, Start(c)
  PROVE  KeptInv'
<1>1. /\ phase' = "compare" /\ cmd' = c /\ pos' = 1 /\ exit' = NoExit
      /\ UNCHANGED <<outcome, dumps>>
      /\ reports' = [reports EXCEPT ![<<c.out, c.seed>>] = <<>>]
  BY DEF Start, Begin
<1>2. RunInv'
  BY InvStep DEF KeptInv, Next
<1>3. c # NoCommand /\ c.seed \in DOMAIN Draw /\ Len(Indices(c)) \in Nat
  BY CommandsAssumption, IndicesType
<1>4. Report' = <<c.out, c.seed>> /\ Report' \in Outs \X DOMAIN Draw
  BY <1>1, <1>3 DEF Report, Outs
<1>5. reports'[Report'] = <<>> /\ <<>> \in Seq(Lines)
  BY <1>1, <1>4 DEF KeptInv, DiskTyped
<1>6. DiskTyped'
  BY <1>1, <1>4, <1>5 DEF KeptInv, DiskTyped
<1>7. Place'
  BY <1>1, <1>3 DEF Place, Writing, DumpFiles
<1>8. Listed(outcome, <<>>, c, 0)
  BY NothingListed
<1>9. Reported'
  BY <1>1, <1>5, <1>8 DEF Reported, Running, DumpFiles, NoExit, ExitClean, ExitReview, ExitFail
<1>10. Filed'
  BY <1>1 DEF Filed, Dumped
<1> QED
  BY <1>2, <1>6, <1>7, <1>9, <1>10 DEF KeptInv

(* What agrees is no line, and no finding. *)
LEMMA NoFinding == \A bucket : IsFinding(bucket) => ~IsAgreement(bucket)
  BY DEF IsFinding, IsAgreement

(* One mutant more is dumped, if it is a finding. *)
LEMMA OneMoreDumped ==
  ASSUME NEW out, NEW files, NEW c, NEW n \in Nat \ {0}, Dumped(out, files, c, n - 1),
         IsFinding(BucketIn(out, Nth(c, n))) =>
           files[<<c.out, Nth(c, n).iter>>] = [f \in DumpFiles |-> Nth(c, n)]
  PROVE  Dumped(out, files, c, n)
<1>1. \A k \in 1..n : k \in 1..(n - 1) \/ k = n
  OBVIOUS
<1> QED
  BY <1>1 DEF Dumped

LEMMA KeptOnCompare ==
  ASSUME KeptInv, Compare
  PROVE  KeptInv'
<1> DEFINE bucket == BucketOf(Current)
<1>1. /\ phase = "compare" /\ pos <= Len(Indices(cmd))
      /\ UNCHANGED <<outcome, cmd, exit, reports, dumps>>
      /\ IF IsAgreement(bucket) THEN phase' = "compare" /\ pos' = pos + 1
         ELSE phase' = "line" /\ pos' = pos
  BY DEF Compare, Advance, Write
<1>2. RunInv'
  BY InvStep DEF KeptInv, Next
<1>3. cmd \in Commands /\ cmd # NoCommand /\ Len(Indices(cmd)) \in Nat
  BY <1>1, CommandsAssumption, IndicesType DEF KeptInv, RunInv
<1>4. pos \in 1..Len(Indices(cmd)) /\ pos \in Nat \ {0} /\ exit = NoExit
  BY <1>1, <1>3 DEF KeptInv, Place, Running
<1>5. Current = Nth(cmd, pos) /\ bucket = BucketIn(outcome, Current)
  BY <1>3, <1>4, AtMutant DEF KeptInv, BucketOf, BucketIn
<1>6. /\ reports[Report] \in Seq(Lines) /\ Listed(outcome, reports[Report], cmd, pos - 1)
      /\ Dumped(outcome, dumps, cmd, pos - 1)
  BY <1>1, <1>3, ReportTyped DEF KeptInv, Reported, Filed
<1>7. DiskTyped' /\ Report' = Report
  BY <1>1 DEF KeptInv, DiskTyped, Report
<1>8. CASE IsAgreement(bucket)
  <2>1. phase' = "compare" /\ pos' = pos + 1 /\ pos' - 1 = pos
    BY <1>1, <1>4, <1>8
  <2>2. Listed(outcome, reports[Report], cmd, pos)
    <3>1. pos - 1 \in Nat /\ (pos - 1) + 1 = pos
      BY <1>4
    <3>2. IsAgreement(BucketIn(outcome, Nth(cmd, (pos - 1) + 1)))
      BY <1>5, <1>8, <3>1
    <3> HIDE DEF bucket
    <3>3. Listed(outcome, reports[Report], cmd, (pos - 1) + 1)
      BY <1>6, <3>1, <3>2, AgreementListed
    <3> QED
      BY <3>1, <3>3
  <2>3. Dumped(outcome, dumps, cmd, pos)
    BY <1>4, <1>5, <1>6, <1>8, NoFinding, OneMoreDumped
  <2>4. Place'
    BY <1>1, <1>3, <1>4, <2>1 DEF Place, Writing, DumpFiles
  <2>5. Reported'
    BY <1>1, <1>4, <1>7, <2>1, <2>2
       DEF Reported, Running, DumpFiles, NoExit, ExitClean, ExitReview, ExitFail
  <2>6. Filed'
    BY <1>1, <2>1, <2>3 DEF Filed
  <2> QED
    BY <1>2, <1>7, <2>4, <2>5, <2>6 DEF KeptInv
<1>9. CASE ~IsAgreement(bucket)
  <2>1. phase' = "line" /\ pos' = pos
    BY <1>1, <1>9
  <2>2. Current' = Current
    BY <1>1, <2>1 DEF Current
  <2>3. Place'
    BY <1>1, <1>3, <1>4, <1>5, <1>9, <2>1, <2>2 DEF Place, Writing, DumpFiles
  <2>4. Reported'
    BY <1>1, <1>4, <1>6, <1>7, <2>1
       DEF Reported, Running, Writing, DumpFiles, NoExit, ExitClean, ExitReview, ExitFail
  <2>5. Filed'
    BY <1>1, <1>6, <2>1 DEF Filed
  <2> QED
    BY <1>2, <1>7, <2>3, <2>4, <2>5 DEF KeptInv
<1> QED
  BY <1>8, <1>9

LEMMA KeptOnWriteLine ==
  ASSUME KeptInv, WriteLine
  PROVE  KeptInv'
<1> DEFINE bucket == BucketOf(Current)
<1>1. /\ phase = "line" /\ UNCHANGED <<outcome, cmd, exit, dumps>>
      /\ reports' = [reports EXCEPT ![Report] = Append(@, Current)]
      /\ IF IsFinding(bucket) THEN phase' = "quote" /\ pos' = pos
         ELSE phase' = "compare" /\ pos' = pos + 1
  BY DEF WriteLine, Advance, Write
<1>2. RunInv'
  BY InvStep DEF KeptInv, Next
<1>3. cmd \in Commands /\ cmd # NoCommand /\ Len(Indices(cmd)) \in Nat
  BY <1>1, CommandsAssumption, IndicesType DEF KeptInv, RunInv
<1>4. /\ pos \in 1..Len(Indices(cmd)) /\ pos \in Nat \ {0} /\ exit = NoExit
      /\ ~IsAgreement(BucketIn(outcome, Current))
  BY <1>1, <1>3 DEF KeptInv, Place, Running, Writing
<1>5. /\ Current = Nth(cmd, pos) /\ Current \in Lines /\ bucket = BucketIn(outcome, Current)
      /\ Report \in Outs \X DOMAIN Draw
  BY <1>3, <1>4, AtMutant DEF KeptInv, BucketOf, BucketIn
<1>6. /\ reports[Report] \in Seq(Lines) /\ Listed(outcome, reports[Report], cmd, pos - 1)
      /\ Dumped(outcome, dumps, cmd, pos - 1)
  BY <1>1, <1>3, ReportTyped DEF KeptInv, Reported, Filed
<1>7. Report' = Report /\ reports'[Report] = Append(reports[Report], Current)
  BY <1>1, <1>5 DEF KeptInv, DiskTyped, Report
<1>8. DiskTyped'
  BY <1>1, <1>5, <1>6 DEF KeptInv, DiskTyped
<1>9. CASE IsFinding(bucket)
  <2>1. phase' = "quote" /\ pos' = pos
    BY <1>1, <1>9
  <2>2. Current' = Current
    BY <1>1, <2>1 DEF Current
  <2>3. Place'
    BY <1>1, <1>3, <1>4, <2>1, <2>2 DEF Place, Writing, DumpFiles
  <2>4. Reported'
    BY <1>1, <1>4, <1>6, <1>7, <2>1, <2>2
       DEF Reported, Running, Writing, DumpFiles, NoExit, ExitClean, ExitReview, ExitFail
  <2>5. Filed'
    BY <1>1, <1>6, <2>1 DEF Filed
  <2> QED
    BY <1>2, <1>8, <2>3, <2>4, <2>5 DEF KeptInv
<1>10. CASE ~IsFinding(bucket)
  <2>1. phase' = "compare" /\ pos' = pos + 1 /\ pos' - 1 = pos
    BY <1>1, <1>4, <1>10
  <2>2. Listed(outcome, Append(reports[Report], Current), cmd, pos)
    <3>1. pos - 1 \in Nat /\ (pos - 1) + 1 = pos
      BY <1>4
    <3>2. /\ Nth(cmd, (pos - 1) + 1) = Current /\ Nth(cmd, (pos - 1) + 1) \in Lines
          /\ ~IsAgreement(BucketIn(outcome, Nth(cmd, (pos - 1) + 1)))
      BY <1>4, <1>5, <3>1
    <3> HIDE DEF bucket
    <3>3. Listed(outcome, Append(reports[Report], Nth(cmd, (pos - 1) + 1)), cmd, (pos - 1) + 1)
      BY <1>6, <3>1, <3>2, DivergenceListed
    <3> QED
      BY <3>1, <3>2, <3>3
  <2>3. Dumped(outcome, dumps, cmd, pos)
    BY <1>4, <1>5, <1>6, <1>10, OneMoreDumped
  <2>4. Place'
    BY <1>1, <1>3, <1>4, <2>1 DEF Place, Writing, DumpFiles
  <2>5. Listed(outcome, reports'[Report], cmd, pos)
    BY <1>5, <1>7, <2>2
  <2>6. Reported'
    BY <1>1, <1>4, <1>7, <2>1, <2>5
       DEF Reported, Running, DumpFiles, NoExit, ExitClean, ExitReview, ExitFail
  <2>7. Filed'
    BY <1>1, <2>1, <2>3 DEF Filed
  <2> QED
    BY <1>2, <1>8, <2>4, <2>6, <2>7 DEF KeptInv
<1> QED
  BY <1>9, <1>10

(* What every step that writes a file of a case has in common. *)
LEMMA WhileDumping ==
  ASSUME KeptInv, phase \in DumpFiles
  PROVE  /\ cmd \in Commands /\ cmd # NoCommand /\ Len(Indices(cmd)) \in Nat
         /\ pos \in 1..Len(Indices(cmd)) /\ pos \in Nat \ {0} /\ exit = NoExit
         /\ ~IsAgreement(BucketIn(outcome, Current))
         /\ Current = Nth(cmd, pos) /\ Current \in Lines
         /\ CaseDir \in Outs \X Iter /\ CaseDir = <<cmd.out, Nth(cmd, pos).iter>>
         /\ Dumped(outcome, dumps, cmd, pos - 1)
         /\ \E r \in Seq(Lines) : /\ Listed(outcome, r, cmd, pos - 1)
                                  /\ reports[Report] = Append(r, Current)
<1>1. cmd \in Commands /\ cmd # NoCommand /\ Len(Indices(cmd)) \in Nat
  BY CommandsAssumption, IndicesType DEF KeptInv, RunInv, DumpFiles
<1>2. phase \in Writing
  BY DEF Writing
<1>3. /\ pos \in 1..Len(Indices(cmd)) /\ pos \in Nat \ {0} /\ exit = NoExit
      /\ ~IsAgreement(BucketIn(outcome, Current))
  BY <1>1, <1>2 DEF KeptInv, Place, Running
<1> QED
  BY <1>1, <1>3, AtMutant DEF KeptInv, Reported, Filed

(* A file written now leaves the cases of the other iterations alone. *)
LEMMA OthersStayDumped ==
  ASSUME KeptInv, phase \in DumpFiles, NEW files,
         \A d \in Outs \X Iter : d # CaseDir => files[d] = dumps[d]
  PROVE  Dumped(outcome, files, cmd, pos - 1)
<1> SUFFICES ASSUME NEW k \in 1..(pos - 1), IsFinding(BucketIn(outcome, Nth(cmd, k)))
             PROVE  files[<<cmd.out, Nth(cmd, k).iter>>] = [f \in DumpFiles |-> Nth(cmd, k)]
  BY DEF Dumped
<1>1. /\ pos \in 1..Len(Indices(cmd)) /\ Len(Indices(cmd)) \in Nat /\ cmd \in Commands
      /\ CaseDir = <<cmd.out, Nth(cmd, pos).iter>> /\ Dumped(outcome, dumps, cmd, pos - 1)
  BY WhileDumping
<1>2. k \in 1..Len(Indices(cmd)) /\ k # pos
  BY <1>1
<1>3. Indices(cmd)[k] # Indices(cmd)[pos]
  BY <1>1, <1>2, IndicesDistinct
<1>4. Nth(cmd, k).iter = Indices(cmd)[k] /\ Nth(cmd, pos).iter = Indices(cmd)[pos]
  BY DEF Nth, Mutant
<1>5. <<cmd.out, Nth(cmd, k).iter>> \in Outs \X Iter
  BY <1>1, <1>2, <1>4, IndicesType, CommandsAssumption DEF Outs
<1>6. <<cmd.out, Nth(cmd, k).iter>> # CaseDir
  BY <1>1, <1>3, <1>4
<1> QED
  BY <1>1, <1>5, <1>6 DEF Dumped

(* The files of a case keep their type. *)
LEMMA WriteTyped ==
  ASSUME KeptInv, NEW file \in DumpFiles, NEW content, CaseDir \in Outs \X Iter,
         dumps' = [dumps EXCEPT ![CaseDir][file] = content], UNCHANGED reports
  PROVE  /\ DiskTyped' /\ dumps'[CaseDir][file] = content
         /\ \A g \in DumpFiles \ {file} : dumps'[CaseDir][g] = dumps[CaseDir][g]
         /\ \A d \in Outs \X Iter : d # CaseDir => dumps'[d] = dumps[d]
<1>1. DOMAIN dumps = Outs \X Iter
      /\ \A d \in Outs \X Iter : dumps[d] = [f \in DumpFiles |-> dumps[d][f]]
  BY DEF KeptInv, DiskTyped
<1>2. dumps' = [d \in Outs \X Iter |->
                 IF d = CaseDir THEN [dumps[d] EXCEPT ![file] = content] ELSE dumps[d]]
  BY <1>1
<1>3. dumps'[CaseDir] = [dumps[CaseDir] EXCEPT ![file] = content]
  BY <1>2
<1>4. dumps'[CaseDir] = [f \in DumpFiles |-> IF f = file THEN content ELSE dumps[CaseDir][f]]
  BY <1>1, <1>3
<1>5. \A d \in Outs \X Iter : d # CaseDir => dumps'[d] = dumps[d]
  BY <1>2
<1>6. DOMAIN dumps' = Outs \X Iter
      /\ \A d \in Outs \X Iter : dumps'[d] = [f \in DumpFiles |-> dumps'[d][f]]
  BY <1>1, <1>2, <1>4, <1>5
<1>7. DiskTyped'
  BY <1>6 DEF KeptInv, DiskTyped
<1> QED
  BY <1>4, <1>5, <1>7

LEMMA KeptOnDump ==
  ASSUME KeptInv, DumpQuote \/ DumpCollateral \/ DumpMeta
  PROVE  KeptInv'
<1>1. /\ phase \in DumpFiles
      /\ dumps' = [dumps EXCEPT ![CaseDir][phase] = Current]
      /\ UNCHANGED <<outcome, cmd, tally, reproduced, exit, reports, deaths>>
      /\ \/ phase = "quote" /\ phase' = "collateral" /\ pos' = pos
         \/ phase = "collateral" /\ phase' = "meta" /\ pos' = pos
         \/ phase = "meta" /\ phase' = "compare" /\ pos' = pos + 1
  BY DEF DumpQuote, DumpCollateral, DumpMeta, Dump, Advance, Write, DumpFiles
<1>2. RunInv'
  BY InvStep DEF KeptInv, Next
<1>3. /\ cmd \in Commands /\ cmd # NoCommand /\ Len(Indices(cmd)) \in Nat
      /\ pos \in 1..Len(Indices(cmd)) /\ pos \in Nat \ {0} /\ exit = NoExit
      /\ ~IsAgreement(BucketIn(outcome, Current))
      /\ Current = Nth(cmd, pos) /\ Current \in Lines
      /\ CaseDir \in Outs \X Iter /\ CaseDir = <<cmd.out, Nth(cmd, pos).iter>>
      /\ \E r \in Seq(Lines) : /\ Listed(outcome, r, cmd, pos - 1)
                               /\ reports[Report] = Append(r, Current)
  BY <1>1, WhileDumping
<1>4. /\ DiskTyped' /\ dumps'[CaseDir][phase] = Current
      /\ \A g \in DumpFiles \ {phase} : dumps'[CaseDir][g] = dumps[CaseDir][g]
      /\ \A d \in Outs \X Iter : d # CaseDir => dumps'[d] = dumps[d]
  BY <1>1, <1>3, WriteTyped
<1>5. Dumped(outcome, dumps', cmd, pos - 1)
  <2> DEFINE files == dumps'
  <2>1. \A d \in Outs \X Iter : d # CaseDir => files[d] = dumps[d]
    BY <1>4
  <2> HIDE DEF files
  <2>2. Dumped(outcome, files, cmd, pos - 1)
    BY <1>1, <2>1, OthersStayDumped
  <2> QED
    BY <2>2 DEF files
<1>6. Report' = Report
  BY <1>1 DEF Report
<1>7. CASE phase \in {"quote", "collateral"}
  <2>1. /\ pos' = pos /\ phase' \in DumpFiles /\ phase' \in Writing
        /\ phase' \in {"collateral", "meta"} /\ (phase' = "meta" => phase = "collateral")
        /\ (phase' = "collateral" => phase = "quote")
    BY <1>1, <1>7 DEF DumpFiles, Writing
  <2>2. Current' = Current /\ CaseDir' = CaseDir
    BY <1>1, <2>1 DEF Current, CaseDir
  <2>3. Place'
    BY <1>1, <1>3, <2>1, <2>2 DEF Place
  <2>4. Reported'
    BY <1>1, <1>3, <1>6, <2>1, <2>2
       DEF Reported, Running, Writing, DumpFiles, NoExit, ExitClean, ExitReview, ExitFail
  <2>5. dumps'[CaseDir]["quote"] = Current
    BY <1>3, <1>4, <1>7 DEF KeptInv, Filed, DumpFiles
  <2>6. Filed'
    BY <1>1, <1>4, <1>5, <2>1, <2>2, <2>5 DEF Filed
  <2> QED
    BY <1>2, <1>4, <2>3, <2>4, <2>6 DEF KeptInv
<1>8. CASE phase = "meta"
  <2>1. phase' = "compare" /\ pos' = pos + 1 /\ pos' - 1 = pos
    BY <1>1, <1>3, <1>8
  <2>2. dumps'[CaseDir]["quote"] = Current /\ dumps'[CaseDir]["collateral"] = Current
        /\ dumps'[CaseDir]["meta"] = Current
    BY <1>3, <1>4, <1>8 DEF KeptInv, Filed, DumpFiles
  <2>3. dumps'[CaseDir] = [f \in DumpFiles |-> Current]
    <3>1. dumps'[CaseDir] = [f \in DumpFiles |-> dumps'[CaseDir][f]]
      BY <1>3, <1>4 DEF DiskTyped
    <3>2. \A f \in DumpFiles : dumps'[CaseDir][f] = Current
      BY <2>2 DEF DumpFiles
    <3> QED
      BY <3>1, <3>2
  <2>4. Dumped(outcome, dumps', cmd, pos)
    <3> DEFINE files == dumps'
    <3>1. Dumped(outcome, files, cmd, pos - 1)
          /\ files[<<cmd.out, Nth(cmd, pos).iter>>] = [f \in DumpFiles |-> Nth(cmd, pos)]
      BY <1>3, <1>5, <2>3
    <3> HIDE DEF files
    <3>2. Dumped(outcome, files, cmd, pos)
      BY <1>3, <3>1, OneMoreDumped
    <3> QED
      BY <3>2 DEF files
  <2>5. Listed(outcome, reports[Report], cmd, pos)
    <3>1. PICK r \in Seq(Lines) : /\ Listed(outcome, r, cmd, pos - 1)
                                  /\ reports[Report] = Append(r, Current)
      BY <1>3
    <3>2. pos - 1 \in Nat /\ (pos - 1) + 1 = pos
      BY <1>3
    <3>3. /\ Nth(cmd, (pos - 1) + 1) = Current /\ Nth(cmd, (pos - 1) + 1) \in Lines
          /\ ~IsAgreement(BucketIn(outcome, Nth(cmd, (pos - 1) + 1)))
      BY <1>3, <3>2
    <3>4. Listed(outcome, Append(r, Nth(cmd, (pos - 1) + 1)), cmd, (pos - 1) + 1)
      BY <3>1, <3>2, <3>3, DivergenceListed
    <3> QED
      BY <3>1, <3>2, <3>3, <3>4
  <2>6. Place'
    BY <1>1, <1>3, <2>1 DEF Place, Writing, DumpFiles
  <2>7. Reported'
    <3>1. exit' = NoExit /\ Listed(outcome', reports'[Report'], cmd', pos' - 1)
      BY <1>1, <1>3, <1>6, <2>1, <2>5
    <3> QED
      BY <2>1, <3>1 DEF Reported, Running, DumpFiles, NoExit, ExitClean, ExitReview, ExitFail
  <2>8. Filed'
    BY <1>1, <2>1, <2>4 DEF Filed
  <2> QED
    BY <1>2, <1>4, <2>6, <2>7, <2>8 DEF KeptInv
<1> QED
  BY <1>1, <1>7, <1>8

LEMMA KeptOnFinish ==
  ASSUME KeptInv, Finish
  PROVE  KeptInv'
<1>1. /\ phase = "compare" /\ pos > Len(Indices(cmd)) /\ phase' = "exited"
      /\ UNCHANGED <<outcome, cmd, pos, reports, dumps>>
  BY DEF Finish
<1>2. RunInv'
  BY InvStep DEF KeptInv, Next
<1>3. cmd \in Commands /\ cmd # NoCommand /\ Len(Indices(cmd)) \in Nat
  BY <1>1, CommandsAssumption, IndicesType DEF KeptInv, RunInv
<1>4. pos = Len(Indices(cmd)) + 1
  BY <1>1, <1>3 DEF KeptInv, Place
<1>5. /\ reports[Report] \in Seq(Lines) /\ Listed(outcome, reports[Report], cmd, pos - 1)
      /\ Dumped(outcome, dumps, cmd, pos - 1)
  BY <1>1, <1>3, ReportTyped DEF KeptInv, Reported, Filed
<1>6. DiskTyped' /\ Report' = Report
  BY <1>1 DEF KeptInv, DiskTyped, Report
<1>7. pos - 1 = Len(Indices(cmd))
  BY <1>3, <1>4
<1>8. Place'
  BY <1>1, <1>3, <1>4 DEF Place, Running, Writing, DumpFiles
<1>9. Reported'
  BY <1>1, <1>5, <1>6, <1>7 DEF Reported, DumpFiles
<1>10. Filed'
  BY <1>1, <1>5 DEF Filed
<1> QED
  BY <1>2, <1>6, <1>8, <1>9, <1>10 DEF KeptInv

(* What a run that dies leaves behind. *)
LEMMA KeptOnDeath ==
  ASSUME KeptInv, Abort \/ Die
  PROVE  KeptInv'
<1>1. /\ Running /\ phase' = "exited" /\ exit' = ExitAbort
      /\ UNCHANGED <<outcome, cmd, pos>>
      /\ \/ UNCHANGED <<reports, dumps>>
         \/ /\ phase = "line" /\ UNCHANGED dumps
            /\ reports' = [reports EXCEPT ![Report] = Append(@, Torn)]
         \/ /\ phase \in DumpFiles /\ UNCHANGED reports
            /\ dumps' = [dumps EXCEPT ![CaseDir][phase] = Torn]
  BY DEF Abort, Die, Dead, Running, KeptInv, RunInv
<1>2. RunInv'
  BY InvStep DEF KeptInv, Next
<1>3. cmd \in Commands /\ cmd # NoCommand /\ Len(Indices(cmd)) \in Nat
  BY <1>1, CommandsAssumption, IndicesType DEF KeptInv, RunInv, Running, Writing, DumpFiles
<1>4. Report' = Report /\ Report \in Outs \X DOMAIN Draw /\ reports[Report] \in Seq(Lines)
  BY <1>1, <1>3, ReportTyped DEF KeptInv, Report
<1>5. \E r \in Seq(Lines) : /\ Listed(outcome, r, cmd, pos - 1)
                            /\ \/ reports[Report] = r
                               \/ phase # "line" /\ \E x \in Lines : reports[Report] = Append(r, x)
  <2>1. CASE phase \in {"compare", "line"}
    BY <1>3, <1>4, <2>1 DEF KeptInv, Reported
  <2>2. CASE phase \in DumpFiles
    <3>1. /\ Current \in Lines
          /\ \E r \in Seq(Lines) : /\ Listed(outcome, r, cmd, pos - 1)
                                   /\ reports[Report] = Append(r, Current)
      BY <2>2, WhileDumping
    <3> QED
      BY <2>2, <3>1 DEF DumpFiles
  <2> QED
    BY <1>1, <2>1, <2>2 DEF Running, Writing
<1>6. DiskTyped'
      /\ \E r \in Seq(Lines) :
           /\ Listed(outcome, r, cmd, pos - 1)
           /\ reports'[Report] = r \/ \E x \in Lines : reports'[Report] = Append(r, x)
  <2>1. CASE UNCHANGED <<reports, dumps>>
    BY <1>5, <2>1 DEF KeptInv, DiskTyped
  <2>2. CASE /\ phase = "line" /\ UNCHANGED dumps
             /\ reports' = [reports EXCEPT ![Report] = Append(@, Torn)]
    <3>1. Torn \in Lines
      BY DEF Lines
    <3>2. reports'[Report] = Append(reports[Report], Torn) /\ DiskTyped'
      BY <1>4, <2>2, <3>1 DEF KeptInv, DiskTyped
    <3> QED
      BY <1>5, <2>2, <3>1, <3>2
  <2>3. CASE /\ phase \in DumpFiles /\ UNCHANGED reports
             /\ dumps' = [dumps EXCEPT ![CaseDir][phase] = Torn]
    <3>1. CaseDir \in Outs \X Iter
      BY <2>3, WhileDumping
    <3>2. DiskTyped'
      BY <2>3, <3>1, WriteTyped
    <3> QED
      BY <1>5, <2>3, <3>2
  <2> QED
    BY <1>1, <2>1, <2>2, <2>3
<1>7. Dumped(outcome, dumps', cmd, pos - 1)
  <2>1. CASE UNCHANGED dumps
    BY <1>3, <2>1 DEF KeptInv, Filed
  <2>2. CASE /\ phase \in DumpFiles /\ UNCHANGED reports
             /\ dumps' = [dumps EXCEPT ![CaseDir][phase] = Torn]
    <3> DEFINE files == dumps'
    <3>1. CaseDir \in Outs \X Iter
      BY <2>2, WhileDumping
    <3>2. \A d \in Outs \X Iter : d # CaseDir => files[d] = dumps[d]
      BY <2>2, <3>1, WriteTyped
    <3> HIDE DEF files
    <3>3. Dumped(outcome, files, cmd, pos - 1)
      BY <2>2, <3>2, OthersStayDumped
    <3> QED
      BY <3>3 DEF files
  <2> QED
    BY <1>1, <2>1, <2>2
<1>8. Place'
  BY <1>1, <1>3 DEF KeptInv, Place, Running, Writing, DumpFiles
<1>9. Reported'
  BY <1>1, <1>4, <1>6
     DEF Reported, DumpFiles, ExitAbort, ExitClean, ExitReview, ExitFail
<1>10. Filed'
  BY <1>1, <1>7 DEF Filed
<1> QED
  BY <1>2, <1>6, <1>8, <1>9, <1>10 DEF KeptInv

(* Taking the exit code changes nothing. *)
LEMMA KeptOnReap ==
  ASSUME KeptInv, Reap \/ UNCHANGED vars
  PROVE  KeptInv'
<1>1. /\ UNCHANGED <<outcome, cmd, pos, exit, reports, dumps>>
      /\ phase' = phase \/ (phase = "exited" /\ phase' = "idle")
  BY DEF Reap, vars
<1>2. RunInv'
  BY InvStep DEF KeptInv, Next
<1>3. DiskTyped' /\ Report' = Report /\ Current' = Current /\ CaseDir' = CaseDir
  BY <1>1 DEF KeptInv, DiskTyped, Report, Current, CaseDir
<1>4. cmd # NoCommand => Place' /\ Reported' /\ Filed'
  <2> SUFFICES ASSUME cmd # NoCommand PROVE Place' /\ Reported' /\ Filed'
    OBVIOUS
  <2>1. Place /\ Reported /\ Filed
    BY DEF KeptInv
  <2>2. Place'
    BY <1>1, <1>3, <2>1 DEF Place, Running, Writing, DumpFiles
  <2>3. Reported'
    BY <1>1, <1>3, <2>1 DEF Reported, Running, Writing, DumpFiles
  <2>4. Filed'
    BY <1>1, <1>3, <2>1 DEF Filed
  <2> QED
    BY <2>2, <2>3, <2>4
<1> QED
  BY <1>1, <1>2, <1>3, <1>4 DEF KeptInv

LEMMA KeptStep == KeptInv /\ [Next]_vars => KeptInv'
<1> SUFFICES ASSUME KeptInv, [Next]_vars PROVE KeptInv'
  OBVIOUS
<1> QED
  BY KeptOnStart, KeptOnCompare, KeptOnWriteLine, KeptOnDump, KeptOnFinish, KeptOnDeath,
     KeptOnReap DEF Next

(* The invariant says what the property does. *)
LEMMA KeptSuffices == KeptInv => ReportKept
<1> SUFFICES ASSUME KeptInv, cmd # NoCommand
             PROVE  /\ \E n \in {Len(reports[Report]) - 1, Len(reports[Report])} :
                         Lists(SubSeq(reports[Report], 1, n), cmd, pos - 1)
                    /\ exit \in {ExitClean, ExitReview, ExitFail} =>
                         Lists(reports[Report], cmd, Len(Indices(cmd)))
                    /\ \A k \in 1..(pos - 1) :
                         IsFinding(BucketOf(Nth(cmd, k))) => Whole(cmd.out, Nth(cmd, k))
  BY DEF ReportKept
<1> DEFINE report == reports[Report]
<1>1. report \in Seq(Lines)
  BY ReportTyped DEF KeptInv
<1>2. \A r \in Seq(Lines), x \in Lines :
        Len(Append(r, x)) - 1 = Len(r) /\ SubSeq(Append(r, x), 1, Len(r)) = r
  BY AppendProperties, SubSeqProperties
<1>3. \A r \in Seq(Lines) : SubSeq(r, 1, Len(r)) = r
  BY SubSeqProperties
<1>4. \E r \in Seq(Lines) : /\ Listed(outcome, r, cmd, pos - 1)
                            /\ report = r \/ \E x \in Lines : report = Append(r, x)
  <2>1. CASE phase \in {"compare", "line"}
    BY <1>1, <2>1 DEF KeptInv, Reported
  <2>2. CASE phase \in DumpFiles
    BY <2>2, WhileDumping
  <2>3. CASE ~Running
    BY <2>3 DEF KeptInv, Reported
  <2> QED
    BY <2>1, <2>2, <2>3 DEF Running, Writing
<1>5. \E n \in {Len(report) - 1, Len(report)} :
        Listed(outcome, SubSeq(report, 1, n), cmd, pos - 1)
  <2>1. PICK r \in Seq(Lines) : /\ Listed(outcome, r, cmd, pos - 1)
                                /\ report = r \/ \E x \in Lines : report = Append(r, x)
    BY <1>4
  <2> HIDE DEF report
  <2>2. Len(r) \in {Len(report) - 1, Len(report)} /\ SubSeq(report, 1, Len(r)) = r
    BY <1>2, <1>3, <2>1
  <2>3. Listed(outcome, SubSeq(report, 1, Len(r)), cmd, pos - 1)
    BY <2>1, <2>2, Zenon
  <2> DEFINE ends == {Len(report) - 1, Len(report)}
  <2>4. Len(r) \in ends
    BY <2>2
  <2> HIDE DEF ends
  <2>5. \E n \in ends : Listed(outcome, SubSeq(report, 1, n), cmd, pos - 1)
    BY <2>3, <2>4, Zenon
  <2> QED
    BY <2>5 DEF ends
<1>6. \A r, n : Lists(r, cmd, n) <=> Listed(outcome, r, cmd, n)
  BY ListedIsLists
<1>7. exit \in {ExitClean, ExitReview, ExitFail} =>
        Listed(outcome, report, cmd, Len(Indices(cmd)))
  BY DEF KeptInv, Reported
<1>8. \A k \in 1..(pos - 1) :
        IsFinding(BucketOf(Nth(cmd, k))) => Whole(cmd.out, Nth(cmd, k))
  BY DEF KeptInv, Filed, Dumped, BucketIn, BucketOf, Whole
<1> QED
  BY <1>5, <1>6, <1>7, <1>8

(* Whatever earlier sweeps left in the directories and wherever this one   *)
(* dies, its report lists the divergences it has found in their order, and *)
(* each finding has a case directory of its own that is whole (sweep.rs),  *)
(* for every number of iterations, draws and deaths.                       *)
THEOREM ReportsAreKept == Spec => []ReportKept
<1>1. Init => KeptInv
  BY KeptStart
<1>2. KeptInv /\ [Next]_vars => KeptInv'
  BY KeptStep
<1>3. KeptInv => ReportKept
  BY KeptSuffices
<1> QED
  BY <1>1, <1>2, <1>3, PTL DEF Spec

=============================================================================
