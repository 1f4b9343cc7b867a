# dcap-verify in TLA+

dcap-verify decides whether an SGX enclave is what it claims to be: from an
attestation quote, Intel's collateral (certificate chains, CRLs, TCB info, QE
identity), a clock and the caller's expectations it derives a verdict. The
repository also holds a differ that judges the same inputs with Intel's own
library (QVL), a task that runs the differ's legs, tools that build the corpora
it runs over, and a branch-flow guard that decides which pull requests may be
merged. This directory models the control of all of them, and the world the
verifier is called in, checks it with TLC, and proves the properties that matter
most with TLAPS.

Run a check with `tlc -config X.cfg M`, a proof with `tlapm M.tla`, in this
directory. `PROJECT.json` lists components, runs, hazards, theorems, and for
every definition the source lines it stands for.

## 1. Inventory

### Verification pipeline (`dcap-verify/src/verify.rs`, `lib.rs`)

One synchronous call. State: the locals of the call (the parsed chains, the list
of revoked entries collected so far, the standing found). Operations:
`verify_remote_attestation` and `verify_remote_attestation_with_policy`, which
forwards the policy's evaluation floor and then judges the standing. About
thirty checks run in a fixed order and the first that fails is the error. There
is no concurrency, so what is hard is order and combination:

* the error category a caller dispatches on is the *first* failing gate's; a
  category of a late stage tells the caller that the early stages held;
* revoked entries of two CRLs are gathered in one list and only looked up later;
* which CRL decides on the PCK certificate depends on another chain's leaf;
* windows are half open, the clock is truncated to seconds before and after the
  epoch, two documents are each held against one floor.

Correct means: a call is accepted exactly if all the evidence holds at its time,
with the standing of the first TCB level the platform reaches; otherwise it is
rejected for a fault it really has; and every call is answered.

### Certificate chains, CRLs, PCK extension (`dcap-verify/src/pki.rs`)

Stateless helpers of the pipeline: PEM limits, chain structure, validity, CRL
checks, serial number normalisation, the revocation lookup, the SGX extension of
the PCK certificate; and for clients `pck_collateral_params` and `PckCa`, which
say what collateral to fetch. Hard: limits, the first certificate out of its
window wherever it is, serials that differ only in leading zero bytes, a
repeated extension field that overwrites the one before.

### TCB standing and QE identity (`tcb.rs`), policy (`policy.rs`)

Pure functions: the first satisfied level in document order, the QE level with
the highest SVN reached (the last of equals), masked comparison, the two policy
switches. Hard: partially ordered TCB components, so document order matters.

### The world around a call (`capture_*.py`, Intel's service)

The verifier keeps nothing and reads no network: a client brings the collateral.
The clients in the repository peek into an unverified quote, call
`pck_collateral_params`, and fetch tcbInfo, QE identity, PCK CRL and root CRL
one after the other from Intel, who revokes certificates and publishes TCB
evaluation rounds meanwhile. Hard: the parts are of different times, may be
kept, mixed and reused, and the client's clock is its own. Correct means: a
revocation and a TCB recovery take effect within a bounded time whatever the
client does, and what a peek leads to is what the verifier wants.

### Quote parser (`types/quote.rs`, `types/report.rs`)

A reader over a byte slice that the caller holds; it moves the slice only when a
whole quote was read. Four lengths are declared in the bytes and need not agree
with each other or with the buffer. The `peek_*` helpers add fixed offsets
without parsing. Correct means: a read succeeds exactly if a whole quote lies at
the cursor, nothing of the section stays unread, and the two layouts agree.

### Signed documents (`types/collateral.rs`, `tcb_info.rs`, `qe_identity.rs`)

A serde visitor keeps the body of a signed document as text (what the signature
is checked over) and as a value (what is decided on). Hard: a second body, or
one after the signature, must never make the two differ.

### Differ (`dcap-differ/src/pipeline.rs`, `main.rs`, `sweep.rs`)

`run_case` compares the outcomes of dcap-verify and QVL on one case; `fixtures`
does so over a corpus and `sweep` over the mutations of a seed. State: a tally,
the recorded cases seen to reproduce, the exit code; for a sweep the report of
its seed, a line for each case the verifiers do not agree on, and a directory of
three files for each finding. Recorded (known) dangerous cases are excused;
recorded ones in scope that do not fire are reported. `calibrate` tries eight
marshaling cells. Hard: an excuse must not hide a divergence, and a divergence
that vanished must not pass for agreement; QVL runs in the process and can take
it down between two writes, and the next run meets what that one left.

### Differ task (`scripts/test-dcap-differ.mts`)

Runs the legs one after the other - calibration, oracle corpus, committed
corpus, the full corpus if it was regenerated, one replay for each recorded
iteration, the sweep - and turns the legs that are not clean into an exit code.

### Fixtures and corpora (`fixtures/tools`, `dcap-differ/tools`, `tests/fixtures.rs`)

`build_recombination_corpus.py` fetches Intel's documents, through a cache of
files, and splices them into cases; it can be killed and is run again.
`derive_fixtures.py` alters a captured fixture in one respect each. Both record
the verdict the verifier must give. `extract_raw_object` and the sweep's
`tcb_levels_range` find a value in JSON text by counting brackets. Hard: a cached
file that exists is believed; a case whose recorded verdict is of an earlier
gate than meant tests nothing; brackets within strings.

### Branch-flow guard (`.github/scripts/branch_flow_guard.py`, workflow, template)

A required check. A job reads the pull request from GitHub, applies the rules,
and for a first hop asks Linear twice (by branch, then by key), each request
with retries. A second job checks the staging record in the description against
the head commit, unless the variable `REQUIRE_STAGING_TEST` skips it. State lives
outside: the pull request, the variable, the job attempts, the verdicts GitHub
keeps. This is the concurrent part of the repository: jobs of several events run
beside each other and beside pushes, edits, retargets, switches of the variable
and reruns that replay an old event.

### Interactions

    Intel --(documents, CRLs)--> client, corpus build --(files)--> differ
    client --(quote, collateral, clock, floor/policy)--> verify
                verify --> types (parse) --> pki, tcb, policy
    differ case --> verify (in process, panics caught) and QVL (FFI)
    sweep --> reports and case directories, shared by the runs
    differ task --> differ run, one process per leg, by exit code
    guard job   --> GitHub (read once), Linear (twice), verdict per commit

### Left out

| part | why |
|---|---|
| `rng.rs` | a 64-bit mixing function; its one use is that an iteration can be replayed: `SweepRun` has what it draws as the constant `Draw` |
| mutation strategies, QVL marshaling, `qvl-sys` | which bytes change is data; QVL is a foreign library with an arbitrary outcome per case |
| `scripts/fuzz-dcap.mts`, `mutants.mts`, `dcap-verify/fuzz` | wrappers that start cargo-fuzz and cargo-mutants |
| `examples`, `tests`, test modules | read for what they say of the code |
| `ci.yml`, `dependabot.yml` | start the checks; no state of their own |
| date parsing and printing in the tools | one-shot conversions of data |

## 2. Modules

| module | models |
|---|---|
| `DcapTypes` | certificates, CRLs, documents, quotes, requests, verdicts; `unix_seconds` |
| `Pki`, `Tcb` | the functions of `pki.rs`; of `tcb.rs` and `policy.rs` |
| `DcapVerify` | the pipeline, one action per gate, over `Pki` and `Tcb` |
| `Attestation` | the abstract specification: a call is answered in one step |
| `AttestationWorld` | Intel and a client around the calls of `DcapVerify` |
| `RecordedCases` | the fixtures and recombinations, each with its recorded verdict, as calls of `DcapVerify` |
| `QuoteParse` | `SgxQuote::read` field by field, and the peek helpers |
| `SignedEnvelope` | the visitor, member by member |
| `RawScan` | the two bracket scans, character by character |
| `Comparison` | outcomes, `classify`, tally, exit code |
| `DifferRun` | a run of `fixtures` or `sweep`, case by case |
| `SweepRun` | `sweep` with its draws, report, case directories and deaths; implements `DifferRun` |
| `DifferTask` | the task, composing runs of `DifferRun` and calibration |
| `CorpusBuild` | the corpus build with its cache, failed requests and kills |
| `ChangeRecord` | reading the staging record from a description |
| `RecordScan` | descriptions typed line by line, and a scan that reads along |
| `BranchFlowGuard` | jobs beside their author, composing `ChangeRecord` |
| `Readers` | the four readers, `QuoteParse`, `SignedEnvelope`, `RawScan` and `RecordScan`, in one specification |
| `*Proofs`, `DcapVerifyLemmas` | theorems |
| `MC*` | constants for TLC |

Conventions. Every variable and action names its counterpart in the code where
it has one. Cryptography is ideal: `signedBy` is the one key under which a
signature verifies, a hash is the tuple it covers. A mask is the set of its one
bits, an optional field a set of at most one element. A definition whose name
extends an action's name and whose comment begins "A variant" is the same
operation with a plausible slip; no specification uses it, and substituting it
for the action makes the property that guards against the slip fail.

**`DcapVerify`.** `pc` is the next gate, `request` the arguments, `k` the chain
a loop is at, `revoked` the vector of revoked entries, `standing` the standing
before policy, `verdict` the `Result`. A gate's failure returns at once. `Call`
is the caller, `Return` the moment the result is taken and every local is gone;
the calls follow one another, so that nothing of one can reach the next. The
four chains are visited in the order of the code: TCB signing, PCK CRL issuer,
QE identity, PCK.

`Attestation` says the same without gates: `Acceptable(r)` is one conjunction
over the evidence, in terms of quantifiers over chains and certificates rather
than of loops; `Justified(category, r)` says what a rejection of that category
tells the caller. `DcapVerify` maps to it by `phase <- Phase` (idle, called,
returned).

**`AttestationWorld`.** Intel: `Tick`, `Revoke`, `Publish` (a round on the early
track), `Promote` (the same round on the standard track). The client: `TakeQuote`
(the peek), `FetchTcb`, `FetchQe`, `FetchPckCrl`, `FetchRootCrl` in the order of
`capture_base.py`, `GiveUp` when a response does not come, and `Verify` by a
clock off by up to `MaxSkew`. `Reuse` keeps the collateral for another quote and
`SpliceTcbInfo` puts another genuine tcbInfo in its place, as the recombination
tools do. Intel and the client are external, modelled from how the tools use the
service. The parties act between calls only: a call reads its arguments and
nothing else, so a step of theirs during a call commutes with its gates.

**`RecordedCases`.** Two harnesses call the verifier over each case: the fixture
test with the pins of `meta.json`, the differ with the quote's own measurement
and no floor. Each family of `derive_fixtures.py` and of the corpus build is an
operator from the base it alters to the case and its recorded verdicts.

**`QuoteParse`.** `cursor` is the caller's slice, `pos` and `end` the current
reader, `at` where each field was found. The three errors (not enough bytes,
unsupported value, trailing bytes) are one, because the parser maps them to one
category.

**`SignedEnvelope`.** `body_raw` and `signature_hex` are the visitor's two
`Option`s. That `body` is what `body_json` parses to holds by the last line of
the visitor and is not stated as a property; that a unique member supplied it
is.

**`RawScan`.** `depth`, `inString`, `escaped` are the scan's locals; the sweep's
scan also runs over text that is cut off anywhere. `Needles` is where a name
stands in the text. `ScanExact` compares the scan with how the document was put
together; `Modes` and `Opened` say what JSON has of strings and open brackets,
independently of the scan.

**`DifferRun`.** The outcomes of both verifiers are a function of the case,
chosen at the start: both are deterministic, and a replay therefore finds what
the sweep found. An abort stands for a file that cannot be read and for QVL
taking the process down. `reproduced` is the set of recorded cases that fired.

**`SweepRun`.** `Start` truncates the report (the bases are loaded before it, so
that a sweep that dies of a missing one has written nothing and is one that did
not start); an iteration is `Compare`,
`WriteLine` if the verifiers do not agree, and `DumpQuote`, `DumpCollateral`,
`DumpMeta` for a finding. `Abort` is QVL taking the process down in `Compare`,
`Die` any other death, with the line or file being written torn. `Run` maps it
to `DifferRun`; being killed is the one step a run does not have, and there the
mapping leaves it aborted.

**`RecordScan`.** `body` is a description, typed line by line; `scan` is what one
pass over it has found for each label: whether its field is open or closed, and
its values. `Template` is the part of the pull request template for the record,
`Begun` the record's first two lines; the properties set them above `body`.

**`CorpusBuild`.** `WipeFile`/`Wiped` remove the old cases, `UseCache`,
`Answered`, `NotAnswered`, `WriteBody`, `WriteChain` are `_cache`/`_get` with
four attempts, `WriteQuote`, `WriteCollateral`, `WriteMeta` emit a case, `Verify`
is `verify_case` over all of them, and `Kill` ends a build anywhere, with the
file it is writing torn. A file is absent, torn or genuine.

**`DifferTask`.** A leg is an invocation of `DifferRun`, started, run to its
end and reaped. A recorded corpus case has a name but no corpus; a recorded
iteration belongs to a seed. `Base` is `fixtures/prod-1`: under the default cell
calibration makes the very call of QVL the oracle leg makes of it, so that both
have one outcome, `Qvl(Base)`; `calibration` is what QVL makes of it under the
other cells.

**`BranchFlowGuard`.** A job attempt is an element of `attempts`: its job, the
event it was started with, the setting of the variable it was started under, the
step it is at, the tries of the current request, and the questions it gave up.
Of a head branch counts whether it has a key, whether Linear links it by rules
of its own (`linked`), and whether the first key-shaped token of its name, the
only one `extract_keys` looks up, is an issue's (`keyed`): either can be without
the other. `Step` is one attempt at an answer: a transient failure, giving up, or
the answer with everything the script does before its next request. `Change` is
the author (push, edit, retarget), `Rerun` an old event again, `Switch` the
variable; `switchedAt` is the last attempt before the last switch. External and
modelled from how the workflow uses it:

* every opened, synchronize and edited event on a base the workflow names starts
  a run at once; a rerun starts an attempt with the old event;
* a check decides by the attempt for the head commit that started last, and a
  job skipped by its condition passes;
* only merges into dev, staging and main are governed;
* a pull request keeps its head branch;
* a job is not cut off by its five minutes: three requests of three tries of at
  most twenty seconds, with their pauses, stay below that.

## 3. Runs

| run | question | states |
|---|---|---|
| `dcap_verify` | does the pipeline implement its promise, is a call accepted with all the evidence and only then, is every call answered, and does every recorded case get its recorded verdict? | 9.8 k |
| `attestation_world` | do a revocation and a TCB recovery take effect within their bounds, and does a peek lead to documents that are enough? | 1.07 M |
| `readers` | does each reader take exactly what is there: the quote parser, the peek helpers, the visitor, the bracket scans, the record scan? | 228 k |
| `differ_task` | is the exit code of a run the verdict its documentation promises, and does success of the whole task mean what it seems to? | 907 k |
| `recorded_reproduce` | finding 1 | |
| `calibration_trusted` | finding 2 | |
| `sweep` | can the report and the case directories be relied on wherever a sweep died, and is a sweep a run of `DifferRun`? | 701 k |
| `sweep_repro` | finding 3 | |
| `corpus_build` | can a build that was killed hand the differ half a case, or splice a torn signed document? | 1.9 k |
| `corpus_genuine` | finding 4 | |
| `guard` | can a pull request be merged exactly when the rules hold of it, whatever changes while jobs run? | 676 k |
| `guard_retries` | does every attempt end, however often the services fail? | 152 k |

Bounds, and why they are enough:

* **dcap_verify.** 2 TCB components for 16 (two incomparable ones make level
  order matter), chains of up to 3 certificates for 10 (a PCK chain with one
  intermediate; doubling a chain exceeds the limit), 2 ticks per second and
  `MaxSeconds` 99, so that truncation and saturation happen. The calls are one
  accepted call, every call that differs from it in one of about 190 respects,
  at both sides of each boundary, and every pair of 22 faults that each belong
  to one gate, because the order of two gates shows only in a call that fails
  both; beside them the recorded cases. The theorems have no such bounds.
* **attestation_world.** Two platform families with quotes of their own, and a
  quote that puts the certificates of one under the other's report; two rounds
  (`MaxRound`), the second of which puts one family's platform and the other's
  quoting enclave out of date; one revocation (`MaxRevoked`), of a PCK
  certificate or of the TCB signing certificate, which two chains share. Documents
  live 2 seconds, CRLs 1, the clock is off by at most 1, and time ends at 3: past
  every bound the properties name. `Explored` looks at revocation and recovery
  apart (revocation one second less), makes calls only after one of the two,
  with a clock that is right or behind - ahead only makes documents expire
  sooner - and asks for floor 2 only when there is a round 2. The theorems about
  it need none of this.
* **readers.** The four share nothing; a behaviour is one of them over one
  input. *Quotes*: two bytes of authentication data and three of certificates,
  cut at every field boundary and one byte to either side, declared lengths that
  disagree by one and by a lot, each unsupported value, a second quote whole and
  broken behind the first. Lengths stay below 2^31 because TLC's integers do;
  the proof has no such bounds. *Documents*: every object of up to four members
  over two bodies, two strings and a value of a wrong type: one more than a
  duplicate needs. *Scans*: strings of up to two characters - an escape and what
  it escapes count as one - in three places, and for the sweep's scan every
  truncation. *Records*: every description of up to five lines of nine kinds.
  The theorems about the visitor and the records have objects and descriptions
  of any length.
* **differ_task.** Outcomes differ from the recorded expectation in up to two
  places; iterations are recorded beyond the sweep and of another seed; a
  recorded case may have no directory; the full corpus may be absent. Runs by
  hand: every pair of outcomes for one case; eight typical pairs for three cases
  in any combination, in several orders, one repeated, with any of them
  recorded.
* **sweep.** Two seeds into one directory, default and explicit bases, one
  iteration again, with and without the allowlist; five typical pairs of
  outcomes. Three iterations and two deaths (`MaxDeaths`): a case directory is
  met by a second run after the first died in it, and by a third.
* **corpus_build.** Two artifacts with a chain and one without, two cases, one
  of which does not use every artifact; two kills (`MaxKills`): one leaves a
  torn file, the next meets it.
* **guard, guard_retries.** `MaxAttempts` bounds the job attempts. Retries change
  nothing about races, so `guard` has `RETRIES` 1 and as many attempts as fit,
  and `guard_retries` the script's 3 with two attempts and one description. A
  race needs two attempts (an old one ends late, a new one started earlier or
  later), a rerun makes three; a staging head has two jobs. Its commits are
  symmetric. `Explored` gives pushes, records and the switch to the staging
  head, and to the other heads, for which none of them counts, one commit, the
  variable on and one attempt less, and a choice of descriptions only to the head
  that must have one (the others are still edited). The theorems have no such
  bounds.
* `CHECK_DEADLOCK FALSE` is in `guard*`, because at `MaxAttempts` and with all
  jobs done nothing is left to happen; in `readers`, because a reader ends; and
  in the three runs of `MCDifferTask`, because the task ends.

## 4. Fairness and liveness

`DcapVerify` has `WF(Step)`: a function that was called runs to its end. The
caller is under no obligation to call or to take the result. `CallAnswered`
then says that no gate waits and that the loops over the chains end.
`BranchFlowGuard` has weak fairness for each attempt: the runner runs every job
it starts. It does not assume that a service ever answers; `AttemptsEnd` holds
because retries are counted. Nothing else has fairness: a sweep or a build may
be killed and never started again, a client may never verify. No safety
property depends on it.

## 5. Proofs

All are checked by `tlapm`; none rests on anything but the named assumptions on
constants, which TLC evaluates in the runs:

* of the verifier: `RootKeyAssumption`, `SizeAssumption`, `ClockAssumption` (the
  root key is a usable key, limits are positive), `RequestsAssumption` (calls
  have the types of their arguments) and `SignerAssumption` (the name the TCB
  signing certificate must have is a name);
* of the world: `IssuersAssumption` (Intel's CAs are issued by its root),
  `DocumentsAssumption` (a document carries its round's number),
  `AlgorithmAssumption`, `ClientAssumption` (the clocks stay in the range of
  `unix_seconds`), `NothingAssumption` (having nothing is told from having
  something); and what only `PeekingLeadsRight` uses, below: `ServiceAssumption`,
  `PlatformsAssumption`, `SerialsAssumption`;
* of the rest: `OutcomesAssumption`, `InvocationsAssumption`,
  `SuitesAssumption`, `CellsAssumption`, `BuffersAssumption`, `SweepAssumption`,
  `CommandsAssumption`, `CorpusAssumption`, `GuardAssumption`,
  `EnvelopesAssumption`, `LinesAssumption` - inputs have their types. They are
  weak: every value the code can hold is allowed.
* of the scans: `DocsAssumption` - the `tcbLevels` of the two documents close
  every string and bracket they open, which is what being JSON means for them, and
  no member's name stands, quoted, before the member. Without the latter the
  scan finds the wrong name, and it is as the capture tools write the files.

| theorem | statement | argument |
|---|---|---|
| `TypeCorrect` | `Spec => []TypeOK` | one lemma per kind of gate (plain, loop, CRL) |
| `NormalizedSerialCorrect` | two serials normalise to the same bytes iff they are the same number up to leading zero bytes | the first nonzero byte splits a serial uniquely |
| `AcceptanceIsSound` | `Spec => []AcceptanceSound` | `Evidence`, below |
| `PipelineKeepsItsPromise` | `Spec => ImplementsPromise`, the refinement of `Attestation` | `Evidence`, and for each gate that its fault is real |
| `AcceptanceIsComplete` | `Spec => []AcceptanceComplete` | no category of rejection is justified for a call that deserves acceptance, below |
| `AcceptedExactly` | `Spec => [](pc = "returned" => (verdict.kind = "accepted" <=> Deserved(request)))` | `AcceptanceIsSound` and `AcceptanceIsComplete` |
| `PolicyOnlyRestricts`, `AcceptedWithoutGap` | what is accepted would be under a laxer call; the times of acceptance have no gap | of `Deserved`, conjunct by conjunct, below |
| `CallsRunOut`, `JobsRunOut` | a measure is bounded and every step of a call, of a job, lowers it | `StepsLeft`, `TriesLeft`, below |
| `ReadIsExact`, `PeekIsRight`, `ParseTypeCorrect` | `Spec => []ReadExact`, `[]PeekAgrees`, `[]TypeOK` | `Progress`: the reader stands where the layout has the next field, and all that was checked so far holds |
| `ScansAreExact` | `ReadersSpec => []ScanExact` | `ScanInv`, below |
| `OnlySignedIsRead` | `ReadersSpec => []SignedIsRead` | `VisitorInv`: the two options are told by the members before `next`, each absent exactly if no member had its key |
| `FieldsAsScanned`, `TemplateHidesNothing` | `ReadersSpec => []ScanAgrees`, `[]TemplateIsHarmless` | `RecordInv`, below |
| `RunIsHonest`, `RunTypeCorrect` | `Spec => []RunHonest`, `[]TypeOK` | `TallyTells`: each counter is positive exactly if a case before `pos` has its bucket, and `reproduced` holds exactly the recorded dangerous cases before `pos` |
| `TaskIsHonest` | `TaskSpec => []TaskHonest` | `TaskInv`: the legs left are the last of the step, and the ones before are clean unless a deviation is noted |
| `DefaultIsTrusted` | `TaskSpec => []DefaultTrusted` | `TaskHonest` of `prod-1`, which is in the oracle corpus and not recorded |
| `SweepIsARun` | `Spec => Implements` | every step but a death is a step of `DifferRun` or a stutter; `UnkilledSweepIsARun` is the same without deaths |
| `ReportsAreKept` | `Spec => []ReportKept` | `KeptInv`, below |
| `RevocationIsBounded`, `RecoveryTakesEffect` | `WorldSpec => []RevocationBound`, `[]RecoveryBites` | `WorldInv`, below |
| `WorldCallsAnswered` | `WorldSpec => Promise!Init /\ [][PromiseToAll]_(Promise!vars)` | `StepRefines` at each gate; a call of the client is a `Call` of the promise |
| `WorldTypeCorrect` | `WorldSpec => []WorldTypeOK` | `HandInv`: what is in hand at a stage is what the stages before it fetched |
| `PeekingLeadsRight` | `WorldSpec => []PeekLeadsRight` | `FetchedInv`, below |
| `BodiesAreGenuine`, `PickedCasesAreWhole` | `Spec => []BodiesGenuine`, `[]PickedIsWhole` | `BodiesInv`: a chain in the cache stands beside a whole body; `HalfInv`: a torn file is the last written of its case, and nothing is there yet of the cases ahead |
| `MergesFollowTheRules`, `GoodOnesMerge`, `GuardTypeCorrect` | `Spec => []MergesByTheRules`, `[]GoodIsMergeable`, `[]TypeOK` | `GuardInv`, below |

*The pipeline.* `AcceptanceSound` is not inductive: it says nothing before the
last gate. The strengthening `Evidence` says that at the gate of rank *n*
everything the gates before it establish holds of the request, that a loop at
chain *k* has established its part for the chains before *k*, and that `revoked`
holds exactly the entries of the CRLs whose gates have been passed. Each gate
extends it by its own conjunct, and at the end it implies `Acceptable`. For the
refinement, a gate that passes is a stutter, the last one answers by
`Acceptable`, and a gate that fails answers with a category that has to be
`Justified`: what its category takes for granted is in `Evidence`, and that the
fault is real is a lemma for each gate. The lemmas of `DcapVerifyLemmas` connect
the two ways of saying each part: the operator that translates the code (loops,
first match, error values) and `Attestation`'s declarative one.

*The world.* Neither bound is inductive: they speak of the moment a call is
accepted, and the documents in it are older. `WorldInv` says that everything in
the client's hands, and in the request of a call under way, is an answer Intel
gave at some time not after now - with the CRL entries of that time and the
round its track served then. Acceptance gives (by `AcceptanceIsSound`) that
every window holds the client's clock, so an answer that old leaves the bound
exactly the lifetime and the skew.

*Completeness.* `PipelineKeepsItsPromise` leaves open whether a call could both
deserve acceptance and have a fault. `AcceptanceIsComplete` shows that it cannot:
for each category, what it says is contradicted by a part of `Acceptable`
(`NothingAtFault`), and the standing is unique, so that a policy permits it or
does not. A variant of the revocation lookup that ignores the issuer is sound
and keeps every other invariant, and fails this one.

*The verdict.* Soundness and completeness make the verdict a function of the
call, `Deserved`, and what a caller expects of it can be proved of that function.
A call is laxer than another if its floor is not above the other's and it has no
policy, or one that accepts at least what the other's accepts (`LaxerCall`): the
standing is the same, since neither decides which level is reached, and what the
stricter policy permits the laxer does. For the times between two acceptances,
`UnixSeconds` is monotone (`SecondsInOrder`; it rounds toward the epoch, on both
sides of it), and every window is an interval that the time at both ends lies in.

*Running out.* TLC checks that calls and jobs end; what it takes apart from
fairness is proved. A gate goes to one of higher `Rank`, to the next of at most
four chains, or returns, so that `StepsLeft`, at most 130, falls at each. A try of
the guard uses up one of the `RETRIES` of a question, an answer moves on to one of
the fewer questions left, and so `TriesLeft` falls with every step of a job; it is
positive exactly as long as the job runs.

*The peek.* That only genuine quotes are accepted, and that genuine ones are, is
a statement about the world and needs what is assumed of it.
`ServiceAssumption`: what Intel serves leads to the pinned root, is valid for as
long as is considered, and is in the form the verifier reads.
`PlatformsAssumption`: platforms sign their quotes under certificates of one of
the two CAs, and nobody else has a quote that is signed through and whose chain
is trusted - the ideal form of "signatures cannot be forged". It speaks of what
was signed, never of the gates. `SerialsAssumption`: an issuer gives a serial
number once. TLC evaluates them on the world it explores, which has a quote that
puts one platform's certificates under another's report. `FetchedInv` says that a
client that holds on to the quote it peeked into has the PCK CRL of the CA that
quote names, and that a CRL in hand is signed as its CA signs and lists nothing
but what has been revoked. With the windows the property asks for, `Deserved`
follows, and with `AcceptanceIsComplete` acceptance.

*Sweeps.* `ReportKept` is about the files at every moment, also those in which a
sweep is dead. `KeptInv` says that the report is the lines of the divergences
before `pos` (`Reported`) - with that of `pos` once it is written, and at most
one more, perhaps torn, where the sweep died - and that the directories of the
findings before `pos` are whole and theirs, and the one being written has the
files written so far (`Filed`), whatever an earlier sweep left under the name.

*The bracket scans.* The collateral is laid out once, by places: where the name of
each member stands, and that its value follows (`Placed`). No earlier place reads
as the name: what comes before is a string without it, punctuation, or levels
without it, and where such pieces meet the middle character of the three tells
them apart. `Marks` gives every character of a value its mode - outside, inside a
string, escaped - and the brackets open; from pieces that are closed (`Closed`) it
is built up to the whole value, in which brackets are open until the last
character and none after it. `ScanInv` says that the scan's locals are those of
`Marks` at the character it stands at, so that it stops at the last character of
the value and not before; on a file that is cut off it stops with nothing exactly
if the cut is before that.

*The record scan.* The code looks ahead from each label; the scanner goes once
over the lines. `ScanRight` says that its state for a label is what looking ahead
gives at the end of the lines read: whether a label is still waiting for its
value, and the values found. Each kind of line preserves it by a case of its own.
At the end of the template the scanner is where it began
(`TemplateLeavesNothing`), so that `RecordInv` can have one state that is right
both for the record alone and for the record below the template.

*The guard.* What the ruleset decides on is the attempt that started last, while
attempts end in any order. `GuardInv` says that there is a point in the history
after which every attempt for the head commit tells the truth about the pull
request as it is now, that each job was started after that point, and that
attempts after the last switch carry the present setting; so the decisive ones
are among them. What an attempt tells (`Tells`) says which questions it has given
up: one at the key query has given up the branch query if Linear links the
branch, and one that failed has given up every question whose answer would have
confirmed it (`Confirming`). So `GoodOnesMerge` lets through every good pull
request but those no answer was there for.

Only model-checked:

* `VerdictAsRecorded`: it is about concrete cases, for which a check over all of
  them is the statement;
* the liveness properties `CallAnswered` and `AttemptsEnd`, which are out of the
  prover's reach; `CallsRunOut` and `JobsRunOut` prove what they need beside
  fairness.

## 6. Findings

All are disagreements between a document or comment of the repository and its
code, each shown by a run in which TLC finds the documented property violated.

1. `recorded_reproduce`: the README says that the differ task exits 0 only when
   the recorded findings still reproduce. A recorded corpus case that has no
   directory in any corpus is never looked for, and the task still exits 0.
2. `calibration_trusted`: `pipeline.rs` says the default marshaling was chosen
   by `calibrate` and yields its result with `exp_status == 0`. The calibrate
   step passes if any of eight cells has the result, expired or not, and what it
   finds is only printed. Run alone it therefore vouches for nothing; in the
   whole task the oracle leg judges the same case under the default, and
   `DefaultTrusted` shows that a success then does mean it.
3. `sweep_repro`: FINDINGS.md reproduces any sweep case by seed and iteration.
   The command a report records names no base, so that for a case of a sweep
   with `--base` it draws another mutant.
4. `corpus_genuine`: the corpus build says that every document and certificate
   in it carries Intel's signature. Its cache believes any file that exists: a
   build killed while it writes an issuer chain or the root CRL leaves it cut
   off, and later builds splice it in and end well, for only the two signed
   documents are checked.

## 7. Not modelled

* ECDSA, SHA-256, ASN.1, PEM, JSON and hex are ideal or data: a signature
  verifies under one key or none, an object decodes or not. CA identity is by
  name and key. The derived deserializers of the document bodies are their
  types. Formatting of errors and logging are left out.
* The marshaling of collateral for QVL and QVL itself: an outcome per case.
* What a mutation of the sweep changes: an outcome per mutant.
* Recorded cases that do not parse (there is no call) and the boundary-time
  cases (no verdict is recorded for them; `dcap_verify` has the boundaries).
* A sweep with `--base` excuses a recorded iteration of its seed although the
  mutant is of another base (`main.rs:361`), which `Implements` has as the
  recorded iteration standing for the mutant; nothing in the repository says
  otherwise.
* A branch that Linear links by another token than the first key-shaped one of
  its name (`fix-sha-256-ENG-149`) has no second chance: when the branch query
  fails, the key query looks up `SHA-256` and the job fails, until a rerun. The
  model has such heads, and `GoodIsMergeable` excuses them only then; the code
  fails closed there on purpose, and a test has it so
  (`.github/scripts/test_branch_flow_guard.py`, "The branch query fails and the
  key does not exist: fail").
* Case directories are named by iteration alone, so a sweep of another seed
  overwrites those of the last; `ReportKept` is about the sweep that ran last.

Worth doing next: the recordings of `RecordedCases` for more bases than the
fixtures have; the sweeps' random numbers, with which the reproduction by seed
(finding 3) could be followed down to the mutant.
