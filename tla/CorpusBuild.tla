---------------------------- MODULE CorpusBuild ----------------------------
(***************************************************************************)
(* dcap-differ/tools/build_recombination_corpus.py: a build wipes the case *)
(* directories, fetches every artifact from Intel's service or the cache   *)
(* of earlier builds, writes case after case and reads them back.  It can  *)
(* be killed at any step, with the file it is writing torn, and is run     *)
(* again.  The differ picks up what it finds, between builds.              *)
(***************************************************************************)
EXTENDS Integers, Sequences

CONSTANTS
  Labels,          \* the artifacts, in the order they are fetched
  Chained,         \* those whose issuer chain comes in a header
  Cases,           \* the cases, in the order they are emitted
  Parts,           \* what a case is spliced from: pairs of a label and a field
  Absent, Torn, Genuine,   \* a file that is not there, cut off, or as sent
  MaxKills         \* bound on the builds that are killed

Attempts == 4

Label == {Labels[i] : i \in DOMAIN Labels}
Case == {Cases[i] : i \in DOMAIN Cases}
Field == {"body", "chain"}
CaseFile == {"quote", "collateral", "meta"}

(* Something is fetched and something emitted; the cases have names of     *)
(* their own; a file cut off is not one that is not there.                 *)
ASSUME CorpusAssumption ==
  /\ Labels \in Seq(Label) /\ Labels # <<>>
  /\ Cases \in Seq(Case) /\ Cases # <<>>
  /\ \A i, j \in DOMAIN Cases : Cases[i] = Cases[j] => i = j
  /\ Absent # Torn /\ Absent # Genuine /\ Torn # Genuine
  /\ \A c \in Case : {Absent, Torn} \cap [Parts[c] -> {Absent, Torn, Genuine}] = {}
  /\ Chained \subseteq Label
  /\ Parts \in [Case -> SUBSET (Label \X Field)]
  /\ MaxKills \in Nat

VARIABLES
  cache,           \* .pcs-cache: label.body and label.chain
  corpus,          \* the case directories
  phase,           \* what the build is doing, "idle" between builds
  at, attempt,     \* the artifact or case it is at, requests made for it
  fetched,         \* the artifacts in memory
  built,           \* the last build reached its end
  kills

vars == <<cache, corpus, phase, at, attempt, fetched, built, kills>>

NoArtifact == [f \in Field |-> Absent]
NoFiles == [f \in CaseFile |-> Absent]

Init ==
  /\ cache = [l \in Label |-> NoArtifact] /\ corpus = [c \in Case |-> NoFiles]
  /\ fetched = [l \in Label |-> NoArtifact]
  /\ phase = "idle" /\ at = 1 /\ attempt = 0 /\ built = FALSE /\ kills = 0

-----------------------------------------------------------------------------
(* The next artifact or case, or what comes after the last. *)
GoTo(p, i) == phase' = p /\ at' = i /\ attempt' = 0
NextOf(p, seq, q) == IF at < Len(seq) THEN GoTo(p, at + 1) ELSE GoTo(q, 1)

Start ==
  /\ phase = "idle" /\ GoTo("wipe", 1) /\ built' = FALSE
  /\ fetched' = [l \in Label |-> NoArtifact]
  /\ UNCHANGED <<cache, corpus, kills>>

(* Directories are removed file by file, in the order the system lists them. *)
WipeFile ==
  /\ phase = "wipe"
  /\ \E c \in Case, f \in CaseFile :
       corpus[c][f] # Absent /\ corpus' = [corpus EXCEPT ![c][f] = Absent]
  /\ UNCHANGED <<cache, phase, at, attempt, fetched, built, kills>>

(* A variant that leaves the old cases to be written over. *)
WipedNothing ==
  /\ phase = "wipe" /\ GoTo("fetch", 1)
  /\ UNCHANGED <<cache, corpus, fetched, built, kills>>

Wiped ==
  /\ phase = "wipe" /\ corpus = [c \in Case |-> NoFiles] /\ GoTo("fetch", 1)
  /\ UNCHANGED <<cache, corpus, fetched, built, kills>>

-----------------------------------------------------------------------------
(* A variant for which the body alone is enough. *)
CachedBody(l) == cache[l]["body"] # Absent

(* What counts as cached: the files are there, whatever they hold.  The    *)
(* chain is written after the body.                                        *)
Cached(l) ==
  cache[l]["body"] # Absent /\ (l \in Chained => cache[l]["chain"] # Absent)

UseCache ==
  /\ phase = "fetch" /\ Cached(Labels[at])
  /\ fetched' = [fetched EXCEPT ![Labels[at]] = cache[Labels[at]]]
  /\ NextOf("fetch", Labels, "quote")
  /\ UNCHANGED <<cache, corpus, built, kills>>

Answered ==
  /\ phase = "fetch" /\ ~Cached(Labels[at]) /\ GoTo("body", at)
  /\ UNCHANGED <<cache, corpus, fetched, built, kills>>

(* An exception ends the build. *)
Fail == GoTo("idle", 1)

(* A timeout, a reset or an error status is tried again. *)
NotAnswered ==
  /\ phase = "fetch" /\ ~Cached(Labels[at])
  /\ IF attempt + 1 < Attempts
     THEN attempt' = attempt + 1 /\ UNCHANGED <<phase, at>>
     ELSE Fail
  /\ UNCHANGED <<cache, corpus, fetched, built, kills>>

Store(l, f) ==
  /\ cache' = [cache EXCEPT ![l][f] = Genuine]
  /\ fetched' = [fetched EXCEPT ![l][f] = Genuine]
  /\ UNCHANGED <<corpus, built, kills>>

(* The answer may lack the header, which is found after the body is written. *)
WriteBody ==
  /\ phase = "body" /\ Store(Labels[at], "body")
  /\ IF Labels[at] \in Chained
     THEN GoTo("chain", at) \/ Fail
     ELSE NextOf("fetch", Labels, "quote")

WriteChain ==
  /\ phase = "chain" /\ Store(Labels[at], "chain")
  /\ NextOf("fetch", Labels, "quote")

-----------------------------------------------------------------------------
(* The collateral of a case as it is spliced from what is in memory. *)
Spliced(c) == [p \in Parts[c] |-> fetched[p[1]][p[2]]]

(* Writes a file of the case the build is at. *)
Emit(f, content) ==
  /\ phase = f /\ corpus' = [corpus EXCEPT ![Cases[at]][f] = content]
  /\ UNCHANGED <<cache, fetched, built, kills>>

WriteQuote == Emit("quote", Genuine) /\ GoTo("collateral", at)
WriteCollateral == Emit("collateral", Spliced(Cases[at])) /\ GoTo("meta", at)
WriteMeta == Emit("meta", Genuine) /\ NextOf("quote", Cases, "verify")

(* The slots that are signed are compared with what they were spliced from. *)
Verify ==
  /\ phase = "verify" /\ \A c \in Case : corpus[c]["collateral"] = Spliced(c)
  /\ Fail /\ built' = TRUE
  /\ UNCHANGED <<cache, corpus, fetched, kills>>

(* The build is killed; the file it is writing is whole as before or torn. *)
Kill ==
  /\ phase # "idle" /\ kills < MaxKills /\ kills' = kills + 1 /\ Fail
  /\ \/ UNCHANGED <<cache, corpus>>
     \/ /\ phase \in Field /\ UNCHANGED corpus
        /\ cache' = [cache EXCEPT ![Labels[at]][phase] = Torn]
     \/ /\ phase \in CaseFile /\ UNCHANGED cache
        /\ corpus' = [corpus EXCEPT ![Cases[at]][phase] = Torn]
  /\ UNCHANGED <<fetched, built>>

Next ==
  \/ Start \/ WipeFile \/ Wiped
  \/ UseCache \/ Answered \/ NotAnswered \/ WriteBody \/ WriteChain
  \/ WriteQuote \/ WriteCollateral \/ WriteMeta \/ Verify \/ Kill

Spec == Init /\ [][Next]_vars

-----------------------------------------------------------------------------
(* fixtures_cmd takes a directory for a case if it has a quote and a meta  *)
(* file, and panics if its collateral is missing or its meta file torn.    *)
Picked(c) == corpus[c]["quote"] # Absent /\ corpus[c]["meta"] # Absent
StopsDiffer(c) == corpus[c]["collateral"] = Absent \/ corpus[c]["meta"] = Torn

(* Between builds, wherever the last one was killed, the differ compares   *)
(* no half-written case: what it picks up is whole, or ends the leg with a *)
(* panic.  A torn collateral would be rejected by both verifiers and       *)
(* counted as an agreement.                                                *)
PickedIsWhole ==
  phase = "idle" =>
    \A c \in Case : Picked(c) =>
      \/ StopsDiffer(c)
      \/ corpus[c]["quote"] = Genuine /\ corpus[c]["collateral"] # Torn

(* No case is ever spliced from a torn document that came with an issuer   *)
(* chain, although the cache only looks whether files exist: a build that  *)
(* dies leaves no chain beside a torn body.                                *)
BodiesGenuine ==
  \A c \in Case : corpus[c]["collateral"] \notin {Absent, Torn} =>
    \A p \in Parts[c] :
      p[1] \in Chained /\ p[2] = "body" => corpus[c]["collateral"][p] = Genuine

(* What the tool says of a corpus it has finished: every document and      *)
(* certificate in it is as Intel signed it.                                *)
EverythingGenuine ==
  built => \A c \in Case : \A p \in Parts[c] : corpus[c]["collateral"][p] = Genuine
=============================================================================
