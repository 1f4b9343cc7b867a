-------------------------- MODULE CorpusBuildProofs --------------------------
(***************************************************************************)
(* Builds of the corpus that are killed anywhere, as often as one likes,   *)
(* splice no torn signed document and leave no half case to be compared.   *)
(***************************************************************************)
EXTENDS CorpusBuild, TLAPS

Content == {Absent, Torn, Genuine}
FileContent == Content \cup UNION {[Parts[c] -> Content] : c \in Case}
Phase == {"idle", "wipe", "fetch", "verify"} \cup Field \cup CaseFile

(* The variables keep their types, and the build a place in its lists. *)
Typed ==
  /\ cache \in [Label -> [Field -> Content]] /\ fetched \in [Label -> [Field -> Content]]
  /\ corpus \in [Case -> [CaseFile -> FileContent]]
  /\ phase \in Phase /\ at \in Nat
  /\ phase \in {"fetch"} \cup Field => at \in DOMAIN Labels
  /\ phase \in CaseFile => at \in DOMAIN Cases

(* No chain is cached beside a body that is not whole. *)
CacheSound ==
  /\ \A l \in Chained : cache[l]["chain"] # Absent => cache[l]["body"] = Genuine
  /\ phase = "body" /\ Labels[at] \in Chained => cache[Labels[at]]["chain"] = Absent
  /\ phase = "chain" => cache[Labels[at]]["body"] = Genuine

(* What came with a chain is in memory as it was sent, once it is fetched. *)
MemorySound ==
  /\ phase \in {"fetch"} \cup Field =>
       \A j \in DOMAIN Labels :
         j < at /\ Labels[j] \in Chained => fetched[Labels[j]]["body"] = Genuine
  /\ phase = "chain" => fetched[Labels[at]]["body"] = Genuine
  /\ phase \in CaseFile => \A l \in Chained : fetched[l]["body"] = Genuine

BodiesInv == Typed /\ CacheSound /\ MemorySound /\ BodiesGenuine

-----------------------------------------------------------------------------
(* The lists have a first element each. *)
LEMMA FirstPlaces ==
  /\ 1 \in DOMAIN Labels /\ 1 \in DOMAIN Cases
  /\ DOMAIN Labels = 1..Len(Labels) /\ DOMAIN Cases = 1..Len(Cases)
  /\ Len(Labels) \in Nat /\ Len(Cases) \in Nat
<1>1. ASSUME NEW S, NEW s \in Seq(S), s # <<>>
      PROVE  1 \in DOMAIN s /\ DOMAIN s = 1..Len(s) /\ Len(s) \in Nat
  BY <1>1
<1> QED
  BY <1>1, CorpusAssumption

(* Where the build goes when it is done with a label or a case. *)
LEMMA NextLabel ==
  ASSUME at \in DOMAIN Labels, NextOf("fetch", Labels, "quote")
  PROVE  \/ phase' = "fetch" /\ at' = at + 1 /\ at' \in DOMAIN Labels
         \/ phase' = "quote" /\ at' = 1 /\ at = Len(Labels) /\ at' \in DOMAIN Cases
  BY FirstPlaces DEF NextOf, GoTo

(* Likewise for cases. *)
LEMMA NextCase ==
  ASSUME at \in DOMAIN Cases, NextOf("quote", Cases, "verify")
  PROVE  \/ phase' = "quote" /\ at' = at + 1 /\ at' \in DOMAIN Cases
         \/ phase' = "verify" /\ at' = 1
  BY FirstPlaces DEF NextOf, GoTo

(* Storing an answer keeps types, and both copies are the same. *)
LEMMA StoreStores ==
  ASSUME Typed, NEW l \in Label, NEW f \in Field, Store(l, f)
  PROVE  /\ cache' \in [Label -> [Field -> Content]] /\ fetched' \in [Label -> [Field -> Content]]
         /\ cache'[l][f] = Genuine /\ fetched'[l][f] = Genuine
         /\ \A m \in Label, g \in Field : m # l \/ g # f =>
              cache'[m][g] = cache[m][g] /\ fetched'[m][g] = fetched[m][g]
         /\ corpus' = corpus
  BY DEF Typed, Store, Content

(* Writing a file of a case touches no other. *)
LEMMA EmitWrites ==
  ASSUME Typed, NEW f \in CaseFile, NEW content \in FileContent, Emit(f, content)
  PROVE  /\ at \in DOMAIN Cases /\ Cases[at] \in Case
         /\ corpus' \in [Case -> [CaseFile -> FileContent]]
         /\ corpus'[Cases[at]][f] = content
         /\ \A c \in Case, g \in CaseFile :
              c # Cases[at] \/ g # f => corpus'[c][g] = corpus[c][g]
         /\ cache' = cache /\ fetched' = fetched
<1>1. phase \in CaseFile /\ corpus' = [corpus EXCEPT ![Cases[at]][f] = content]
  BY DEF Emit
<1>2. at \in DOMAIN Cases /\ Cases[at] \in Case
  BY <1>1 DEF Typed, Case
<1> QED
  BY <1>1, <1>2 DEF Typed, Emit

(* A collateral is spliced from what is in memory. *)
LEMMA SplicedType ==
  ASSUME Typed, NEW c \in Case
  PROVE  /\ Spliced(c) \in [Parts[c] -> Content] /\ Spliced(c) \in FileContent
         /\ Spliced(c) \notin {Absent, Torn}
         /\ \A p \in Parts[c] : p \in Label \X Field /\ Spliced(c)[p] = fetched[p[1]][p[2]]
<1>1. Parts[c] \subseteq Label \X Field
  BY CorpusAssumption
<1>2. Spliced(c) \in [Parts[c] -> Content]
  BY <1>1 DEF Spliced, Typed
<1> QED
  BY <1>1, <1>2, CorpusAssumption DEF Spliced, FileContent, Content

(* Nothing is there at first. *)
LEMMA BodiesStart == Init => BodiesInv
  BY CorpusAssumption, FirstPlaces
  DEF Init, BodiesInv, Typed, CacheSound, MemorySound, BodiesGenuine, NoArtifact, NoFiles,
      Content, FileContent, Phase, Field, CaseFile

(* Every action keeps types, cache and memory sound. *)
LEMMA BodiesStep == BodiesInv /\ [Next]_vars => BodiesInv'
<1> SUFFICES ASSUME BodiesInv, [Next]_vars PROVE BodiesInv'
  OBVIOUS
<1> USE CorpusAssumption, FirstPlaces
<1>1. CASE Start
  BY <1>1 DEF Start, GoTo, BodiesInv, Typed, CacheSound, MemorySound, BodiesGenuine,
              NoArtifact, Content, Phase, Field, CaseFile
<1>2. CASE WipeFile
  BY <1>2 DEF WipeFile, BodiesInv, Typed, CacheSound, MemorySound, BodiesGenuine,
              Content, FileContent, Phase, Field, CaseFile
<1>3. CASE Wiped
  BY <1>3 DEF Wiped, GoTo, BodiesInv, Typed, CacheSound, MemorySound, BodiesGenuine,
              Phase, Field, CaseFile
<1>4. CASE UseCache
  <2> DEFINE l == Labels[at]
  <2>1. /\ l \in Label /\ at \in DOMAIN Labels /\ phase = "fetch"
        /\ fetched' = [fetched EXCEPT ![l] = cache[l]]
        /\ cache' = cache /\ corpus' = corpus
    BY <1>4 DEF UseCache, BodiesInv, Typed, Label
  <2>2. \/ phase' = "fetch" /\ at' = at + 1 /\ at' \in DOMAIN Labels
        \/ phase' = "quote" /\ at' = 1 /\ at = Len(Labels) /\ at' \in DOMAIN Cases
    BY <1>4, <2>1, NextLabel DEF UseCache
  <2>3. l \in Chained => cache[l]["body"] = Genuine
    BY <1>4 DEF UseCache, Cached, BodiesInv, CacheSound
  <2>4. Typed'
    BY <2>1, <2>2 DEF BodiesInv, Typed, Phase, CaseFile, Field
  <2>5. \A m \in Label : fetched'[m] = IF m = l THEN cache[l] ELSE fetched[m]
    BY <2>1 DEF BodiesInv, Typed
  <2>6. \A j \in DOMAIN Labels :
          j <= at /\ Labels[j] \in Chained => fetched'[Labels[j]]["body"] = Genuine
    BY <2>1, <2>3, <2>5 DEF BodiesInv, MemorySound, Label
  <2>7. MemorySound'
    BY <2>1, <2>2, <2>6 DEF MemorySound, Field, CaseFile, Label
  <2> QED
    BY <2>1, <2>2, <2>4, <2>7 DEF BodiesInv, CacheSound, BodiesGenuine
<1>5. CASE Answered
  BY <1>5 DEF Answered, Cached, GoTo, BodiesInv, Typed, CacheSound, MemorySound,
              BodiesGenuine, Phase, Field, CaseFile
<1>6. CASE NotAnswered
  BY <1>6 DEF NotAnswered, Fail, GoTo, BodiesInv, Typed, CacheSound, MemorySound,
              BodiesGenuine, Phase, Field, CaseFile
<1>7. CASE WriteBody
  <2> DEFINE l == Labels[at]
  <2>1. l \in Label /\ at \in DOMAIN Labels /\ phase = "body" /\ Store(l, "body")
    BY <1>7 DEF WriteBody, BodiesInv, Typed, Label, Field
  <2>2. /\ cache' \in [Label -> [Field -> Content]] /\ fetched' \in [Label -> [Field -> Content]]
        /\ cache'[l]["body"] = Genuine /\ fetched'[l]["body"] = Genuine
        /\ \A m \in Label, g \in Field : m # l \/ g # "body" =>
             cache'[m][g] = cache[m][g] /\ fetched'[m][g] = fetched[m][g]
        /\ corpus' = corpus
    BY <2>1, StoreStores DEF BodiesInv, Field
  <2>3. \/ phase' = "chain" /\ at' = at
        \/ phase' = "idle" /\ at' = 1
        \/ phase' = "fetch" /\ at' = at + 1 /\ at' \in DOMAIN Labels
        \/ phase' = "quote" /\ at' = 1 /\ at = Len(Labels) /\ at' \in DOMAIN Cases
    BY <1>7, <2>1, NextLabel DEF WriteBody, GoTo, Fail
  <2>4. Typed'
    BY <2>1, <2>2, <2>3 DEF BodiesInv, Typed, Phase, CaseFile, Field
  <2>5. \A m \in Chained : cache'[m]["chain"] # Absent => cache'[m]["body"] = Genuine
    BY <2>2 DEF BodiesInv, CacheSound, Field
  <2>6. \A j \in DOMAIN Labels :
          j <= at /\ Labels[j] \in Chained => fetched'[Labels[j]]["body"] = Genuine
    <3>1. \A m \in Label : m # l => fetched'[m]["body"] = fetched[m]["body"]
      BY <2>2 DEF Field
    <3>2. \A j \in DOMAIN Labels :
            j < at /\ Labels[j] \in Chained => fetched[Labels[j]]["body"] = Genuine
      BY <2>1 DEF BodiesInv, MemorySound, Field
    <3>3. \A j \in DOMAIN Labels : Labels[j] \in Label
      BY DEF Label
    <3> SUFFICES ASSUME NEW j \in DOMAIN Labels, j <= at, Labels[j] \in Chained
                 PROVE  fetched'[Labels[j]]["body"] = Genuine
      OBVIOUS
    <3>4. CASE Labels[j] = l
      BY <2>2, <3>4
    <3>5. CASE Labels[j] # l
      <4>1. j < at
        BY <2>1, <3>5
      <4> QED
        BY <3>1, <3>2, <3>3, <3>5, <4>1
    <3> QED
      BY <3>4, <3>5
  <2>7. CacheSound'
    BY <2>2, <2>3, <2>5 DEF CacheSound
  <2>8. MemorySound'
    <3>1. CASE phase' = "chain" /\ at' = at
      BY <2>1, <2>2, <2>6, <3>1 DEF MemorySound, Field, CaseFile
    <3>2. CASE phase' # "chain"
      BY <2>1, <2>3, <2>6, <3>2 DEF MemorySound, Field, CaseFile, Label
    <3> QED
      BY <2>3, <3>1, <3>2
  <2> QED
    BY <2>2, <2>4, <2>7, <2>8 DEF BodiesInv, BodiesGenuine
<1>8. CASE WriteChain
  <2> DEFINE l == Labels[at]
  <2>1. l \in Label /\ at \in DOMAIN Labels /\ phase = "chain" /\ Store(l, "chain")
    BY <1>8 DEF WriteChain, BodiesInv, Typed, Label, Field
  <2>2. /\ cache' \in [Label -> [Field -> Content]] /\ fetched' \in [Label -> [Field -> Content]]
        /\ \A m \in Label, g \in Field : m # l \/ g # "chain" =>
             cache'[m][g] = cache[m][g] /\ fetched'[m][g] = fetched[m][g]
        /\ corpus' = corpus
    BY <2>1, StoreStores DEF BodiesInv, Field
  <2>3. \/ phase' = "fetch" /\ at' = at + 1 /\ at' \in DOMAIN Labels
        \/ phase' = "quote" /\ at' = 1 /\ at = Len(Labels) /\ at' \in DOMAIN Cases
    BY <1>8, <2>1, NextLabel DEF WriteChain
  <2>4. Typed'
    BY <2>1, <2>2, <2>3 DEF BodiesInv, Typed, Phase, CaseFile, Field
  <2>5. \A m \in Label : cache'[m]["body"] = cache[m]["body"] /\ fetched'[m]["body"] = fetched[m]["body"]
    BY <2>2 DEF Field
  <2>6. cache[l]["body"] = Genuine /\ fetched[l]["body"] = Genuine
    BY <2>1 DEF BodiesInv, CacheSound, MemorySound
  <2>7. CacheSound'
    <3>1. \A m \in Chained : m # l => cache'[m]["chain"] = cache[m]["chain"]
      BY <2>2 DEF Field
    <3> QED
      BY <2>3, <2>5, <2>6, <3>1 DEF BodiesInv, CacheSound
  <2>8. \A j \in DOMAIN Labels :
          j <= at /\ Labels[j] \in Chained => fetched'[Labels[j]]["body"] = Genuine
    <3>1. \A j \in DOMAIN Labels :
            j < at /\ Labels[j] \in Chained => fetched[Labels[j]]["body"] = Genuine
      BY <2>1 DEF BodiesInv, MemorySound, Field
    <3>2. ASSUME NEW j \in DOMAIN Labels, j <= at, Labels[j] \in Chained
          PROVE  fetched'[Labels[j]]["body"] = Genuine
      <4>1. Labels[j] \in Label
        BY DEF Label
      <4>2. fetched'[Labels[j]]["body"] = fetched[Labels[j]]["body"]
        BY <2>5, <4>1
      <4>3. CASE j = at
        BY <2>6, <4>2, <4>3
      <4>4. CASE j # at
        <5>1. at \in Nat /\ j \in Nat
          BY <2>1, CorpusAssumption
        <5>2. j < at
          BY <3>2, <4>4, <5>1
        <5> QED
          BY <3>1, <3>2, <4>2, <5>2
      <4> QED
        BY <4>3, <4>4
    <3> QED
      BY <3>2
  <2>9. MemorySound'
    BY <2>1, <2>3, <2>8 DEF MemorySound, Field, CaseFile, Label
  <2> QED
    BY <2>2, <2>4, <2>7, <2>9 DEF BodiesInv, BodiesGenuine
<1>9. CASE WriteQuote
  <2>1. Genuine \in FileContent /\ "quote" \in CaseFile
    BY DEF FileContent, Content, CaseFile
  <2>2. Emit("quote", Genuine) /\ phase' = "collateral" /\ at' = at /\ phase = "quote"
    BY <1>9 DEF WriteQuote, GoTo, Emit
  <2>3. BodiesGenuine'
    BY <2>1, <2>2, EmitWrites DEF BodiesInv, BodiesGenuine, CaseFile
  <2> QED
    BY <2>1, <2>2, <2>3, EmitWrites
    DEF BodiesInv, Typed, CacheSound, MemorySound, Phase, Field, CaseFile
<1>10. CASE WriteCollateral
  <2> DEFINE d == Cases[at]
  <2>1. d \in Case /\ "collateral" \in CaseFile
    BY <1>10 DEF WriteCollateral, Emit, BodiesInv, Typed, CaseFile, Case
  <2>2. /\ Emit("collateral", Spliced(d)) /\ phase' = "meta" /\ at' = at
        /\ phase = "collateral" /\ Spliced(d) \in FileContent
    BY <1>10, <2>1, SplicedType DEF WriteCollateral, GoTo, Emit, BodiesInv
  <2>3. /\ corpus'[d]["collateral"] = Spliced(d)
        /\ \A c \in Case : c # d => corpus'[c]["collateral"] = corpus[c]["collateral"]
    BY <2>1, <2>2, EmitWrites DEF BodiesInv
  <2>4. \A p \in Parts[d] : p[1] \in Chained /\ p[2] = "body" => Spliced(d)[p] = Genuine
    <3>1. \A l \in Chained : fetched[l]["body"] = Genuine
      BY <2>2 DEF BodiesInv, MemorySound, CaseFile
    <3>2. \A p \in Parts[d] : Spliced(d)[p] = fetched[p[1]][p[2]]
      BY <2>1, SplicedType DEF BodiesInv
    <3> QED
      BY <3>1, <3>2
  <2>5. BodiesGenuine'
    BY <2>3, <2>4 DEF BodiesInv, BodiesGenuine
  <2> QED
    BY <2>1, <2>2, <2>5, EmitWrites
    DEF BodiesInv, Typed, CacheSound, MemorySound, Phase, Field, CaseFile
<1>11. CASE WriteMeta
  <2>1. Genuine \in FileContent /\ "meta" \in CaseFile
    BY DEF FileContent, Content, CaseFile
  <2>2. Emit("meta", Genuine) /\ phase = "meta" /\ at \in DOMAIN Cases
    BY <1>11 DEF WriteMeta, Emit, BodiesInv, Typed, CaseFile
  <2>3. \/ phase' = "quote" /\ at' = at + 1 /\ at' \in DOMAIN Cases
        \/ phase' = "verify" /\ at' = 1
    BY <1>11, <2>2, NextCase DEF WriteMeta
  <2>4. BodiesGenuine'
    BY <2>1, <2>2, EmitWrites DEF BodiesInv, BodiesGenuine, CaseFile
  <2> QED
    BY <2>1, <2>2, <2>3, <2>4, EmitWrites
    DEF BodiesInv, Typed, CacheSound, MemorySound, Phase, Field, CaseFile
<1>12. CASE Verify
  BY <1>12 DEF Verify, Fail, GoTo, BodiesInv, Typed, CacheSound, MemorySound,
              BodiesGenuine, Phase, Field, CaseFile
<1>13. CASE Kill
  <2>1. phase' = "idle" /\ at' = 1 /\ fetched' = fetched
    BY <1>13 DEF Kill, Fail, GoTo
  <2>2. MemorySound'
    BY <2>1 DEF MemorySound, Field, CaseFile
  <2>3. CASE UNCHANGED <<cache, corpus>>
    BY <2>1, <2>2, <2>3
    DEF BodiesInv, Typed, CacheSound, BodiesGenuine, Phase, Field, CaseFile
  <2>4. CASE /\ phase \in Field /\ UNCHANGED corpus
             /\ cache' = [cache EXCEPT ![Labels[at]][phase] = Torn]
    <3>1. Labels[at] \in Label
      BY <2>4 DEF BodiesInv, Typed, Label
    <3>2. /\ cache' \in [Label -> [Field -> Content]] /\ cache'[Labels[at]][phase] = Torn
          /\ \A m \in Label, g \in Field :
               m # Labels[at] \/ g # phase => cache'[m][g] = cache[m][g]
      BY <2>4, <3>1 DEF BodiesInv, Typed, Content
    <3>3. CacheSound'
      BY <2>1, <2>4, <3>1, <3>2 DEF BodiesInv, CacheSound, Field
    <3> QED
      BY <2>1, <2>2, <2>4, <3>2, <3>3
      DEF BodiesInv, Typed, BodiesGenuine, Phase, Field, CaseFile
  <2>5. CASE /\ phase \in CaseFile /\ UNCHANGED cache
             /\ corpus' = [corpus EXCEPT ![Cases[at]][phase] = Torn]
    <3>1. Cases[at] \in Case /\ Torn \in FileContent
      BY <2>5 DEF BodiesInv, Typed, Case, FileContent, Content
    <3>2. /\ corpus' \in [Case -> [CaseFile -> FileContent]]
          /\ \A c \in Case, g \in CaseFile : corpus'[c][g] \in {corpus[c][g], Torn}
      BY <2>5, <3>1 DEF BodiesInv, Typed
    <3>3. BodiesGenuine'
      BY <3>2 DEF BodiesInv, BodiesGenuine, CaseFile
    <3> QED
      BY <2>1, <2>2, <2>5, <3>2, <3>3
      DEF BodiesInv, Typed, CacheSound, Phase, Field, CaseFile
  <2> QED
    BY <1>13, <2>3, <2>4, <2>5 DEF Kill
<1>14. CASE UNCHANGED vars
  BY <1>14 DEF vars, BodiesInv, Typed, CacheSound, MemorySound, BodiesGenuine
<1> QED
  BY <1>1, <1>2, <1>3, <1>4, <1>5, <1>6, <1>7, <1>8, <1>9, <1>10, <1>11, <1>12, <1>13, <1>14
  DEF Next

(* No case is ever spliced from a torn document that came with an issuer   *)
(* chain: for any artifacts, cases and number of builds killed, what is in *)
(* the cache beside a chain is whole, so it is in memory, so it is in the  *)
(* cases.                                                                  *)
THEOREM BodiesAreGenuine == Spec => []BodiesGenuine
<1>1. BodiesInv => BodiesGenuine
  BY DEF BodiesInv
<1> QED
  BY BodiesStart, BodiesStep, <1>1, PTL DEF Spec

-----------------------------------------------------------------------------
(* A file that is cut off is the last one written of its case. *)
LastTorn ==
  \A c \in Case :
    /\ corpus[c]["quote"] \in Content
    /\ corpus[c]["quote"] = Torn => corpus[c]["meta"] = Absent
    /\ corpus[c]["collateral"] = Torn => corpus[c]["meta"] = Absent

(* Nothing is there of the cases still to be written, and of the one the   *)
(* build is at what it has written.                                        *)
Ahead ==
  /\ phase \in {"fetch"} \cup Field => \A c \in Case, g \in CaseFile : corpus[c][g] = Absent
  /\ phase \in CaseFile =>
       \A j \in DOMAIN Cases, g \in CaseFile : j > at => corpus[Cases[j]][g] = Absent
  /\ phase = "quote" => \A g \in CaseFile : corpus[Cases[at]][g] = Absent
  /\ phase = "collateral" => corpus[Cases[at]]["quote"] = Genuine
  /\ phase = "meta" =>
       corpus[Cases[at]]["quote"] = Genuine /\ corpus[Cases[at]]["collateral"] # Torn
  /\ phase \in {"collateral", "meta"} => corpus[Cases[at]]["meta"] = Absent

HalfInv == LastTorn /\ Ahead

(* The directories are empty at first. *)
LEMMA HalfStart == Init => HalfInv
  BY DEF Init, HalfInv, LastTorn, Ahead, NoFiles, Content, Field, CaseFile

(* A step that writes no case and starts no other keeps what is ahead. *)
LEMMA FetchingKeeps ==
  ASSUME HalfInv, corpus' = corpus,
         phase \in {"fetch"} \cup Field,
         \/ phase' \in {"idle", "fetch"} \cup Field
         \/ phase' = "quote" /\ at' \in DOMAIN Cases
  PROVE  HalfInv'
<1>1. \A j \in DOMAIN Cases : Cases[j] \in Case
  BY DEF Case
<1> QED
  BY <1>1 DEF HalfInv, LastTorn, Ahead, Field, CaseFile

(* Every action leaves the case it is at with its files in order. *)
LEMMA HalfStep == BodiesInv /\ HalfInv /\ [Next]_vars => HalfInv'
<1> SUFFICES ASSUME BodiesInv, HalfInv, [Next]_vars PROVE HalfInv'
  OBVIOUS
<1> USE FirstPlaces
<1>a. /\ \A j \in DOMAIN Cases : Cases[j] \in Case
      /\ \A i, j \in DOMAIN Cases : Cases[i] = Cases[j] => i = j
      /\ Absent # Torn /\ Genuine # Torn /\ Genuine # Absent
  BY CorpusAssumption DEF Case
<1>1. CASE Start
  BY <1>1 DEF Start, GoTo, HalfInv, LastTorn, Ahead, Field, CaseFile
<1>2. CASE WipeFile
  <2>1. phase = "wipe" /\ phase' = "wipe"
    BY <1>2 DEF WipeFile
  <2>2. PICK c \in Case, f \in CaseFile : corpus' = [corpus EXCEPT ![c][f] = Absent]
    BY <1>2 DEF WipeFile
  <2>3. \A d \in Case, g \in CaseFile : corpus'[d][g] \in {corpus[d][g], Absent}
    BY <2>2 DEF BodiesInv, Typed
  <2>4. \A d \in Case :
          /\ corpus'[d]["quote"] \in {corpus[d]["quote"], Absent}
          /\ corpus'[d]["collateral"] \in {corpus[d]["collateral"], Absent}
          /\ corpus'[d]["meta"] \in {corpus[d]["meta"], Absent}
    BY <2>3 DEF CaseFile
  <2>5. LastTorn'
    BY <1>a, <2>4 DEF HalfInv, LastTorn, Content
  <2> QED
    BY <2>1, <2>5 DEF HalfInv, Ahead, Field, CaseFile
<1>3. CASE Wiped
  BY <1>3 DEF Wiped, GoTo, HalfInv, LastTorn, Ahead, NoFiles, Field, CaseFile
<1>4. CASE UseCache
  <2>1. at \in DOMAIN Labels
    BY <1>4 DEF UseCache, BodiesInv, Typed
  <2> QED
    BY <1>4, <2>1, NextLabel, FetchingKeeps DEF UseCache
<1>5. CASE Answered
  BY <1>5, FetchingKeeps DEF Answered, GoTo, Field
<1>6. CASE NotAnswered
  BY <1>6, FetchingKeeps DEF NotAnswered, Fail, GoTo
<1>7. CASE WriteBody
  <2>1. at \in DOMAIN Labels /\ phase = "body" /\ corpus' = corpus
    BY <1>7 DEF WriteBody, Store, BodiesInv, Typed, Field
  <2> QED
    BY <1>7, <2>1, NextLabel, FetchingKeeps DEF WriteBody, GoTo, Fail, Field
<1>8. CASE WriteChain
  <2>1. at \in DOMAIN Labels /\ phase = "chain" /\ corpus' = corpus
    BY <1>8 DEF WriteChain, Store, BodiesInv, Typed, Field
  <2> QED
    BY <1>8, <2>1, NextLabel, FetchingKeeps DEF WriteChain, Field
<1>9. CASE WriteQuote
  <2>1. /\ Emit("quote", Genuine) /\ phase = "quote" /\ phase' = "collateral" /\ at' = at
        /\ Genuine \in FileContent /\ "quote" \in CaseFile
    BY <1>9 DEF WriteQuote, GoTo, Emit, FileContent, Content, CaseFile
  <2>2. /\ at \in DOMAIN Cases /\ corpus'[Cases[at]]["quote"] = Genuine
        /\ \A c \in Case, g \in CaseFile :
             c # Cases[at] \/ g # "quote" => corpus'[c][g] = corpus[c][g]
    BY <2>1, EmitWrites DEF BodiesInv
  <2>3. LastTorn'
    BY <1>a, <2>2 DEF HalfInv, LastTorn, Content, CaseFile
  <2>4. \A j \in DOMAIN Cases, g \in CaseFile : j > at => corpus'[Cases[j]][g] = Absent
    BY <1>a, <2>1, <2>2 DEF HalfInv, Ahead
  <2> QED
    BY <1>a, <2>1, <2>2, <2>3, <2>4 DEF HalfInv, Ahead, Field, CaseFile
<1>10. CASE WriteCollateral
  <2>1. /\ Emit("collateral", Spliced(Cases[at]))
        /\ phase = "collateral" /\ phase' = "meta" /\ at' = at /\ "collateral" \in CaseFile
        /\ Cases[at] \in Case
    BY <1>10 DEF WriteCollateral, GoTo, Emit, BodiesInv, Typed, CaseFile, Case
  <2>2. Spliced(Cases[at]) \in FileContent /\ Spliced(Cases[at]) # Torn
    BY <2>1, SplicedType DEF BodiesInv
  <2>3. /\ at \in DOMAIN Cases /\ corpus'[Cases[at]]["collateral"] # Torn
        /\ \A c \in Case, g \in CaseFile :
             c # Cases[at] \/ g # "collateral" => corpus'[c][g] = corpus[c][g]
    BY <2>1, <2>2, EmitWrites DEF BodiesInv
  <2>4. LastTorn'
    BY <1>a, <2>3 DEF HalfInv, LastTorn, Content, CaseFile
  <2>5. \A j \in DOMAIN Cases, g \in CaseFile : j > at => corpus'[Cases[j]][g] = Absent
    BY <1>a, <2>1, <2>3 DEF HalfInv, Ahead
  <2> QED
    BY <1>a, <2>1, <2>3, <2>4, <2>5 DEF HalfInv, Ahead, Field, CaseFile
<1>11. CASE WriteMeta
  <2>1. /\ Emit("meta", Genuine) /\ phase = "meta"
        /\ Genuine \in FileContent /\ "meta" \in CaseFile
    BY <1>11 DEF WriteMeta, Emit, FileContent, Content, CaseFile
  <2>2. /\ at \in DOMAIN Cases
        /\ \A c \in Case, g \in CaseFile :
             c # Cases[at] \/ g # "meta" => corpus'[c][g] = corpus[c][g]
    BY <2>1, EmitWrites DEF BodiesInv
  <2>3. \/ phase' = "quote" /\ at' = at + 1 /\ at' \in DOMAIN Cases
        \/ phase' = "verify" /\ at' = 1
    BY <1>11, <2>2, NextCase DEF WriteMeta
  <2>4. LastTorn'
    BY <1>a, <2>1, <2>2 DEF HalfInv, LastTorn, Ahead, Content, CaseFile
  <2>5. \A j \in DOMAIN Cases, g \in CaseFile : j > at => corpus'[Cases[j]][g] = Absent
    BY <1>a, <2>1, <2>2 DEF HalfInv, Ahead
  <2> QED
    BY <1>a, <2>2, <2>3, <2>4, <2>5 DEF HalfInv, Ahead, Field, CaseFile
<1>12. CASE Verify
  BY <1>12 DEF Verify, Fail, GoTo, HalfInv, LastTorn, Ahead, Field, CaseFile
<1>13. CASE Kill
  <2>1. phase' = "idle"
    BY <1>13 DEF Kill, Fail, GoTo
  <2>2. CASE corpus' = corpus
    BY <2>1, <2>2 DEF HalfInv, LastTorn, Ahead, Field, CaseFile
  <2>3. CASE phase \in CaseFile /\ corpus' = [corpus EXCEPT ![Cases[at]][phase] = Torn]
    <3>1. at \in DOMAIN Cases /\ Cases[at] \in Case
      BY <1>a, <2>3 DEF BodiesInv, Typed
    <3>2. /\ corpus'[Cases[at]][phase] = Torn
          /\ \A c \in Case, g \in CaseFile :
               c # Cases[at] \/ g # phase => corpus'[c][g] = corpus[c][g]
      BY <2>3, <3>1 DEF BodiesInv, Typed
    <3>3. CASE phase = "meta"
      <4>1. /\ corpus'[Cases[at]]["quote"] = Genuine /\ corpus'[Cases[at]]["collateral"] # Torn
            /\ \A c \in Case : c # Cases[at] =>
                 \A g \in CaseFile : corpus'[c][g] = corpus[c][g]
        BY <3>1, <3>2, <3>3 DEF HalfInv, Ahead, CaseFile
      <4>2. LastTorn'
        BY <1>a, <4>1 DEF HalfInv, LastTorn, Content, CaseFile
      <4> QED
        BY <2>1, <4>2 DEF HalfInv, Ahead, Field, CaseFile
    <3>4. CASE phase # "meta"
      <4>1. corpus[Cases[at]]["meta"] = Absent
        BY <2>3, <3>4 DEF HalfInv, Ahead, CaseFile
      <4>2. LastTorn'
        BY <1>a, <3>1, <3>2, <3>4, <4>1 DEF HalfInv, LastTorn, Content, CaseFile
      <4> QED
        BY <2>1, <4>2 DEF HalfInv, Ahead, Field, CaseFile
    <3> QED
      BY <3>3, <3>4
  <2> QED
    BY <1>13, <2>2, <2>3 DEF Kill
<1>14. CASE UNCHANGED vars
  BY <1>14 DEF vars, HalfInv, LastTorn, Ahead
<1> QED
  BY <1>1, <1>2, <1>3, <1>4, <1>5, <1>6, <1>7, <1>8, <1>9, <1>10, <1>11, <1>12, <1>13, <1>14
  DEF Next

(* Wherever a build was killed, what the differ picks up of its cases is   *)
(* whole or ends the leg: the files are written in an order, into a        *)
(* directory that is empty, so that a torn one is the last of its case.    *)
THEOREM PickedCasesAreWhole == Spec => []PickedIsWhole
<1>1. HalfInv => PickedIsWhole
  BY CorpusAssumption DEF HalfInv, LastTorn, PickedIsWhole, Picked, Content
<1> QED
  BY BodiesStart, BodiesStep, HalfStart, HalfStep, <1>1, PTL DEF Spec

=============================================================================
