------------------------------ MODULE RawScan ------------------------------
(***************************************************************************)
(* The two scans that find a value in the text of a collateral file        *)
(* without parsing it: tcb_levels_range of the sweep (sweep.rs), which     *)
(* aims bit flips at the tcbInfo's levels, and extract_raw_object of the   *)
(* corpus build, which takes a signed document verbatim and checks later   *)
(* that it is spliced verbatim.  Both count brackets and must not count    *)
(* the ones inside strings.                                                *)
(***************************************************************************)
EXTENDS Integers, Sequences

CONSTANTS
  Docs          \* the chain, and the contents of the two tcbLevels arrays

(* A character of the text; a member's name is a single one. *)
Quote == "\""
Backslash == "\\"
Name == [levels |-> "L", tcb_info |-> "T", qe_identity |-> "Q"]
Brackets ==
  [levels |-> <<"[", "]">>, tcb_info |-> <<"{", "}">>, qe_identity |-> <<"{", "}">>]
Scanner == DOMAIN Name

VARIABLES
  doc, text, scanner,
  stage,              \* of the scan
  at, open,           \* the character it is at, where the value begins
  depth, inString, escaped

vars == <<doc, text, scanner, stage, at, open, depth, inString, escaped>>

-----------------------------------------------------------------------------
(* A collateral as the capture tools and assemble_collateral write it: the *)
(* chains, the tcbInfo and then the QE identity, each with its levels.     *)
Member(name, value) == <<Quote, name, Quote, ":">> \o value
Str(s) == <<Quote>> \o s \o <<Quote>>
Document(levels) == <<"{">> \o Member("L", <<"[">> \o levels \o <<"]">>) \o <<"}">>
Collateral(d) ==
  <<"{">> \o Member("C", Str(d.chain)) \o <<",">>
  \o Member("T", Document(d.tcbLevels)) \o <<",">>
  \o Member("Q", Document(d.qeLevels)) \o <<"}">>

(* A name of a member in the text, quoted. *)
Needles(s, name) == {i \in 1..(Len(s) - 2) : SubSeq(s, i, i + 2) = <<Quote, name, Quote>>}

(* JSON by itself: inside a string or not, character by character, and how *)
(* many brackets of a kind are open, the ones inside strings not counted.  *)
After(mode, c) ==
  IF mode = "outside" THEN IF c = Quote THEN "inside" ELSE mode
  ELSE IF mode = "escape" THEN "inside"
  ELSE IF c = Quote THEN "outside"
  ELSE IF c = Backslash THEN "escape" ELSE mode

Modes(s) ==
  LET m[i \in 0..Len(s)] == IF i = 0 THEN "outside" ELSE After(m[i - 1], s[i])
  IN m

Opens(mode, c, brackets) ==
  IF mode # "outside" THEN 0
  ELSE IF c = brackets[1] THEN 1 ELSE IF c = brackets[2] THEN -1 ELSE 0

Opened(s, brackets) ==
  LET d[i \in 0..Len(s)] ==
        IF i = 0 THEN 0 ELSE d[i - 1] + Opens(Modes(s)[i - 1], s[i], brackets)
  IN d

(* The content of an array closes every string and bracket that it opens.  *)
Closed(s) ==
  /\ Modes(s)[Len(s)] = "outside"
  /\ \A by \in Scanner : /\ Opened(s, Brackets[by])[Len(s)] = 0
                         /\ \A i \in 0..Len(s) : Opened(s, Brackets[by])[i] >= 0

(* The sweep also mutates files that are cut off, as collateral-truncated is. *)
Init ==
  /\ doc \in Docs /\ scanner \in Scanner
  /\ \E n \in IF scanner = "levels" THEN 0..Len(Collateral(doc)) ELSE {Len(Collateral(doc))} :
       text = SubSeq(Collateral(doc), 1, n)
  /\ stage = "find" /\ at = 1 /\ open = 0
  /\ depth = 0 /\ inString = FALSE /\ escaped = FALSE

-----------------------------------------------------------------------------
Found == Needles(text, Name[scanner])

Find ==
  /\ stage = "find"
  /\ \/ Found = {} /\ stage' = "none" /\ UNCHANGED at
     \/ \E i \in Found : /\ \A j \in Found : i <= j
                         /\ stage' = "skip" /\ at' = i + 3
  /\ UNCHANGED <<doc, text, scanner, open, depth, inString, escaped>>

Over == at > Len(text)
IsAt(c) == ~Over /\ text[at] = c

(* The build wants the colon and then the bracket, and gives up otherwise; *)
(* the sweep takes the next bracket there is.  No blanks are written here. *)
Skip ==
  /\ stage = "skip"
  /\ \/ IsAt(Brackets[scanner][1]) /\ stage' = "scan" /\ open' = at /\ UNCHANGED at
     \/ /\ ~IsAt(Brackets[scanner][1])
        /\ IF ~Over /\ (scanner = "levels" \/ (IsAt(":") /\ text[at - 1] = Quote))
           THEN at' = at + 1 /\ UNCHANGED <<stage, open>>
           ELSE stage' = "none" /\ UNCHANGED <<at, open>>
  /\ UNCHANGED <<doc, text, scanner, depth, inString, escaped>>

(* A variant that ends a string at an escaped quote. *)
InsideUnescaped ==
  /\ inString' = (text[at] # Quote)
  /\ UNCHANGED escaped

(* A character inside a string: an escape covers the next one. *)
Inside ==
  /\ escaped' = (~escaped /\ text[at] = Backslash)
  /\ inString' = (escaped \/ text[at] # Quote)

Outside ==
  /\ inString' = (text[at] = Quote) /\ UNCHANGED escaped

Scan ==
  /\ stage = "scan" /\ ~Over /\ at' = at + 1
  /\ IF inString THEN Inside ELSE Outside
  /\ depth' = IF inString THEN depth
              ELSE IF text[at] = Brackets[scanner][1] THEN depth + 1
              ELSE IF text[at] = Brackets[scanner][2] THEN depth - 1
              ELSE depth
  /\ stage' = IF depth' = 0 THEN "found" ELSE "scan"
  /\ UNCHANGED <<doc, text, scanner, open>>

Unbalanced ==
  /\ stage = "scan" /\ Over /\ stage' = "none"
  /\ UNCHANGED <<doc, text, scanner, at, open, depth, inString, escaped>>

Next == Find \/ Skip \/ Scan \/ Unbalanced

Spec == Init /\ [][Next]_vars

-----------------------------------------------------------------------------
Wanted ==
  CASE scanner = "levels" -> <<"[">> \o doc.tcbLevels \o <<"]">>
    [] scanner = "tcb_info" -> Document(doc.tcbLevels)
    [] scanner = "qe_identity" -> Document(doc.qeLevels)

(* Where the wanted value ends in the whole collateral. *)
End ==
  LET rest == CASE scanner = "levels" -> Len(<<"}", ",">> \o Member("Q", Document(doc.qeLevels))) + 1
                [] scanner = "tcb_info" -> Len(Member("Q", Document(doc.qeLevels))) + 2
                [] scanner = "qe_identity" -> 1
  IN Len(Collateral(doc)) - rest

(* A scan finds exactly the value it is for - not its namesake in the      *)
(* other document, and not less or more of it, whatever brackets, quotes   *)
(* and escapes stand in the strings before and inside it - and finds       *)
(* nothing exactly when the file is cut before the value ends.  The flips  *)
(* of the sweep land in the levels they are counted for, and a verbatim    *)
(* slot passes for verbatim.                                               *)
ScanExact ==
  /\ stage = "found" =>
       /\ at - 1 = End /\ SubSeq(text, open, at - 1) = Wanted
  /\ stage = "none" => Len(text) < End
=============================================================================
